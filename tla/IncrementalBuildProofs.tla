------------------------ MODULE IncrementalBuildProofs ------------------------
(***************************************************************************)
(* What builds keep, for every set of sources and contents, any number of  *)
(* builds, and every habit and fault the theorem does not exclude; and     *)
(* that what a build knows of its sources is so, for every set of sources  *)
(* and configuration, however the services move, fail and truncate, and    *)
(* whatever another builder writes meanwhile (SourceListing).              *)
(***************************************************************************)
EXTENDS IncrementalBuild, SourceListing, TLAPS

Rows       == [src : Sources, piece : Pieces, from : Nat]
EdgeFields == {"from", "to", "source", "since", "inv"}

\* The sources whose turn is still to come have no row of this build.
TodoIsFresh == pc = "sources" => \A a \in DOMAIN art : a.src \in todo => a.from < seq

ProgressTyped ==
  /\ seq \in Nat /\ active \in Nat /\ active <= seq
  /\ pc \in {"idle", "sources", "finalize", "completed"}
  /\ pc # "idle" => active < seq
  /\ todo \subseteq Sources /\ seen \subseteq Sources /\ changed \subseteq Sources
  /\ \A s \in Sources : world[s] \in ContentsOf[s] \cup {{}}

ItemsTyped ==
  \A s \in Sources : DOMAIN item[s] = {"hash", "deleted"} /\ item[s].deleted \in BOOLEAN

\* A row holds a piece that its own source may hold.
OwnPiece(a) == a.piece \in UNION ContentsOf[a.src]

ArtIsMap == art = [a \in DOMAIN art |-> art[a]]

ArtTyped ==
  /\ ArtIsMap
  /\ \A a \in DOMAIN art : /\ a \in Rows /\ OwnPiece(a)
                           /\ a.from \in Nat /\ 1 <= a.from /\ a.from <= seq
                           /\ art[a] \in Nat /\ art[a] <= seq

EdgeTyped(e) ==
  /\ DOMAIN e = EdgeFields /\ e.source \in {"linker", "graphify"}
  /\ e.from \in DOMAIN art /\ e.to \in DOMAIN art
  /\ e.since \in Nat /\ 1 <= e.since /\ e.since <= seq
  /\ e.inv \in Nat /\ e.inv <= seq

EdgesTyped == \A e \in edges : EdgeTyped(e)

Typed == ProgressTyped /\ ItemsTyped /\ ArtTyped /\ EdgesTyped /\ TodoIsFresh

--------------------------------------------------------------------------------
(* The helpers *)

LEMMA PiecesOfSources ==
    ASSUME NEW s \in Sources, NEW c \in ContentsOf[s], NEW p \in c
    PROVE  p \in Pieces /\ p \in UNION ContentsOf[s]
  BY DEF Pieces

LEMMA NewIdsAreFresh ==
    ASSUME Typed, seq \in Nat \ {0}, NEW s \in Sources, NEW a \in NewIds(s)
    PROVE  /\ a \in Rows /\ a.src = s /\ a.from = seq /\ a.piece \in world[s]
           /\ OwnPiece(a)
           /\ pc = "sources" /\ s \in todo => a \notin DOMAIN art
<1>1. PICK p \in world[s] : a = [src |-> s, piece |-> p, from |-> seq]
  BY DEF NewIds
<1>2. world[s] \in ContentsOf[s]
  BY <1>1 DEF Typed, ProgressTyped
<1>3. p \in Pieces /\ p \in UNION ContentsOf[s]
  BY <1>1, <1>2, PiecesOfSources
<1> QED
  BY <1>1, <1>3 DEF Rows, Typed, TodoIsFresh, OwnPiece

LEMMA NewIdsPieces ==
    ASSUME NEW s
    PROVE  /\ {a.piece : a \in NewIds(s)} = world[s]
           /\ \A a \in NewIds(s) : a.src = s /\ a.from = seq
<1>1. \A p \in world[s] : [src |-> s, piece |-> p, from |-> seq] \in NewIds(s)
                         /\ [src |-> s, piece |-> p, from |-> seq].piece = p
  BY DEF NewIds
<1>2. \A a \in NewIds(s) : a.piece \in world[s] /\ a.src = s /\ a.from = seq
  BY DEF NewIds
<1>3. world[s] \subseteq {a.piece : a \in NewIds(s)}
  BY <1>1
<1> QED
  BY <1>2, <1>3

\* Rows inserted live: the old ones stay as they are.
LEMMA Inserted ==
    ASSUME ArtTyped, NEW A, A \cap DOMAIN art = {}, art' = WithNew(A)
    PROVE  /\ DOMAIN art' = DOMAIN art \cup A /\ art' = [a \in DOMAIN art' |-> art'[a]]
           /\ \A a \in A : art'[a] = Null
           /\ \A a \in DOMAIN art : art'[a] = art[a]
  BY DEF WithNew, ArtTyped, ArtIsMap

LEMMA ClosedRows ==
    ASSUME ArtTyped, NEW X, art' = Closed(art, X)
    PROVE  /\ DOMAIN art' = DOMAIN art /\ art' = [a \in DOMAIN art' |-> art'[a]]
           /\ \A a \in DOMAIN art : art'[a] = IF a \in X /\ art[a] = Null THEN seq ELSE art[a]
  BY DEF Closed, ArtTyped, ArtIsMap

\* Where a live edge goes when its endpoints were renamed.
Follow(r, a) ==
  LET pairs == {r[p] : p \in Moved}
  IN  IF \E x \in pairs : x[1] = a THEN (CHOOSE x \in pairs : x[1] = a)[2] ELSE a

LEMMA RenamingFacts ==
    ASSUME NEW r \in Renamings, NEW p \in Moved
    PROVE  r[p] \in OldOf(p) \X NewOf(p)
  BY DEF Renamings

LEMMA FollowFacts ==
    ASSUME NEW r \in Renamings, NEW a
    PROVE  /\ a \in RenamedIds(r) => \E p \in Moved : Follow(r, a) \in NewOf(p)
           /\ a \notin RenamedIds(r) => Follow(r, a) = a
<1> DEFINE pairs == {r[p] : p \in Moved}
<1>1. a \in RenamedIds(r) <=> \E x \in pairs : x[1] = a
  BY DEF RenamedIds
<1>2. CASE a \in RenamedIds(r)
  <2>1. PICK x \in pairs : x = CHOOSE y \in pairs : y[1] = a
    BY <1>1, <1>2
  <2>2. Follow(r, a) = x[2]
    BY <1>1, <1>2, <2>1 DEF Follow
  <2>3. PICK p \in Moved : x = r[p]
    BY <2>1
  <2> QED
    BY <1>2, <2>2, <2>3, RenamingFacts
<1>3. CASE a \notin RenamedIds(r)
  BY <1>1, <1>3 DEF Follow
<1> QED
  BY <1>2, <1>3

\* What the rename pass makes of an edge: nothing of a closed one; a live one that
\* would become a self-loop is closed; the others follow the renamed rows.
MovedTo(e, f, r) ==
  \/ e.inv # Null /\ f = e
  \/ /\ e.inv = Null /\ f = [e EXCEPT !.inv = seq] /\ DOMAIN f = EdgeFields /\ f.inv = seq
     /\ f.from = e.from /\ f.to = e.to /\ f.source = e.source /\ f.since = e.since
     /\ \E p \in Moved : r[p] \in {<<e.from, e.to>>, <<e.to, e.from>>}
  \/ /\ e.inv = Null /\ f = [e EXCEPT !.from = Follow(r, e.from), !.to = Follow(r, e.to)]
     /\ DOMAIN f = EdgeFields /\ f.inv = Null
     /\ f.from = Follow(r, e.from) /\ f.to = Follow(r, e.to)
     /\ f.source = e.source /\ f.since = e.since

LEMMA ReattachedEdges ==
    ASSUME NEW r \in Renamings, NEW E, NEW f \in Reattached(E, r),
           \A e \in E : DOMAIN e = EdgeFields
    PROVE  \E e \in E : MovedTo(e, f, r)
<1> DEFINE pairs == {r[p] : p \in Moved}
<1>1. PICK e \in E : f = IF e.inv # Null THEN e
           ELSE IF <<e.from, e.to>> \in pairs \/ <<e.to, e.from>> \in pairs
             THEN [e EXCEPT !.inv = seq]
             ELSE [e EXCEPT !.from = Follow(r, e.from), !.to = Follow(r, e.to)]
  BY Zenon DEF Reattached, Followed, Follow
<1>2. DOMAIN e = EdgeFields
  OBVIOUS
<1>3. ASSUME e.inv = Null, <<e.from, e.to>> \in pairs \/ <<e.to, e.from>> \in pairs
      PROVE  MovedTo(e, f, r)
  <2>1. f = [e EXCEPT !.inv = seq] /\ \E p \in Moved : r[p] \in {<<e.from, e.to>>, <<e.to, e.from>>}
    BY <1>1, <1>3
  <2> QED
    BY <1>2, <1>3, <2>1 DEF MovedTo, EdgeFields
<1> HIDE DEF pairs
<1>4. MovedTo(e, f, r)
  BY <1>1, <1>2, <1>3 DEF EdgeFields, MovedTo
<1> QED
  BY <1>4

--------------------------------------------------------------------------------
(* Every step keeps the types *)

LEMMA TypedInit ==
    ASSUME Init
    PROVE  Typed
<1>1. ProgressTyped
  BY DEF Init, ProgressTyped
<1>2. ItemsTyped
  BY DEF Init, ItemsTyped
<1>3. ArtTyped
  BY DEF Init, ArtTyped, ArtIsMap
<1>4. EdgesTyped /\ TodoIsFresh
  BY DEF Init, EdgesTyped, TodoIsFresh
<1> QED
  BY <1>1, <1>2, <1>3, <1>4 DEF Typed

\* An insertion of the rows of some sources whose turn it was.
LEMMA InsertTyped ==
    ASSUME Typed, pc = "sources", NEW S \in SUBSET todo,
           art' = WithNew(UNION {NewIds(s) : s \in S}), UNCHANGED seq
    PROVE  /\ ArtTyped'
           /\ (UNION {NewIds(s) : s \in S}) \cap DOMAIN art = {}
           /\ DOMAIN art' = DOMAIN art \cup (UNION {NewIds(s) : s \in S})
           /\ \A a \in UNION {NewIds(s) : s \in S} : a.src \in S /\ a.from = seq /\ art'[a] = Null
           /\ \A a \in DOMAIN art : art'[a] = art[a]
<1> DEFINE A == UNION {NewIds(s) : s \in S}
<1>1. S \subseteq Sources /\ seq \in Nat \ {0} /\ ArtTyped
  BY DEF Typed, ProgressTyped
<1>2. \A a \in A : /\ a \in Rows /\ a.src \in S /\ a.from = seq
                   /\ OwnPiece(a) /\ a \notin DOMAIN art
  <2> SUFFICES ASSUME NEW s \in S, NEW a \in NewIds(s)
               PROVE  /\ a \in Rows /\ a.src \in S /\ a.from = seq
                      /\ OwnPiece(a) /\ a \notin DOMAIN art
    OBVIOUS
  <2>1. s \in Sources /\ s \in todo
    BY <1>1
  <2> QED
    BY <1>1, <2>1, NewIdsAreFresh
<1> HIDE DEF A
<1>3. /\ DOMAIN art' = DOMAIN art \cup A /\ art' = [a \in DOMAIN art' |-> art'[a]]
      /\ \A a \in A : art'[a] = Null
      /\ \A a \in DOMAIN art : art'[a] = art[a]
  <2>1. A \cap DOMAIN art = {} /\ art' = WithNew(A)
    BY <1>2 DEF A
  <2> QED
    BY <1>1, <2>1, Inserted
<1>4. ArtIsMap'
  BY <1>3 DEF ArtIsMap
<1>5. \A a \in DOMAIN art' : /\ a \in Rows /\ OwnPiece(a)
                             /\ a.from \in Nat /\ 1 <= a.from /\ a.from <= seq'
                             /\ art'[a] \in Nat /\ art'[a] <= seq'
  <2> TAKE a \in DOMAIN art'
  <2>1. CASE a \in A
    BY <1>1, <1>2, <1>3, <2>1 DEF Null
  <2>2. CASE a \in DOMAIN art
    BY <1>1, <1>3, <2>2 DEF ArtTyped
  <2> QED
    BY <1>3, <2>1, <2>2
<1>6. ArtTyped'
  BY <1>4, <1>5 DEF ArtTyped
<1>7. A \cap DOMAIN art = {}
  BY <1>2
<1> QED
  BY <1>2, <1>3, <1>6, <1>7 DEF A

LEMMA StartBuildTyped ==
    ASSUME Typed, StartBuild
    PROVE  Typed'
<1>1. \A s \in Sources : world'[s] \in ContentsOf[s] \cup {{}}
  BY DEF StartBuild, MayBecome, Typed, ProgressTyped
<1>2. ProgressTyped'
  BY <1>1 DEF StartBuild, Typed, ProgressTyped
<1>3. seq \in Nat /\ seq' = seq + 1 /\ UNCHANGED registry
  BY DEF StartBuild, Typed, ProgressTyped
<1>r. item' = item /\ art' = art /\ edges' = edges
  BY <1>3 DEF registry
<1>4. ItemsTyped'
  BY <1>r DEF Typed, ItemsTyped
<1>5. ArtTyped'
  <2>1. ArtIsMap'
    BY <1>r DEF Typed, ArtTyped, ArtIsMap
  <2>2. \A a \in DOMAIN art : a.from \in Nat /\ a.from <= seq + 1
                           /\ art[a] \in Nat /\ art[a] <= seq + 1
    BY <1>3 DEF Typed, ArtTyped
  <2> QED
    BY <1>3, <1>r, <2>1, <2>2 DEF Typed, ArtTyped
<1>6. EdgesTyped'
  BY <1>3, <1>r DEF Typed, EdgesTyped, EdgeTyped
<1>7. TodoIsFresh'
  <2>1. \A a \in DOMAIN art : a.from < seq + 1
    BY <1>3 DEF Typed, ArtTyped
  <2> QED
    BY <1>3, <1>r, <2>1 DEF TodoIsFresh
<1> QED
  BY <1>2, <1>4, <1>5, <1>6, <1>7 DEF Typed

\* A turn that writes nothing to the registry but stored hashes.
LEMMA QuietTyped ==
    ASSUME Typed, UNCHANGED <<world, art, edges, seq, active>>, ItemsTyped',
           pc' \in {"idle", pc, "finalize"}, pc = "idle" => pc' = "idle",
           todo' \subseteq todo, seen' \subseteq Sources, changed' \subseteq Sources
    PROVE  Typed'
<1>1. ProgressTyped'
  BY DEF Typed, ProgressTyped
<1>2. ArtTyped'
  BY DEF Typed, ArtTyped, ArtIsMap
<1>3. EdgesTyped'
  BY DEF Typed, EdgesTyped, EdgeTyped
<1>4. TodoIsFresh'
  BY DEF Typed, TodoIsFresh
<1> QED
  BY <1>1, <1>2, <1>3, <1>4 DEF Typed

LEMMA UpsertedTyped ==
    ASSUME ItemsTyped, NEW S, item' = Upserted(S)
    PROVE  ItemsTyped'
  BY DEF ItemsTyped, Upserted

LEMMA SkipDocTyped ==
    ASSUME Typed, NEW s \in Sources, SkipDoc(s)
    PROVE  Typed'
<1>1. seen' \subseteq Sources /\ changed' \subseteq Sources
  BY DEF SkipDoc, Typed, ProgressTyped
<1>2. ItemsTyped'
  BY DEF SkipDoc, registry, Typed, ItemsTyped
<1> QED
  BY <1>1, <1>2, QuietTyped DEF SkipDoc, Turn, registry

LEMMA FailDocTyped ==
    ASSUME Typed, NEW s \in Sources, FailDoc(s)
    PROVE  Typed'
<1>1. seen' \subseteq Sources /\ changed' \subseteq Sources
  BY DEF FailDoc, Typed, ProgressTyped
<1>2. ItemsTyped'
  BY DEF FailDoc, registry, Typed, ItemsTyped
<1> QED
  BY <1>1, <1>2, QuietTyped DEF FailDoc, Turn, registry

LEMMA ExtractDocTyped ==
    ASSUME Typed, NEW s \in Sources, ExtractDoc(s)
    PROVE  Typed'
<1>0. pc = "sources" /\ s \in todo /\ todo' = todo \ {s} /\ UNCHANGED <<world, edges, seq, active, pc>>
  BY DEF ExtractDoc, Turn
<1>1. seen' \subseteq Sources /\ changed' \subseteq Sources
  BY DEF ExtractDoc, Typed, ProgressTyped
<1>2. ItemsTyped'
  BY UpsertedTyped DEF ExtractDoc, Typed
<1>3. CASE UNCHANGED art
  BY <1>0, <1>1, <1>2, <1>3, QuietTyped
<1>4. CASE art' = WithNew(NewIds(s))
  <2>1. NewIds(s) = UNION {NewIds(x) : x \in {s}} /\ {s} \in SUBSET todo
    BY <1>0
  <2>2. /\ ArtTyped' /\ DOMAIN art' = DOMAIN art \cup NewIds(s)
        /\ \A a \in NewIds(s) : a.src \in {s}
    BY <1>0, <1>4, <2>1, InsertTyped
  <2>3. ProgressTyped'
    BY <1>0, <1>1 DEF Typed, ProgressTyped
  <2>4. EdgesTyped'
    BY <1>0, <2>2 DEF Typed, EdgesTyped, EdgeTyped
  <2>5. TodoIsFresh'
    BY <1>0, <2>2 DEF Typed, TodoIsFresh
  <2> QED
    BY <1>2, <2>2, <2>3, <2>4, <2>5 DEF Typed
<1> QED
  BY <1>3, <1>4 DEF ExtractDoc

LEMMA KeepTreeTyped ==
    ASSUME Typed, KeepTree
    PROVE  Typed'
<1>1. seen' \subseteq Sources /\ changed' \subseteq Sources
  BY DEF KeepTree, Units, Sources, Typed, ProgressTyped
<1>2. ItemsTyped'
  BY DEF KeepTree, registry, Typed, ItemsTyped
<1> QED
  BY <1>1, <1>2, QuietTyped DEF KeepTree, registry

LEMMA CodeEdgesTyped ==
    ASSUME NEW A, NEW e \in CodeEdges(A)
    PROVE  /\ DOMAIN e = EdgeFields /\ e.source = "graphify" /\ e.from \in A /\ e.to \in A
           /\ e.since = seq /\ e.inv = Null
<1>1. PICK x \in A \X A : e = [from |-> x[1], to |-> x[2], source |-> "graphify",
                               since |-> seq, inv |-> Null]
  BY DEF CodeEdges
<1> QED
  BY <1>1 DEF EdgeFields

LEMMA GraphifyTreeTyped ==
    ASSUME Typed, GraphifyTree
    PROVE  Typed'
<1>1. PICK broken \in Broken :
         LET built == {s \in Units : RepoOf[s] \notin broken}
             new == UNION {NewIds(s) : s \in built}
         IN  /\ item' = Upserted({s \in built : ~IsUnchanged(s)})
             /\ art' = WithNew(new)
             /\ edges' = edges \cup CodeEdges(new)
             /\ seen' = seen \cup built /\ changed' = changed \cup built
  BY DEF GraphifyTree
<1> DEFINE built == {s \in Units : RepoOf[s] \notin broken}
           new == UNION {NewIds(s) : s \in built}
<1>2. /\ item' = Upserted({s \in built : ~IsUnchanged(s)}) /\ art' = WithNew(new)
      /\ edges' = edges \cup CodeEdges(new)
      /\ seen' = seen \cup built /\ changed' = changed \cup built
      /\ pc = "sources" /\ todo = Code /\ todo' = {} /\ pc' = "finalize"
      /\ UNCHANGED <<world, cache, seq, active>>
  BY <1>1 DEF GraphifyTree
<1>3. built \in SUBSET todo /\ built \subseteq Sources
  BY <1>2 DEF Units, Sources
<1> HIDE DEF built
<1>4. ArtTyped' /\ DOMAIN art' = DOMAIN art \cup new
  BY <1>2, <1>3, InsertTyped
<1> HIDE DEF new
<1>5. ProgressTyped'
  BY <1>2, <1>3 DEF Typed, ProgressTyped
<1>6. ItemsTyped'
  BY <1>2, UpsertedTyped DEF Typed
<1>7. EdgesTyped'
  <2> SUFFICES ASSUME NEW e \in edges'
               PROVE  EdgeTyped(e)'
    BY DEF EdgesTyped
  <2>0. seq \in Nat \ {0}
    BY <1>2 DEF Typed, ProgressTyped
  <2>1. CASE e \in edges
    BY <1>2, <1>4, <2>1 DEF Typed, EdgesTyped, EdgeTyped
  <2>2. CASE e \in CodeEdges(new)
    BY <1>2, <1>4, <2>0, <2>2, CodeEdgesTyped DEF Null, EdgeTyped
  <2> QED
    BY <1>2, <2>1, <2>2
<1>8. TodoIsFresh'
  BY <1>2 DEF TodoIsFresh
<1> QED
  BY <1>4, <1>5, <1>6, <1>7, <1>8 DEF Typed

--------------------------------------------------------------------------------
(* The finalize *)

\* An edge after a pass that closed what touches X.
ClosedTo(e, f, X) ==
  /\ f = [e EXCEPT !.inv = f.inv] /\ DOMAIN f = EdgeFields
  /\ f.from = e.from /\ f.to = e.to /\ f.source = e.source /\ f.since = e.since
  /\ f.inv = IF e.inv = Null /\ {e.from, e.to} \cap X # {} THEN seq ELSE e.inv

LEMMA ClosedEdgeFacts ==
    ASSUME NEW E, \A e \in E : DOMAIN e = EdgeFields, NEW X, NEW f \in ClosedEdges(E, X)
    PROVE  \E e \in E : ClosedTo(e, f, X)
<1>1. PICK e \in E : f = [e EXCEPT !.inv = IF @ = Null /\ {e.from, e.to} \cap X # {} THEN seq
                                           ELSE @]
  BY DEF ClosedEdges
<1>2. DOMAIN e = EdgeFields
  OBVIOUS
<1> QED
  BY <1>1, <1>2 DEF EdgeFields, ClosedTo

LinkedPairs == {<<e.from, e.to>> : e \in Linker(edges)}

\* An edge after the linker: not the linker's, known before, or new.
LEMMA LinkedFacts ==
    ASSUME EdgesTyped, NEW f \in Linked
    PROVE  \/ f \in edges /\ f.source = "graphify"
           \/ /\ \E e \in Linker(edges) :
                   f = [e EXCEPT !.inv = IF <<e.from, e.to>> \in Links THEN Null
                                         ELSE IF e.inv = Null THEN seq ELSE e.inv]
              /\ \E e \in edges : /\ f.from = e.from /\ f.to = e.to /\ f.since = e.since
                                  /\ e.source = "linker" /\ f.source = "linker"
                                  /\ DOMAIN f = EdgeFields /\ f.inv \in {Null, seq, e.inv}
           \/ /\ \E x \in Links \ LinkedPairs :
                   f = [from |-> x[1], to |-> x[2], source |-> "linker", since |-> seq,
                        inv |-> Null]
              /\ f.from \in DOMAIN art /\ f.to \in DOMAIN art /\ f.since = seq
              /\ f.inv = Null /\ f.source = "linker" /\ DOMAIN f = EdgeFields
<1>1. CASE f \in edges \ Linker(edges)
  BY <1>1 DEF Linker, EdgesTyped, EdgeTyped
<1>2. CASE \E e \in Linker(edges) :
             f = [e EXCEPT !.inv = IF <<e.from, e.to>> \in Links THEN Null
                                   ELSE IF e.inv = Null THEN seq ELSE e.inv]
  <2>1. PICK e \in Linker(edges) :
             f = [e EXCEPT !.inv = IF <<e.from, e.to>> \in Links THEN Null
                                   ELSE IF e.inv = Null THEN seq ELSE e.inv]
    BY <1>2
  <2>2. e \in edges /\ e.source = "linker" /\ DOMAIN e = EdgeFields
    BY DEF Linker, EdgesTyped, EdgeTyped
  <2>3. /\ f.from = e.from /\ f.to = e.to /\ f.since = e.since /\ f.source = "linker"
        /\ DOMAIN f = EdgeFields /\ f.inv \in {Null, seq, e.inv}
    BY <2>1, <2>2 DEF EdgeFields
  <2> QED
    BY <1>2, <2>2, <2>3
<1>3. CASE \E x \in Links \ LinkedPairs :
             f = [from |-> x[1], to |-> x[2], source |-> "linker", since |-> seq, inv |-> Null]
  <2>1. PICK x \in Links \ LinkedPairs :
             f = [from |-> x[1], to |-> x[2], source |-> "linker", since |-> seq, inv |-> Null]
    BY <1>3
  <2>2. x[1] \in DOMAIN art /\ x[2] \in DOMAIN art
    BY DEF Links, Linkable
  <2>3. /\ f.from \in DOMAIN art /\ f.to \in DOMAIN art /\ f.since = seq
        /\ f.inv = Null /\ f.source = "linker" /\ DOMAIN f = EdgeFields
    BY <2>1, <2>2 DEF EdgeFields
  <2> QED
    BY <1>3, <2>3
<1>4. \/ f \in edges \ Linker(edges)
      \/ \E e \in Linker(edges) :
             f = [e EXCEPT !.inv = IF <<e.from, e.to>> \in Links THEN Null
                                   ELSE IF e.inv = Null THEN seq ELSE e.inv]
      \/ \E x \in Links \ LinkedPairs :
             f = [from |-> x[1], to |-> x[2], source |-> "linker", since |-> seq, inv |-> Null]
  BY DEF Linked, LinkedPairs
<1> QED
  BY <1>1, <1>2, <1>3, <1>4

LEMMA LinkedTyped ==
    ASSUME EdgesTyped, seq \in Nat \ {0}
    PROVE  \A f \in Linked : EdgeTyped(f)
  BY LinkedFacts DEF EdgesTyped, EdgeTyped, Null, Linker

LEMMA ReattachedTyped ==
    ASSUME seq \in Nat \ {0}, NEW r \in Renamings, NEW E, \A e \in E : EdgeTyped(e)
    PROVE  \A f \in Reattached(E, r) : EdgeTyped(f)
<1>1. ASSUME NEW a \in DOMAIN art
      PROVE  Follow(r, a) \in DOMAIN art
  BY FollowFacts DEF NewOf
<1>2. \A e \in E : DOMAIN e = EdgeFields
  BY DEF EdgeTyped
<1> SUFFICES ASSUME NEW f \in Reattached(E, r)
             PROVE  EdgeTyped(f)
  OBVIOUS
<1>3. PICK e \in E : MovedTo(e, f, r)
  BY <1>2, ReattachedEdges
<1> QED
  BY <1>1, <1>3 DEF EdgeTyped, Null, MovedTo

LEMMA ClosedEdgesTyped ==
    ASSUME seq \in Nat \ {0}, NEW E, \A e \in E : EdgeTyped(e), NEW X
    PROVE  \A f \in ClosedEdges(E, X) : EdgeTyped(f)
<1>2. \A e \in E : DOMAIN e = EdgeFields
  BY DEF EdgeTyped
<1> SUFFICES ASSUME NEW f \in ClosedEdges(E, X)
             PROVE  EdgeTyped(f)
  OBVIOUS
<1>3. PICK e \in E : ClosedTo(e, f, X)
  BY <1>2, ClosedEdgeFacts
<1> QED
  BY <1>3 DEF EdgeTyped, ClosedTo

\* No two linker rows join the same artifacts.
UniqueLinks(E) == \A e, f \in Linker(E) : e.from = f.from /\ e.to = f.to => e = f

\* The rows that leave the KB in this build.
Gone(r) == RenamedIds(r) \cup SweptIds(r) \cup Superseded

\* What a finalize with the renames r does.
FinalizeWith(r) ==
  /\ LinksStayApart(Linked, r)
  /\ art' = Closed(art, Gone(r))
  /\ edges' = ClosedEdges(ClosedEdges(Reattached(Linked, r), SweptIds(r)), Superseded)
  /\ item' = [s \in Sources |-> IF s \in Vanished THEN [item[s] EXCEPT !.deleted = TRUE]
                                ELSE item[s]]
  /\ cache' = [c \in Contents |-> [cache[c] EXCEPT !.ids = @ \ SweptIds(r)]]

LEMMA FinalizeFacts ==
    ASSUME Finalize
    PROVE  /\ \E r \in Renamings : FinalizeWith(r)
           /\ pc = "finalize" /\ pc' = "completed"
           /\ world' = world /\ seq' = seq /\ active' = active
           /\ todo' = todo /\ seen' = seen /\ changed' = changed
  BY DEF Finalize, FinalizeWith, Gone, progress

LEMMA FinalizeTyped ==
    ASSUME Typed, Finalize
    PROVE  Typed'
<1>1. PICK r \in Renamings : FinalizeWith(r)
  BY FinalizeFacts
<1>2. /\ pc = "finalize" /\ pc' = "completed"
      /\ world' = world /\ seq' = seq /\ active' = active
      /\ todo' = todo /\ seen' = seen /\ changed' = changed
  BY FinalizeFacts
<1>3. ProgressTyped' /\ seq \in Nat \ {0}
  BY <1>2 DEF Typed, ProgressTyped
<1>4. ItemsTyped'
  BY <1>1 DEF FinalizeWith, Typed, ItemsTyped
<1>5. /\ DOMAIN art' = DOMAIN art /\ art' = [a \in DOMAIN art' |-> art'[a]]
      /\ \A a \in DOMAIN art : art'[a] \in {art[a], seq}
  BY <1>1, ClosedRows DEF FinalizeWith, Typed
<1>6. ArtTyped'
  <2>1. ArtIsMap'
    BY <1>5 DEF ArtIsMap
  <2>2. \A a \in DOMAIN art : art'[a] \in Nat /\ art'[a] <= seq
    BY <1>3, <1>5 DEF Typed, ArtTyped
  <2> QED
    BY <1>2, <1>5, <2>1, <2>2 DEF Typed, ArtTyped
<1>7. \A e \in Reattached(Linked, r) : EdgeTyped(e)
  BY <1>3, LinkedTyped, ReattachedTyped DEF Typed
<1>8. \A e \in ClosedEdges(Reattached(Linked, r), SweptIds(r)) : EdgeTyped(e)
  BY <1>3, <1>7, ClosedEdgesTyped
<1>9. \A e \in ClosedEdges(ClosedEdges(Reattached(Linked, r), SweptIds(r)), Superseded) :
         EdgeTyped(e)
  BY <1>3, <1>8, ClosedEdgesTyped
<1>10. EdgesTyped'
  <2>1. \A e : EdgeTyped(e) => EdgeTyped(e)'
    BY <1>2, <1>5 DEF EdgeTyped
  <2>2. \A e \in edges' : EdgeTyped(e)
    BY <1>1, <1>9 DEF FinalizeWith
  <2> QED
    BY <2>1, <2>2 DEF EdgesTyped
<1>11. TodoIsFresh'
  BY <1>2 DEF TodoIsFresh
<1> QED
  BY <1>3, <1>4, <1>6, <1>10, <1>11 DEF Typed

\* The ends of a build, good or bad, write nothing to the registry.
LEMMA EndTyped ==
    ASSUME Typed, FinalizeRaises \/ Interrupt \/ Publish \/ Reject
    PROVE  Typed'
<1>1. /\ BuildEnds /\ pc # "idle" /\ item' = item /\ art' = art /\ edges' = edges
      /\ seq' = seq /\ world' = world /\ active' \in {active, seq}
  BY DEF FinalizeRaises, Interrupt, Publish, Reject, registry
<1>2. ProgressTyped'
  BY <1>1 DEF BuildEnds, Typed, ProgressTyped
<1>3. ItemsTyped'
  BY <1>1 DEF Typed, ItemsTyped
<1>4. ArtTyped'
  BY <1>1 DEF Typed, ArtTyped, ArtIsMap
<1>5. EdgesTyped'
  BY <1>1 DEF Typed, EdgesTyped, EdgeTyped
<1>6. TodoIsFresh'
  BY <1>1 DEF TodoIsFresh, BuildEnds
<1> QED
  BY <1>2, <1>3, <1>4, <1>5, <1>6 DEF Typed

LEMMA TypedStep ==
    ASSUME Typed, [Next]_vars
    PROVE  Typed'
<1>1. ASSUME NEW s \in Sources, SkipDoc(s) \/ ExtractDoc(s) \/ FailDoc(s)
      PROVE  Typed'
  BY <1>1, SkipDocTyped, ExtractDocTyped, FailDocTyped
<1>2. CASE FinalizeRaises \/ Interrupt \/ Publish \/ Reject
  BY <1>2, EndTyped
<1>3. CASE UNCHANGED vars
  <2>1. ItemsTyped'
    BY <1>3 DEF vars, registry, Typed, ItemsTyped
  <2> QED
    BY <1>3, <2>1, QuietTyped DEF vars, registry, progress, Typed, ProgressTyped
<1> QED
  BY <1>1, <1>2, <1>3, StartBuildTyped, GraphifyTreeTyped, KeepTreeTyped, FinalizeTyped DEF Next

--------------------------------------------------------------------------------
(* What readers of the served version see *)

\* The three things a step may do to the rows.
LEMMA RowsStep ==
    ASSUME Typed, [Next]_vars
    PROVE  \/ UNCHANGED <<art, seq>> \/ (UNCHANGED art /\ UNCHANGED active)
           \/ /\ active < seq /\ UNCHANGED <<seq, active>>
              /\ \E S \in SUBSET todo : /\ pc = "sources"
                                        /\ art' = WithNew(UNION {NewIds(s) : s \in S})
           \/ /\ active < seq /\ UNCHANGED <<seq, active>>
              /\ \E X : art' = Closed(art, X)
<1>0. pc # "idle" => active < seq
  BY DEF Typed, ProgressTyped
<1>1. ASSUME NEW s \in Sources, SkipDoc(s) \/ FailDoc(s)
      PROVE  UNCHANGED <<art, seq>>
  BY <1>1 DEF SkipDoc, FailDoc, registry
<1>2. ASSUME NEW s \in Sources, ExtractDoc(s)
      PROVE  \/ UNCHANGED <<art, seq>>
             \/ /\ active < seq /\ UNCHANGED <<seq, active>> /\ pc = "sources"
                /\ {s} \in SUBSET todo /\ art' = WithNew(UNION {NewIds(x) : x \in {s}})
  <2>1. NewIds(s) = UNION {NewIds(x) : x \in {s}}
    OBVIOUS
  <2> QED
    BY <1>0, <1>2, <2>1 DEF ExtractDoc, Turn
<1>3. ASSUME GraphifyTree
      PROVE  /\ active < seq /\ UNCHANGED <<seq, active>>
             /\ \E S \in SUBSET todo : /\ pc = "sources"
                                       /\ art' = WithNew(UNION {NewIds(s) : s \in S})
  <2>1. PICK broken \in Broken :
           art' = WithNew(UNION {NewIds(s) : s \in {x \in Units : RepoOf[x] \notin broken}})
    BY <1>3 DEF GraphifyTree
  <2>2. {x \in Units : RepoOf[x] \notin broken} \in SUBSET todo
    BY <1>3 DEF GraphifyTree, Units
  <2> QED
    BY <1>0, <1>3, <2>1, <2>2 DEF GraphifyTree
<1>4. ASSUME Finalize
      PROVE  active < seq /\ UNCHANGED <<seq, active>> /\ \E X : art' = Closed(art, X)
  BY <1>0, <1>4, FinalizeFacts DEF FinalizeWith
<1>5. CASE StartBuild
  BY <1>5 DEF StartBuild, registry
<1>6. CASE KeepTree \/ FinalizeRaises \/ Interrupt \/ Publish \/ Reject \/ UNCHANGED vars
  BY <1>6 DEF KeepTree, FinalizeRaises, Interrupt, Publish, Reject, vars, registry
<1> QED
  BY <1>1, <1>2, <1>3, <1>4, <1>5, <1>6 DEF Next

\* Whatever the sources do and wherever builds fail: the rows of the served version
\* stay the same rows, no row is ever deleted, and a row is closed once, by the build
\* that runs.
THEOREM ServedRowsSafety == Spec => ServedRowsAreFrozen
<1>1. Init => Typed
  BY TypedInit
<1>2. Typed /\ [Next]_vars => Typed'
  BY TypedStep
<1>3. Typed /\ [Next]_vars
        => /\ active' = active => Members(active)' = Members(active)
           /\ \A a \in DOMAIN art : /\ a \in DOMAIN art'
                                    /\ art[a] # Null => art'[a] = art[a]
                                    /\ art'[a] \in {art[a], seq}
  <2> SUFFICES ASSUME Typed, [Next]_vars
               PROVE  /\ active' = active => Members(active)' = Members(active)
                      /\ \A a \in DOMAIN art : /\ a \in DOMAIN art'
                                               /\ art[a] # Null => art'[a] = art[a]
                                               /\ art'[a] \in {art[a], seq}
    OBVIOUS
  <2>0. seq \in Nat /\ active \in Nat
    BY DEF Typed, ProgressTyped
  <2>1. CASE UNCHANGED art
    BY <2>1 DEF Members
  <2>2. ASSUME active < seq, UNCHANGED <<seq, active>>, pc = "sources", NEW S \in SUBSET todo,
               art' = WithNew(UNION {NewIds(s) : s \in S})
        PROVE  /\ Members(active)' = Members(active)
               /\ \A a \in DOMAIN art : a \in DOMAIN art' /\ art'[a] = art[a]
    <3> DEFINE A == UNION {NewIds(s) : s \in S}
    <3>1. /\ DOMAIN art' = DOMAIN art \cup A /\ \A a \in A : a.from = seq
          /\ \A a \in DOMAIN art : art'[a] = art[a]
      BY <2>2, InsertTyped
    <3> HIDE DEF A
    <3>2. \A a \in A : ~(a.from <= active)
      BY <2>0, <2>2, <3>1
    <3>3. Members(active)' = Members(active)
      BY <2>2, <3>1, <3>2 DEF Members
    <3> QED
      BY <3>1, <3>3
  <2>3. ASSUME active < seq, UNCHANGED <<seq, active>>, NEW X, art' = Closed(art, X)
        PROVE  /\ Members(active)' = Members(active)
               /\ \A a \in DOMAIN art : /\ a \in DOMAIN art'
                                        /\ art[a] # Null => art'[a] = art[a]
                                        /\ art'[a] \in {art[a], seq}
    <3>1. /\ DOMAIN art' = DOMAIN art
          /\ \A a \in DOMAIN art : art'[a] = IF a \in X /\ art[a] = Null THEN seq ELSE art[a]
      BY <2>3, ClosedRows DEF Typed
    <3>2. \A a \in DOMAIN art : (art'[a] = Null \/ art'[a] > active)
                                  <=> (art[a] = Null \/ art[a] > active)
      BY <2>0, <2>3, <3>1 DEF Null
    <3>3. Members(active)' = Members(active)
      BY <2>3, <3>1, <3>2 DEF Members
    <3> QED
      BY <3>1, <3>3
  <2> QED
    BY <2>1, <2>2, <2>3, RowsStep
<1> QED
  BY <1>1, <1>2, <1>3, PTL DEF Spec, ServedRowsAreFrozen

--------------------------------------------------------------------------------
(* The generation cache *)

CacheTyped ==
  /\ cache = [c \in Contents |-> cache[c]]
  /\ \A c \in Contents : DOMAIN cache[c] = {"cached", "ids"}

CacheSound == CacheTyped /\ CacheMapsWhatWasExtracted

\* What a step does to the cache: nothing, one new entry for the content just
\* extracted, or fewer ids.
CacheStepIs(s) ==
  /\ pc = "sources" /\ s \in todo /\ world[s] # {} /\ ~IsUnchanged(s)
  /\ ~cache[world[s]].cached /\ item' = Upserted({s})
  /\ cache' = [cache EXCEPT ![world[s]] = [cached |-> TRUE, ids |-> NewIds(s)]]

LEMMA CacheStep ==
    ASSUME [Next]_vars
    PROVE  \/ UNCHANGED cache
           \/ \E s \in Docs : CacheStepIs(s)
           \/ \E X : cache' = [c \in Contents |-> [cache[c] EXCEPT !.ids = @ \ X]]
<1>1. ASSUME NEW s \in Sources, SkipDoc(s) \/ FailDoc(s)
      PROVE  UNCHANGED cache
  BY <1>1 DEF SkipDoc, FailDoc, registry
<1>2. ASSUME NEW s \in Sources, ExtractDoc(s)
      PROVE  UNCHANGED cache \/ \E x \in Docs : CacheStepIs(x)
  BY <1>2 DEF ExtractDoc, Turn, CacheStepIs
<1>3. ASSUME Finalize
      PROVE  \E X : cache' = [c \in Contents |-> [cache[c] EXCEPT !.ids = @ \ X]]
  BY <1>3, FinalizeFacts DEF FinalizeWith
<1>4. CASE StartBuild \/ GraphifyTree
  BY <1>4 DEF StartBuild, GraphifyTree, registry
<1>5. CASE KeepTree \/ FinalizeRaises \/ Interrupt \/ Publish \/ Reject \/ UNCHANGED vars
  BY <1>5 DEF KeepTree, FinalizeRaises, Interrupt, Publish, Reject, vars, registry
<1> QED
  BY <1>1, <1>2, <1>3, <1>4, <1>5 DEF Next

LEMMA CacheSoundStep ==
    ASSUME CacheSound, [Next]_vars
    PROVE  CacheSound'
<1>1. CASE UNCHANGED cache
  BY <1>1 DEF CacheSound, CacheTyped, CacheMapsWhatWasExtracted
<1>2. ASSUME NEW s \in Docs, CacheStepIs(s)
      PROVE  CacheSound'
  <2>1. \A c \in Contents : cache'[c] = IF c = world[s] THEN [cached |-> TRUE, ids |-> NewIds(s)]
                                        ELSE cache[c]
    BY <1>2 DEF CacheStepIs, CacheSound, CacheTyped
  <2>2. CacheTyped'
    BY <1>2, <2>1 DEF CacheStepIs, CacheSound, CacheTyped
  <2>3. ASSUME NEW c \in Contents
        PROVE  /\ {a.piece : a \in cache'[c].ids} \subseteq c
               /\ \A a, b \in cache'[c].ids : a.src = b.src /\ a.from = b.from
    <3>1. CASE c = world[s]
      BY <2>1, <3>1, NewIdsPieces
    <3>2. CASE c # world[s]
      BY <2>1, <3>2 DEF CacheSound, CacheMapsWhatWasExtracted
    <3> QED
      BY <3>1, <3>2
  <2> QED
    BY <2>2, <2>3 DEF CacheSound, CacheMapsWhatWasExtracted
<1>3. ASSUME NEW X, cache' = [c \in Contents |-> [cache[c] EXCEPT !.ids = @ \ X]]
      PROVE  CacheSound'
  <2>1. \A c \in Contents : /\ DOMAIN cache'[c] = {"cached", "ids"}
                            /\ cache'[c].ids = cache[c].ids \ X
    BY <1>3 DEF CacheSound, CacheTyped
  <2>2. CacheTyped'
    BY <1>3, <2>1 DEF CacheTyped
  <2>3. CacheMapsWhatWasExtracted'
    BY <2>1 DEF CacheSound, CacheMapsWhatWasExtracted
  <2> QED
    BY <2>2, <2>3 DEF CacheSound
<1> QED
  BY <1>1, <1>2, <1>3, CacheStep

\* Whatever fails, moves or returns, a cached content stands for pieces of that
\* content, extracted together from one source.
THEOREM CacheSafety == Spec => []CacheMapsWhatWasExtracted
<1>1. Init => CacheSound
  BY DEF Init, NoRow, CacheSound, CacheTyped, CacheMapsWhatWasExtracted
<1>2. CacheSound /\ [Next]_vars => CacheSound'
  BY CacheSoundStep
<1> QED
  BY <1>1, <1>2, PTL DEF Spec, CacheSound

--------------------------------------------------------------------------------
(* The endpoints of live edges *)

\* The linker has nothing to link.
NoLinks == \A e \in edges : e.source = "graphify"

LiveEnds == \A e \in edges : e.inv = Null => e.from \in Live /\ e.to \in Live

\* What a build wrote is live until it finalizes.
NewIsLive == pc \in {"sources", "finalize"} => \A a \in DOMAIN art : a.from = seq => art[a] = Null

EndsSound == NoLinks /\ LiveEnds /\ NewIsLive

LEMMA NothingLinked ==
    ASSUME Mentions = {}, NoLinks
    PROVE  Linked = edges
<1>1. Linker(edges) = {}
  BY DEF Linker, NoLinks
<1>2. Links = {}
  BY DEF Links
<1> QED
  BY <1>1, <1>2 DEF Linked

\* A row this build wrote survives its finalize.
LEMMA NewIsNotGone ==
    ASSUME Typed, NEW r \in Renamings, NEW p \in Moved, NEW a \in NewOf(p)
    PROVE  a \in DOMAIN art /\ a.from = seq /\ a \notin Gone(r)
<1>1. a \in DOMAIN art /\ a.from = seq /\ a.src \notin Vanished /\ seq \in Nat
  BY DEF NewOf, Typed, ProgressTyped
<1>2. a \notin RenamedIds(r)
  BY <1>1, RenamingFacts DEF RenamedIds, OldOf
<1>3. a \notin SweptIds(r)
  BY <1>1 DEF SweptIds, SweptSources
<1>4. a \notin Superseded
  BY <1>1 DEF Superseded
<1> QED
  BY <1>1, <1>2, <1>3, <1>4 DEF Gone

\* An edge after the three passes of a finalize, from what it was before.
LEMMA FinalizedEdge ==
    ASSUME Typed, Mentions = {}, NoLinks, NEW r \in Renamings, FinalizeWith(r), NEW f \in edges'
    PROVE  \E e \in edges : \E m \in Reattached(edges, r) : \E c :
              MovedTo(e, m, r) /\ ClosedTo(m, c, SweptIds(r)) /\ ClosedTo(c, f, Superseded)
<1> DEFINE M == Reattached(edges, r)
           C == ClosedEdges(M, SweptIds(r))
<1>1. f \in ClosedEdges(C, Superseded)
  BY NothingLinked DEF FinalizeWith
<1>2. seq \in Nat \ {0} \/ seq = 0
  BY DEF Typed, ProgressTyped
<1>3. \A e \in edges : DOMAIN e = EdgeFields
  BY DEF Typed, EdgesTyped, EdgeTyped
<1>4. \A m \in M : \E e \in edges : MovedTo(e, m, r)
  BY <1>3, ReattachedEdges
<1>5. \A m \in M : DOMAIN m = EdgeFields
  BY <1>3, <1>4 DEF MovedTo
<1> HIDE DEF M
<1>6. \A c \in C : \E m \in M : ClosedTo(m, c, SweptIds(r))
  BY <1>5, ClosedEdgeFacts
<1>7. \A c \in C : DOMAIN c = EdgeFields
  BY <1>6 DEF ClosedTo
<1> HIDE DEF C
<1>8. PICK c \in C : ClosedTo(c, f, Superseded)
  BY <1>1, <1>7, ClosedEdgeFacts
<1>9. PICK m \in M : ClosedTo(m, c, SweptIds(r))
  BY <1>6
<1>10. PICK e \in edges : MovedTo(e, m, r)
  BY <1>4
<1> QED
  BY <1>8, <1>9, <1>10 DEF M

LEMMA FinalizeEnds ==
    ASSUME Mentions = {}, Typed, EndsSound, Finalize
    PROVE  EndsSound'
<1>1. PICK r \in Renamings : FinalizeWith(r)
  BY FinalizeFacts
<1>2. pc = "finalize" /\ pc' = "completed" /\ seq \in Nat \ {0}
  BY FinalizeFacts DEF Typed, ProgressTyped
<1>3. /\ DOMAIN art' = DOMAIN art
      /\ \A a \in DOMAIN art : a \notin Gone(r) => art'[a] = art[a]
  BY <1>1, ClosedRows DEF FinalizeWith, Typed
<1>4. \A p \in Moved : \A a \in NewOf(p) : a \in Live'
  BY <1>2, <1>3, NewIsNotGone DEF EndsSound, NewIsLive, Live
<1>5. ASSUME NEW f \in edges'
      PROVE  /\ f.source = "graphify"
             /\ f.inv = Null => f.from \in Live' /\ f.to \in Live'
  <2>1. PICK e \in edges, m \in Reattached(edges, r) : \E c :
              MovedTo(e, m, r) /\ ClosedTo(m, c, SweptIds(r)) /\ ClosedTo(c, f, Superseded)
    BY <1>1, FinalizedEdge DEF EndsSound
  <2>2. PICK c : MovedTo(e, m, r) /\ ClosedTo(m, c, SweptIds(r)) /\ ClosedTo(c, f, Superseded)
    BY <2>1
  <2>3. f.source = "graphify"
    BY <2>2 DEF MovedTo, ClosedTo, EndsSound, NoLinks
  <2>4. ASSUME f.inv = Null
        PROVE  f.from \in Live' /\ f.to \in Live'
    <3>1. /\ c.inv = Null /\ f.from = c.from /\ f.to = c.to
          /\ c.from \notin Superseded /\ c.to \notin Superseded
      BY <1>2, <2>2, <2>4 DEF ClosedTo, Null
    <3>2. /\ m.inv = Null /\ c.from = m.from /\ c.to = m.to
          /\ m.from \notin SweptIds(r) /\ m.to \notin SweptIds(r)
      BY <1>2, <2>2, <3>1 DEF ClosedTo, Null
    <3>3. e.inv = Null /\ m.from = Follow(r, e.from) /\ m.to = Follow(r, e.to)
      BY <1>2, <2>2, <3>2 DEF MovedTo, Null
    <3>4. ASSUME NEW a \in Live, Follow(r, a) \notin SweptIds(r), Follow(r, a) \notin Superseded
          PROVE  Follow(r, a) \in Live'
      <4>1. CASE a \in RenamedIds(r)
        BY <1>4, <4>1, FollowFacts
      <4>2. CASE a \notin RenamedIds(r)
        <5>1. Follow(r, a) = a /\ a \notin Gone(r)
          BY <3>4, <4>2, FollowFacts DEF Gone
        <5> QED
          BY <1>3, <5>1 DEF Live
      <4> QED
        BY <4>1, <4>2
    <3>5. e.from \in Live /\ e.to \in Live
      BY <3>3 DEF EndsSound, LiveEnds
    <3> QED
      BY <3>1, <3>2, <3>3, <3>4, <3>5
  <2> QED
    BY <2>3, <2>4
<1>6. NoLinks' /\ LiveEnds'
  BY <1>5 DEF NoLinks, LiveEnds
<1> QED
  BY <1>2, <1>6 DEF EndsSound, NewIsLive

\* New rows, and code edges among them.
LEMMA InsertEnds ==
    ASSUME Typed, EndsSound, pc = "sources", NEW S \in SUBSET todo,
           art' = WithNew(UNION {NewIds(s) : s \in S}),
           edges' \subseteq edges \cup CodeEdges(UNION {NewIds(s) : s \in S}), UNCHANGED seq
    PROVE  EndsSound'
<1> DEFINE A == UNION {NewIds(s) : s \in S}
<1>1. /\ DOMAIN art' = DOMAIN art \cup A
      /\ \A a \in A : art'[a] = Null
      /\ \A a \in DOMAIN art : art'[a] = art[a]
  BY InsertTyped
<1> HIDE DEF A
<1>2. Live \subseteq Live' /\ A \subseteq Live'
  BY <1>1 DEF Live
<1>3. \A e \in edges' : e \in edges \/ (e.source = "graphify" /\ e.from \in A /\ e.to \in A)
  BY CodeEdgesTyped DEF A
<1>4. NoLinks' /\ LiveEnds'
  BY <1>2, <1>3 DEF EndsSound, NoLinks, LiveEnds
<1>5. NewIsLive'
  BY <1>1 DEF EndsSound, NewIsLive
<1> QED
  BY <1>4, <1>5 DEF EndsSound

LEMMA EndsSoundStep ==
    ASSUME Mentions = {}, Typed, EndsSound, [Next]_vars
    PROVE  EndsSound'
<1>1. CASE StartBuild
  <2>1. \A a \in DOMAIN art : a.from < seq + 1
    BY DEF Typed, ProgressTyped, ArtTyped
  <2> QED
    BY <1>1, <2>1 DEF StartBuild, registry, EndsSound, NoLinks, LiveEnds, NewIsLive, Live
<1>2. CASE \/ UNCHANGED <<art, edges, seq>> /\ pc' \in {pc, "idle"}
           \/ UNCHANGED <<art, edges, seq>> /\ pc = "sources" /\ pc' = "finalize"
  BY <1>2 DEF EndsSound, NoLinks, LiveEnds, NewIsLive, Live
<1>3. ASSUME NEW s \in Sources, SkipDoc(s) \/ FailDoc(s)
      PROVE  UNCHANGED <<art, edges, seq>> /\ pc' \in {pc, "idle"}
  BY <1>3 DEF SkipDoc, FailDoc, registry
<1>4. ASSUME NEW s \in Sources, ExtractDoc(s)
      PROVE  EndsSound'
  <2>1. CASE UNCHANGED art
    BY <1>2, <1>4, <2>1 DEF ExtractDoc
  <2>2. CASE art' = WithNew(NewIds(s))
    <3>1. NewIds(s) = UNION {NewIds(x) : x \in {s}} /\ {s} \in SUBSET todo
      BY <1>4 DEF ExtractDoc, Turn
    <3> QED
      BY <1>4, <2>2, <3>1, InsertEnds DEF ExtractDoc, Turn
  <2> QED
    BY <1>4, <2>1, <2>2 DEF ExtractDoc
<1>5. ASSUME GraphifyTree
      PROVE  EndsSound'
  <2>1. PICK broken \in Broken :
           LET new == UNION {NewIds(s) : s \in {x \in Units : RepoOf[x] \notin broken}}
           IN  art' = WithNew(new) /\ edges' = edges \cup CodeEdges(new)
    BY <1>5 DEF GraphifyTree
  <2>2. {x \in Units : RepoOf[x] \notin broken} \in SUBSET todo
    BY <1>5 DEF GraphifyTree, Units
  <2> QED
    BY <1>5, <2>1, <2>2, InsertEnds DEF GraphifyTree
<1>6. CASE KeepTree \/ FinalizeRaises \/ Interrupt \/ Publish \/ Reject \/ UNCHANGED vars
  BY <1>2, <1>6 DEF KeepTree, FinalizeRaises, Interrupt, Publish, Reject, BuildEnds, vars, registry
<1> QED
  BY <1>1, <1>2, <1>3, <1>4, <1>5, <1>6, FinalizeEnds DEF Next

\* Where no text mentions a title, so that every edge is a code edge, a completed
\* build has no live edge that ends at a row which left the KB: whatever was
\* renamed, deleted or superseded, the edge followed it or was closed with it.
THEOREM NoGhostSafety ==
    ASSUME Mentions = {}
    PROVE  Spec => []NoGhostEdges
<1>1. Init => Typed /\ EndsSound
  BY TypedInit DEF Init, EndsSound, NoLinks, LiveEnds, NewIsLive
<1>2. Typed /\ EndsSound /\ [Next]_vars => (Typed /\ EndsSound)'
  BY TypedStep, EndsSoundStep
<1>3. Typed /\ EndsSound => NoGhostEdges
  <2> SUFFICES ASSUME Typed, EndsSound
               PROVE  Ghosts(seq) = {}
    BY DEF NoGhostEdges
  <2>1. seq \in Nat /\ ArtTyped /\ EdgesTyped
    BY DEF Typed, ProgressTyped
  <2>2. \A e \in EdgeMembers(seq) : e \in edges /\ e.inv = Null
    BY <2>1 DEF EdgeMembers, EdgesTyped, EdgeTyped
  <2>3. Live \subseteq Members(seq)
    BY <2>1 DEF Live, Members, ArtTyped
  <2> QED
    BY <2>2, <2>3 DEF Ghosts, EndsSound, LiveEnds
<1> QED
  BY <1>1, <1>2, <1>3, PTL DEF Spec

--------------------------------------------------------------------------------
(* The edges readers of the served version see *)

\* No piece is a piece of two sources: nothing to rename and nothing to replay
\* for another source.
OwnPiecesOnly ==
  \A s, t \in Sources : s # t => (UNION ContentsOf[s]) \cap (UNION ContentsOf[t]) = {}

LEMMA NothingMoves ==
    ASSUME Typed, OwnPiecesOnly
    PROVE  Moved = {}
<1> SUFFICES ASSUME NEW p \in Moved PROVE FALSE
  OBVIOUS
<1>1. PICK a \in OldOf(p), b \in NewOf(p) : TRUE
  BY DEF Moved
<1>2. /\ a \in DOMAIN art /\ b \in DOMAIN art /\ a.src # b.src /\ a.piece = p /\ b.piece = p
  BY DEF OldOf, NewOf, Live
<1>3. a.src \in Sources /\ b.src \in Sources /\ OwnPiece(a) /\ OwnPiece(b)
  BY <1>2 DEF Typed, ArtTyped, Rows
<1> QED
  BY <1>2, <1>3 DEF OwnPiecesOnly, OwnPiece

\* No pass loses an edge.
LEMMA ClosedKeepsAll ==
    ASSUME NEW E, NEW X, NEW e \in E, DOMAIN e = EdgeFields
    PROVE  \E f \in ClosedEdges(E, X) : ClosedTo(e, f, X)
<1> DEFINE f == [e EXCEPT !.inv = IF @ = Null /\ {e.from, e.to} \cap X # {} THEN seq ELSE @]
<1>1. f \in ClosedEdges(E, X)
  BY DEF ClosedEdges
<1>2. ClosedTo(e, f, X)
  BY DEF EdgeFields, ClosedTo
<1> QED
  BY <1>1, <1>2

LEMMA UnmovedEdge ==
    ASSUME Moved = {}, NEW r \in Renamings, NEW e, NEW m, MovedTo(e, m, r), DOMAIN e = EdgeFields
    PROVE  /\ DOMAIN m = EdgeFields /\ m.from = e.from /\ m.to = e.to
           /\ m.since = e.since /\ m.inv = e.inv /\ m.source = e.source
<1>1. \A a : Follow(r, a) = a
  BY FollowFacts DEF RenamedIds
<1> QED
  BY <1>1 DEF MovedTo

LEMMA ReattachedKeepsAll ==
    ASSUME Moved = {}, NEW r \in Renamings, NEW E, NEW e \in E, DOMAIN e = EdgeFields
    PROVE  \E m \in Reattached(E, r) : MovedTo(e, m, r)
<1> DEFINE pairs == {r[p] : p \in Moved}
           m == IF e.inv # Null THEN e
                ELSE IF <<e.from, e.to>> \in pairs \/ <<e.to, e.from>> \in pairs
                  THEN [e EXCEPT !.inv = seq]
                  ELSE [e EXCEPT !.from = Follow(r, e.from), !.to = Follow(r, e.to)]
<1>1. m \in Reattached(E, r)
  BY Zenon DEF Reattached, Followed, Follow
<1>2. pairs = {}
  OBVIOUS
<1>3. m = IF e.inv # Null THEN e
          ELSE [e EXCEPT !.from = Follow(r, e.from), !.to = Follow(r, e.to)]
  BY <1>2
<1> HIDE DEF m
<1>4. MovedTo(e, m, r)
  BY <1>3 DEF MovedTo, EdgeFields
<1> QED
  BY <1>1, <1>4

\* An edge after a finalize without renames: closed by this build, or as it was.
StayedOrClosed(e, f) ==
  /\ f.from = e.from /\ f.to = e.to /\ f.since = e.since
  /\ f.inv = e.inv \/ (e.inv = Null /\ f.inv = seq)

LEMMA UnmovedFinalize ==
    ASSUME Mentions = {}, Typed, NoLinks, Moved = {}, NEW r \in Renamings, FinalizeWith(r)
    PROVE  /\ \A f \in edges' : \E e \in edges : StayedOrClosed(e, f)
           /\ \A e \in edges : \E f \in edges' : StayedOrClosed(e, f)
<1>0. \A e \in edges : DOMAIN e = EdgeFields
  BY DEF Typed, EdgesTyped, EdgeTyped
<1>s. \A e, m, c, f : /\ e \in edges /\ MovedTo(e, m, r) /\ ClosedTo(m, c, SweptIds(r))
                      /\ ClosedTo(c, f, Superseded)
                      => StayedOrClosed(e, f)
  BY <1>0, UnmovedEdge DEF ClosedTo, StayedOrClosed
<1>1. ASSUME NEW f \in edges'
      PROVE  \E e \in edges : StayedOrClosed(e, f)
  BY <1>s, FinalizedEdge
<1>2. ASSUME NEW e \in edges
      PROVE  \E f \in edges' : StayedOrClosed(e, f)
  <2>1. PICK m \in Reattached(edges, r) : MovedTo(e, m, r)
    BY <1>0, ReattachedKeepsAll
  <2>2. DOMAIN m = EdgeFields
    BY <1>0, <2>1, UnmovedEdge
  <2>3. PICK c \in ClosedEdges(Reattached(edges, r), SweptIds(r)) : ClosedTo(m, c, SweptIds(r))
    BY <2>2, ClosedKeepsAll
  <2>4. DOMAIN c = EdgeFields
    BY <2>3 DEF ClosedTo
  <2>5. PICK f \in ClosedEdges(ClosedEdges(Reattached(edges, r), SweptIds(r)), Superseded) :
              ClosedTo(c, f, Superseded)
    BY <2>3, <2>4, ClosedKeepsAll
  <2>6. f \in edges'
    BY <2>5, NothingLinked DEF FinalizeWith
  <2> QED
    BY <1>s, <2>1, <2>3, <2>5, <2>6
<1> QED
  BY <1>1, <1>2

\* The three things a step may do to the edges.
LEMMA EdgesStep ==
    ASSUME Typed, [Next]_vars
    PROVE  \/ UNCHANGED edges
           \/ active < seq /\ \E A : edges' = edges \cup CodeEdges(A)
           \/ active < seq /\ Finalize
<1>0. pc # "idle" => active < seq
  BY DEF Typed, ProgressTyped
<1>1. ASSUME NEW s \in Sources, SkipDoc(s) \/ ExtractDoc(s) \/ FailDoc(s)
      PROVE  UNCHANGED edges
  BY <1>1 DEF SkipDoc, FailDoc, ExtractDoc, registry
<1>2. CASE GraphifyTree
  BY <1>0, <1>2 DEF GraphifyTree
<1>3. CASE Finalize
  BY <1>0, <1>3, FinalizeFacts
<1>4. CASE StartBuild \/ KeepTree \/ FinalizeRaises \/ Interrupt \/ Publish \/ Reject \/ UNCHANGED vars
  BY <1>4 DEF StartBuild, KeepTree, FinalizeRaises, Interrupt, Publish, Reject, vars, registry
<1> QED
  BY <1>1, <1>2, <1>3, <1>4 DEF Next

\* Where no text mentions a title and no two sources share a piece, the edges of the
\* served version stay the same edges while later builds write, fail, crash and close.
THEOREM ServedEdgesSafety ==
    ASSUME Mentions = {}, OwnPiecesOnly
    PROVE  Spec => ServedEdgesStable
<1> DEFINE Ends(n) == {<<e.from, e.to>> : e \in EdgeMembers(n)}
<1>1. Init => Typed /\ EndsSound
  BY TypedInit DEF Init, EndsSound, NoLinks, LiveEnds, NewIsLive
<1>2. Typed /\ EndsSound /\ [Next]_vars => (Typed /\ EndsSound)'
  BY TypedStep, EndsSoundStep
<1>3. Typed /\ EndsSound /\ [Next]_vars => (active' = active => Ends(active)' = Ends(active))
  <2> SUFFICES ASSUME Typed, EndsSound, [Next]_vars, active' = active
               PROVE  Ends(active)' = Ends(active)
    OBVIOUS
  <2>0. seq \in Nat /\ active \in Nat /\ \A e \in edges : e.inv \in Nat /\ e.since \in Nat
    BY DEF Typed, ProgressTyped, EdgesTyped, EdgeTyped
  <2>1. CASE UNCHANGED edges
    BY <2>1 DEF EdgeMembers
  <2>2. ASSUME active < seq, NEW A, edges' = edges \cup CodeEdges(A)
        PROVE  Ends(active)' = Ends(active)
    <3>1. \A e \in CodeEdges(A) : ~(e.since <= active)
      BY <2>0, <2>2, CodeEdgesTyped
    <3>2. EdgeMembers(active)' = EdgeMembers(active)
      BY <2>2, <3>1 DEF EdgeMembers
    <3> QED
      BY <3>2
  <2>3. ASSUME active < seq, Finalize
        PROVE  Ends(active)' = Ends(active)
    <3>1. PICK r \in Renamings : FinalizeWith(r)
      BY <2>3, FinalizeFacts
    <3>2. /\ \A f \in edges' : \E e \in edges : StayedOrClosed(e, f)
          /\ \A e \in edges : \E f \in edges' : StayedOrClosed(e, f)
      BY <3>1, NothingMoves, UnmovedFinalize DEF EndsSound
    <3>3. \A e, f : /\ e \in edges /\ StayedOrClosed(e, f)
                    => (f.since <= active /\ (f.inv = Null \/ f.inv > active)
                          <=> e.since <= active /\ (e.inv = Null \/ e.inv > active))
      BY <2>0, <2>3 DEF StayedOrClosed, Null
    <3>4. ASSUME NEW f \in EdgeMembers(active)'
          PROVE  <<f.from, f.to>> \in Ends(active)
      <4>1. f \in edges' /\ f.since <= active /\ (f.inv = Null \/ f.inv > active)
        BY DEF EdgeMembers
      <4>2. PICK e \in edges : StayedOrClosed(e, f)
        BY <3>2, <4>1
      <4>3. e \in EdgeMembers(active) /\ <<e.from, e.to>> = <<f.from, f.to>>
        BY <3>3, <4>1, <4>2 DEF EdgeMembers, StayedOrClosed
      <4> QED
        BY <4>3
    <3>5. ASSUME NEW e \in EdgeMembers(active)
          PROVE  <<e.from, e.to>> \in Ends(active)'
      <4>1. e \in edges /\ e.since <= active /\ (e.inv = Null \/ e.inv > active)
        BY DEF EdgeMembers
      <4>2. PICK f \in edges' : StayedOrClosed(e, f)
        BY <3>2, <4>1
      <4>3. f \in EdgeMembers(active)' /\ <<e.from, e.to>> = <<f.from, f.to>>
        BY <3>3, <4>1, <4>2 DEF EdgeMembers, StayedOrClosed
      <4> QED
        BY <4>3
    <3> QED
      BY <3>4, <3>5
  <2> QED
    BY <2>1, <2>2, <2>3, EdgesStep
<1>4. Typed /\ EndsSound /\ [Next]_vars
        => (active' = active =>
              {<<e.from, e.to>> : e \in EdgeMembers(active)'} =
              {<<e.from, e.to>> : e \in EdgeMembers(active)})
  BY <1>3
<1> QED
  BY <1>1, <1>2, <1>4, PTL DEF Spec, ServedEdgesStable

--------------------------------------------------------------------------------
(* Every source is served once, and as it was recorded *)

\* Sources that only move forward, and builds in which only an extraction fails.
OrderlyBuilds == Habits = {} /\ Faults \subseteq {"source_failure"}

\* The content of source s that build n wrote.
Written(s, n) == {a.piece : a \in {x \in DOMAIN art : x.src = s /\ x.from = n}}

\* What LIVE rows say of a source no running build has rewritten.
ServedAsRecorded(s) ==
  /\ LivePieces(s) = IF item[s].deleted THEN {} ELSE item[s].hash
  /\ \A a, b \in Live : a.src = s /\ b.src = s => a.from = b.from

\* What a running build has made of a source it changed.
Rewritten(s) ==
  /\ s \in seen /\ world[s] # {}
  /\ item[s].hash = world[s] /\ ~item[s].deleted
  /\ Written(s, seq) = world[s]
  /\ \A a \in DOMAIN art : a.src = s /\ a.from = seq => art[a] = Null

Building == pc \in {"sources", "finalize"}

\* How far the running build is.
Halfway ==
  /\ pc = "finalize" => todo = {}
  /\ Building =>
       \A s \in Sources :
         /\ s \in changed => Rewritten(s)
         /\ s \notin changed => \A a \in DOMAIN art : a.src = s => a.from < seq
         /\ s \in todo => s \notin changed
         /\ s \notin todo \cup seen /\ Stored(s) => world[s] = {}

Recorded == \A s \in Sources : ~(Building /\ s \in changed) => ServedAsRecorded(s)

\* A stored content was extracted; another content the source has was not; a
\* deleted source does not have the content it had.
History ==
  \A s \in Sources :
    /\ Stored(s) => item[s].hash \in Generations(s)
    /\ world[s] # {} /\ ~IsUnchanged(s) => world[s] \notin Generations(s)
    /\ item[s].deleted => Stored(s) /\ ~IsUnchanged(s)

CacheHistory ==
  /\ CacheTyped
  /\ \A c \in Contents : cache[c].cached => \E s \in Docs : c \in Generations(s)

Orderly == Halfway /\ Recorded /\ History /\ CacheHistory /\ UniqueLinks(edges)

\* The unique index on linker edges is never in the way of a finalize without renames.

LEMMA LinkedIsUnique ==
    ASSUME EdgesTyped, UniqueLinks(edges)
    PROVE  UniqueLinks(Linked)
<1> DEFINE revised(e) == [e EXCEPT !.inv = IF <<e.from, e.to>> \in Links THEN Null
                                           ELSE IF e.inv = Null THEN seq ELSE e.inv]
           link(x) == [from |-> x[1], to |-> x[2], source |-> "linker", since |-> seq, inv |-> Null]
<1>1. \A e \in Linker(edges) : revised(e).from = e.from /\ revised(e).to = e.to
  BY DEF Linker, EdgesTyped, EdgeTyped, EdgeFields
<1>2. \A x : link(x).from = x[1] /\ link(x).to = x[2]
  OBVIOUS
<1>3. \A x \in Links \ LinkedPairs : <<x[1], x[2]>> \notin LinkedPairs
  BY DEF Links
<1> SUFFICES ASSUME NEW f \in Linker(Linked), NEW g \in Linker(Linked), f.from = g.from, f.to = g.to
             PROVE  f = g
  BY DEF UniqueLinks
<1>4. \A h \in Linker(Linked) : \/ \E e \in Linker(edges) : h = revised(e)
                                \/ \E x \in Links \ LinkedPairs : h = link(x)
  BY LinkedFacts DEF Linker
<1> HIDE DEF revised
<1>5. CASE \E e \in Linker(edges) : f = revised(e)
  <2>1. PICK e \in Linker(edges) : f = revised(e)
    BY <1>5
  <2>2. CASE \E d \in Linker(edges) : g = revised(d)
    <3>1. PICK d \in Linker(edges) : g = revised(d)
      BY <2>2
    <3>2. d = e
      BY <1>1, <2>1, <3>1 DEF UniqueLinks
    <3> QED
      BY <2>1, <3>1, <3>2
  <2>3. CASE \E x \in Links \ LinkedPairs : g = link(x)
    <3>1. PICK x \in Links \ LinkedPairs : g = link(x)
      BY <2>3
    <3>2. <<x[1], x[2]>> = <<e.from, e.to>>
      BY <1>1, <1>2, <2>1, <3>1
    <3> QED
      BY <1>3, <3>2 DEF LinkedPairs
  <2> QED
    BY <1>4, <2>2, <2>3
<1>6. CASE \E x \in Links \ LinkedPairs : f = link(x)
  <2>1. PICK x \in Links \ LinkedPairs : f = link(x)
    BY <1>6
  <2>2. CASE \E d \in Linker(edges) : g = revised(d)
    <3>1. PICK d \in Linker(edges) : g = revised(d)
      BY <2>2
    <3>2. <<x[1], x[2]>> = <<d.from, d.to>>
      BY <1>1, <1>2, <2>1, <3>1
    <3> QED
      BY <1>3, <3>2 DEF LinkedPairs
  <2>3. CASE \E y \in Links \ LinkedPairs : g = link(y)
    <3>1. PICK y \in Links \ LinkedPairs : g = link(y)
      BY <2>3
    <3>2. x[1] = y[1] /\ x[2] = y[2]
      BY <1>2, <2>1, <3>1
    <3> QED
      BY <2>1, <3>1, <3>2
  <2> QED
    BY <1>4, <2>2, <2>3
<1> QED
  BY <1>4, <1>5, <1>6

\* Where nothing is renamed, every row stays where it is.
LEMMA UnmovedStayApart ==
    ASSUME Moved = {}, NEW r \in Renamings, NEW E, \A e \in E : DOMAIN e = EdgeFields, UniqueLinks(E)
    PROVE  LinksStayApart(E, r)
<1> DEFINE pairs == {r[p] : p \in Moved}
<1>1. pairs = {}
  OBVIOUS
<1>2. ASSUME NEW e \in E
      PROVE  Followed(e, pairs).from = e.from /\ Followed(e, pairs).to = e.to
  BY <1>1, <1>2 DEF Followed, EdgeFields
<1> HIDE DEF pairs
<1>3. \A e, f \in Linker(E) :
        Followed(e, pairs).from = Followed(f, pairs).from
        /\ Followed(e, pairs).to = Followed(f, pairs).to => e = f
  BY <1>2 DEF UniqueLinks, Linker
<1> QED
  BY <1>3 DEF LinksStayApart, pairs

\* Rows that stay apart are still one for each pair of artifacts.
LEMMA ApartIsUnique ==
    ASSUME NEW r \in Renamings, NEW E, \A e \in E : DOMAIN e = EdgeFields, LinksStayApart(E, r)
    PROVE  UniqueLinks(Reattached(E, r))
<1> DEFINE pairs == {r[p] : p \in Moved}
<1>1. \A e \in E : Followed(e, pairs).source = e.source
  BY DEF Followed, EdgeFields
<1>2. Reattached(E, r) = {Followed(e, pairs) : e \in E}
  BY DEF Reattached
<1>3. \A e, f \in Linker(E) :
        Followed(e, pairs).from = Followed(f, pairs).from
        /\ Followed(e, pairs).to = Followed(f, pairs).to => e = f
  BY DEF LinksStayApart
<1> HIDE DEF pairs
<1> SUFFICES ASSUME NEW f \in Linker(Reattached(E, r)), NEW g \in Linker(Reattached(E, r)),
                    f.from = g.from, f.to = g.to
             PROVE  f = g
  BY DEF UniqueLinks
<1>4. PICK d \in E : f = Followed(d, pairs)
  BY <1>2 DEF Linker
<1>5. PICK e \in E : g = Followed(e, pairs)
  BY <1>2 DEF Linker
<1>6. d \in Linker(E) /\ e \in Linker(E)
  BY <1>1, <1>4, <1>5 DEF Linker
<1> QED
  BY <1>3, <1>4, <1>5, <1>6

LEMMA ClosedIsUnique ==
    ASSUME NEW E, \A e \in E : DOMAIN e = EdgeFields, UniqueLinks(E), NEW X
    PROVE  UniqueLinks(ClosedEdges(E, X))
<1> SUFFICES ASSUME NEW f \in Linker(ClosedEdges(E, X)), NEW g \in Linker(ClosedEdges(E, X)),
                    f.from = g.from, f.to = g.to
             PROVE  f = g
  BY DEF UniqueLinks
<1>1. /\ f \in ClosedEdges(E, X) /\ g \in ClosedEdges(E, X)
      /\ f.source = "linker" /\ g.source = "linker"
  BY DEF Linker
<1>2. PICK d \in E : ClosedTo(d, f, X)
  BY <1>1, ClosedEdgeFacts
<1>3. PICK e \in E : ClosedTo(e, g, X)
  BY <1>1, ClosedEdgeFacts
<1>4. /\ f.from = d.from /\ f.to = d.to /\ f.source = d.source
      /\ g.from = e.from /\ g.to = e.to /\ g.source = e.source
  BY <1>2, <1>3 DEF ClosedTo
<1>5. d = e
  BY <1>1, <1>4 DEF UniqueLinks, Linker
<1> QED
  BY <1>2, <1>3, <1>5 DEF ClosedTo

\* The rename pass raises only where something was renamed.
LEMMA UnmovedNeverRaises ==
    ASSUME Typed, seq # 0, Moved = {}, UniqueLinks(edges)
    PROVE  /\ \A r \in Renamings : LinksStayApart(Linked, r)
           /\ Finalize => UniqueLinks(edges)'
<1>1. seq \in Nat \ {0} /\ EdgesTyped
  BY DEF Typed, ProgressTyped
<1>2. \A e \in Linked : EdgeTyped(e)
  BY <1>1, LinkedTyped
<1>3. ASSUME NEW r \in Renamings
      PROVE  LinksStayApart(Linked, r)
  <2>1. \A e \in Linked : DOMAIN e = EdgeFields
    BY <1>2 DEF EdgeTyped
  <2> QED
    BY <1>1, <2>1, LinkedIsUnique, UnmovedStayApart
<1>4. ASSUME Finalize
      PROVE  UniqueLinks(edges)'
  <2>1. PICK r \in Renamings : FinalizeWith(r)
    BY <1>4, FinalizeFacts
  <2> DEFINE M == Reattached(Linked, r)
             C == ClosedEdges(M, SweptIds(r))
  <2>2. \A e \in M : EdgeTyped(e)
    BY <1>1, <1>2, ReattachedTyped
  <2>3. edges' = ClosedEdges(C, Superseded) /\ UniqueLinks(M)
    BY <1>2, <2>1, ApartIsUnique DEF FinalizeWith, EdgeTyped
  <2> HIDE DEF M
  <2>4. \A e \in C : EdgeTyped(e)
    BY <1>1, <2>2, ClosedEdgesTyped
  <2>5. UniqueLinks(C)
    BY <2>2, <2>3, ClosedIsUnique DEF EdgeTyped
  <2> HIDE DEF C
  <2>6. UniqueLinks(ClosedEdges(C, Superseded))
    BY <2>4, <2>5, ClosedIsUnique DEF EdgeTyped
  <2> QED
    BY <2>3, <2>6 DEF UniqueLinks, Linker
<1> QED
  BY <1>3, <1>4

--------------------------------------------------------------------------------
(* What a step leaves of a source's rows *)

\* A source none of whose rows a step touches.
LEMMA SameRows ==
    ASSUME NEW s, \A a : a.src = s => (a \in DOMAIN art' <=> a \in DOMAIN art),
           \A a \in DOMAIN art : a.src = s => art'[a] = art[a]
    PROVE  /\ LivePieces(s)' = LivePieces(s)
           /\ \A n : Written(s, n)' = Written(s, n)
           /\ \A a : a.src = s => (a \in Live' <=> a \in Live)
<1>1. \A a : a.src = s => (a \in Live' <=> a \in Live)
  BY DEF Live
<1>2. {x \in Live' : x.src = s} = {x \in Live : x.src = s}
  BY <1>1
<1>3. \A n : {x \in DOMAIN art' : x.src = s /\ x.from = n} = {x \in DOMAIN art : x.src = s /\ x.from = n}
  OBVIOUS
<1> QED
  BY <1>1, <1>2, <1>3 DEF LivePieces, Written

LEMMA SameRecord ==
    ASSUME NEW s, item'[s] = item[s], ServedAsRecorded(s),
           \A a : a.src = s => (a \in DOMAIN art' <=> a \in DOMAIN art),
           \A a \in DOMAIN art : a.src = s => art'[a] = art[a]
    PROVE  ServedAsRecorded(s)'
<1>1. LivePieces(s)' = LivePieces(s) /\ \A a : a.src = s => (a \in Live' <=> a \in Live)
  BY SameRows
<1> QED
  BY <1>1 DEF ServedAsRecorded

\* A build that has not touched a source yet has written nothing for it.
LEMMA NothingWritten ==
    ASSUME NEW s, NEW n, \A a \in DOMAIN art : a.src = s => a.from # n
    PROVE  Written(s, n) = {}
  BY DEF Written

LEMMA GenerationFacts ==
    ASSUME NEW s, NEW c
    PROVE  c \in Generations(s) <=> \E n \in 1..seq : c = Written(s, n)
  BY DEF Generations, Written

\* What a build inserts: its own rows, for the sources it has the turn of.
LEMMA InsertedRows ==
    ASSUME Typed, pc = "sources", NEW S \in SUBSET todo,
           art' = WithNew(UNION {NewIds(s) : s \in S}), UNCHANGED seq
    PROVE  /\ \A a \in DOMAIN art : a \in DOMAIN art' /\ art'[a] = art[a]
           /\ \A a \in DOMAIN art' :
                a \notin DOMAIN art => /\ a.src \in S /\ a.from = seq /\ a.piece \in world[a.src]
                                       /\ art'[a] = Null
           /\ \A s \in S : Written(s, seq)' = world[s]
           /\ \A s \in Sources : \A n : (s \notin S \/ n # seq) => Written(s, n)' = Written(s, n)
<1> DEFINE A == UNION {NewIds(s) : s \in S}
<1>1. /\ DOMAIN art' = DOMAIN art \cup A
      /\ \A a \in A : a.src \in S /\ a.from = seq /\ art'[a] = Null
      /\ \A a \in DOMAIN art : art'[a] = art[a]
  BY InsertTyped
<1>2. \A s \in S : \A p \in world[s] : \E a \in A : a.src = s /\ a.from = seq /\ a.piece = p
  <2> TAKE s \in S
  <2> TAKE p \in world[s]
  <2>1. NewIds(s) \subseteq A
    OBVIOUS
  <2>2. [src |-> s, piece |-> p, from |-> seq] \in NewIds(s)
    BY DEF NewIds
  <2> QED
    BY <2>1, <2>2
<1>3. \A a \in A : a.piece \in world[a.src]
  <2> SUFFICES ASSUME NEW s \in S, NEW a \in NewIds(s) PROVE a.piece \in world[a.src]
    OBVIOUS
  <2> QED
    BY DEF NewIds
<1> HIDE DEF A
<1>4. \A a \in DOMAIN art : a.src \in S => a.from # seq
  BY DEF Typed, TodoIsFresh, ProgressTyped, ArtTyped
<1>5. \A s \in S : Written(s, seq)' = world[s]
  <2> TAKE s \in S
  <2>1. \A a \in DOMAIN art' : a.src = s /\ a.from = seq => a.piece \in world[s]
    BY <1>1, <1>3, <1>4
  <2>2. \A p \in world[s] : \E a \in DOMAIN art' : a.src = s /\ a.from = seq /\ a.piece = p
    <3>1. A \subseteq DOMAIN art'
      BY <1>1
    <3> TAKE p \in world[s]
    <3>2. PICK a \in A : a.src = s /\ a.from = seq /\ a.piece = p
      BY <1>2
    <3> QED
      BY <3>1, <3>2
  <2> QED
    BY <2>1, <2>2 DEF Written
<1>6. \A s \in Sources : \A n : (s \notin S \/ n # seq) => Written(s, n)' = Written(s, n)
  <2> TAKE s \in Sources
  <2> TAKE n
  <2>1. ASSUME s \notin S \/ n # seq
        PROVE  {x \in DOMAIN art' : x.src = s /\ x.from = n} = {x \in DOMAIN art : x.src = s /\ x.from = n}
    BY <1>1, <2>1
  <2> QED
    BY <2>1 DEF Written
<1> QED
  BY <1>1, <1>3, <1>5, <1>6

LEMMA ClosedWritten ==
    ASSUME DOMAIN art' = DOMAIN art, NEW s, NEW n
    PROVE  Written(s, n)' = Written(s, n)
  BY DEF Written

LEMMA SeqGrows ==
    ASSUME Typed, [Next]_vars
    PROVE  seq' \in Nat /\ seq <= seq'
<1>0. seq \in Nat
  BY DEF Typed, ProgressTyped
<1>1. CASE StartBuild
  BY <1>0, <1>1 DEF StartBuild
<1>2. ASSUME NEW s \in Sources, SkipDoc(s) \/ ExtractDoc(s) \/ FailDoc(s)
      PROVE  UNCHANGED seq
  BY <1>2 DEF SkipDoc, ExtractDoc, FailDoc
<1>3. CASE \/ GraphifyTree \/ KeepTree \/ Finalize \/ FinalizeRaises \/ Interrupt \/ Publish
           \/ Reject \/ UNCHANGED vars
  BY <1>0, <1>3 DEF GraphifyTree, KeepTree, Finalize, FinalizeRaises, Interrupt, Publish, Reject, vars
<1> QED
  BY <1>0, <1>1, <1>2, <1>3 DEF Next

\* What was extracted once stays extracted.
LEMMA GenerationsGrow ==
    ASSUME Typed, [Next]_vars, NEW s \in Sources, NEW c \in Generations(s), c # {}
    PROVE  c \in Generations(s)'
<1>0. seq \in Nat /\ seq' \in Nat /\ seq <= seq'
  BY SeqGrows DEF Typed, ProgressTyped
<1>1. PICK n \in 1..seq : c = Written(s, n)
  BY GenerationFacts
<1>2. n \in 1..seq'
  BY <1>0
<1>3. CASE UNCHANGED art \/ \E X : art' = Closed(art, X)
  <2>1. DOMAIN art' = DOMAIN art
    BY <1>3, ClosedRows DEF Typed
  <2>2. Written(s, n)' = Written(s, n)
    BY <2>1, ClosedWritten
  <2> QED
    BY <1>1, <1>2, <2>2 DEF Generations, Written
<1>4. ASSUME UNCHANGED seq, NEW S \in SUBSET todo, pc = "sources",
             art' = WithNew(UNION {NewIds(x) : x \in S})
      PROVE  c \in Generations(s)'
  <2>1. CASE s \in S /\ n = seq
    <3>1. \A a \in DOMAIN art : a.src = s => a.from # n
      BY <1>4, <2>1 DEF Typed, TodoIsFresh, ProgressTyped, ArtTyped
    <3> QED
      BY <1>1, <3>1, NothingWritten
  <2>2. CASE s \notin S \/ n # seq
    <3>1. Written(s, n)' = Written(s, n)
      BY <1>4, <2>2, InsertedRows
    <3> QED
      BY <1>1, <1>2, <3>1 DEF Generations, Written
  <2> QED
    BY <2>1, <2>2
<1> QED
  BY <1>3, <1>4, RowsStep

--------------------------------------------------------------------------------
(* Orderly builds, action by action *)

OrderlyProgress == Halfway /\ Recorded /\ History

\* A turn that extracts the sources in S: those in T had another content, the
\* others are rebuilt with them.
Extracted(S, T) ==
  /\ pc = "sources" /\ pc' \in {"sources", "finalize"}
  /\ S \in SUBSET todo /\ todo' \subseteq todo \ S
  /\ pc' = "finalize" => todo' = {}
  /\ \A s \in todo : s \notin S \cup todo' => world[s] = {}
  /\ T \subseteq S /\ \A s \in S : world[s] # {} /\ (s \notin T => IsUnchanged(s))
  /\ art' = WithNew(UNION {NewIds(s) : s \in S})
  /\ item' = Upserted(T)
  /\ seen' = seen \cup S /\ changed' = changed \cup S
  /\ UNCHANGED <<world, seq>>

LEMMA ExtractedItem ==
    ASSUME Typed, OrderlyProgress, NEW S, NEW T, Extracted(S, T), NEW s \in S
    PROVE  /\ s \in Sources
           /\ item'[s].hash = world'[s] /\ world'[s] # {} /\ ~item'[s].deleted
<1>1. s \in Sources
  BY DEF Extracted, Typed, ProgressTyped
<1>2. CASE s \in T
  BY <1>1, <1>2 DEF Extracted, Upserted
<1>3. CASE s \notin T
  <2>1. IsUnchanged(s) /\ item'[s] = item[s] /\ world[s] # {} /\ world'[s] = world[s]
    BY <1>1, <1>3 DEF Extracted, Upserted
  <2>2. ~item[s].deleted
    BY <1>1, <2>1 DEF OrderlyProgress, History
  <2> QED
    BY <1>1, <2>1, <2>2 DEF IsUnchanged
<1> QED
  BY <1>2, <1>3

LEMMA ExtractedRows ==
    ASSUME Typed, NEW S, NEW T, Extracted(S, T)
    PROVE  /\ \A a \in DOMAIN art : a \in DOMAIN art' /\ art'[a] = art[a]
           /\ \A a \in DOMAIN art' :
                a \notin DOMAIN art => /\ a.src \in S /\ a.from = seq /\ a.piece \in world[a.src]
                                       /\ art'[a] = Null
           /\ \A s \in S : Written(s, seq)' = world[s]
           /\ \A s \in Sources : \A n : (s \notin S \/ n # seq) => Written(s, n)' = Written(s, n)
  BY InsertedRows DEF Extracted

LEMMA ExtractedTurn ==
    ASSUME Typed, OrderlyProgress, NEW S, NEW T, Extracted(S, T), NEW s \in S
    PROVE  /\ Rewritten(s)'
           /\ item'[s].hash \in Generations(s)'
<1>1. s \in Sources /\ item'[s].hash = world'[s] /\ world'[s] # {} /\ ~item'[s].deleted
  BY ExtractedItem
<1>2. seq \in Nat \ {0} /\ seq' = seq /\ world' = world /\ seen' = seen \cup S /\ S \subseteq todo
      /\ pc = "sources"
  BY DEF Extracted, Typed, ProgressTyped
<1>3. Written(s, seq)' = world'[s]
  BY <1>2, ExtractedRows
<1>4. \A a \in DOMAIN art' : a.src = s /\ a.from = seq => art'[a] = Null
  <2>1. \A a \in DOMAIN art : a.src = s => a.from # seq
    BY <1>2 DEF Typed, TodoIsFresh, ProgressTyped, ArtTyped
  <2> QED
    BY <2>1, ExtractedRows
<1>5. Rewritten(s)'
  BY <1>1, <1>2, <1>3, <1>4 DEF Rewritten
<1>6. seq' \in 1..seq' /\ item'[s].hash = Written(s, seq)'
  BY <1>1, <1>2, <1>3
<1> QED
  BY <1>2, <1>5, <1>6 DEF Generations, Written

LEMMA ExtractedOther ==
    ASSUME Typed, OrderlyProgress, NEW S, NEW T, Extracted(S, T), NEW s \in Sources \ S
    PROVE  /\ item'[s] = item[s] /\ world'[s] = world[s]
           /\ \A a : a.src = s => (a \in DOMAIN art' <=> a \in DOMAIN art)
           /\ \A a \in DOMAIN art : a.src = s => art'[a] = art[a]
           /\ Generations(s)' = Generations(s)
           /\ Rewritten(s) => Rewritten(s)'
           /\ ServedAsRecorded(s) => ServedAsRecorded(s)'
<1>1. item'[s] = item[s] /\ world' = world /\ seq' = seq /\ seen' = seen \cup S
  BY DEF Extracted, Upserted
<1>2. /\ \A a : a.src = s => (a \in DOMAIN art' <=> a \in DOMAIN art)
      /\ \A a \in DOMAIN art : a.src = s => art'[a] = art[a]
  BY ExtractedRows
<1>3. \A n : Written(s, n)' = Written(s, n)
  BY ExtractedRows
<1>4. Generations(s)' = Generations(s)
  <2>1. Generations(s) = {Written(s, n) : n \in 1..seq}
    BY DEF Generations, Written
  <2>2. Generations(s)' = {Written(s, n)' : n \in 1..seq'}
    BY DEF Generations, Written
  <2> QED
    BY <1>1, <1>3, <2>1, <2>2
<1>5. Rewritten(s) => Rewritten(s)'
  BY <1>1, <1>2, <1>3 DEF Rewritten
<1>6. ServedAsRecorded(s) => ServedAsRecorded(s)'
  BY <1>1, <1>2, SameRecord
<1> QED
  BY <1>1, <1>2, <1>4, <1>5, <1>6

LEMMA ExtractedOrderly ==
    ASSUME Typed, OrderlyProgress, NEW S, NEW T, Extracted(S, T)
    PROVE  OrderlyProgress'
<1>1. /\ pc = "sources" /\ pc' \in {"sources", "finalize"} /\ S \subseteq todo
      /\ todo' \subseteq todo \ S
      /\ pc' = "finalize" => todo' = {}
      /\ \A s \in todo : s \notin S \cup todo' => world[s] = {}
      /\ seen' = seen \cup S /\ changed' = changed \cup S
      /\ world' = world /\ seq' = seq
  BY DEF Extracted
<1>2. Halfway'
  <2> SUFFICES ASSUME NEW s \in Sources
               PROVE  /\ s \in changed' => Rewritten(s)'
                      /\ s \notin changed' => \A a \in DOMAIN art' : a.src = s => a.from < seq'
                      /\ s \in todo' => s \notin changed'
                      /\ s \notin todo' \cup seen' /\ Stored(s)' => world'[s] = {}
    BY <1>1 DEF Halfway
  <2>1. CASE s \in S
    BY <1>1, <2>1, ExtractedTurn
  <2>2. CASE s \notin S
    <3>1. /\ item'[s] = item[s]
          /\ \A a : a.src = s => (a \in DOMAIN art' <=> a \in DOMAIN art)
          /\ Rewritten(s) => Rewritten(s)'
      BY <2>2, ExtractedOther
    <3>2. /\ s \in changed => Rewritten(s)
          /\ s \notin changed => \A a \in DOMAIN art : a.src = s => a.from < seq
          /\ s \in todo => s \notin changed
          /\ s \notin todo \cup seen /\ Stored(s) => world[s] = {}
      BY <1>1 DEF OrderlyProgress, Halfway, Building
    <3> QED
      BY <1>1, <2>2, <3>1, <3>2 DEF Stored
  <2> QED
    BY <2>1, <2>2
<1>3. Recorded'
  <2> SUFFICES ASSUME NEW s \in Sources, s \notin changed'
               PROVE  ServedAsRecorded(s)'
    BY <1>1 DEF Recorded, Building
  <2>1. s \notin S /\ s \notin changed
    BY <1>1
  <2> QED
    BY <2>1, ExtractedOther DEF OrderlyProgress, Recorded
<1>4. History'
  <2> SUFFICES ASSUME NEW s \in Sources
               PROVE  /\ Stored(s)' => item'[s].hash \in Generations(s)'
                      /\ world'[s] # {} /\ ~IsUnchanged(s)' => world'[s] \notin Generations(s)'
                      /\ item'[s].deleted => Stored(s)' /\ ~IsUnchanged(s)'
    BY DEF History
  <2>1. CASE s \in S
    BY <2>1, ExtractedItem, ExtractedTurn DEF IsUnchanged
  <2>2. CASE s \notin S
    BY <2>2, ExtractedOther DEF OrderlyProgress, History, Stored, IsUnchanged
  <2> QED
    BY <2>1, <2>2
<1> QED
  BY <1>2, <1>3, <1>4 DEF OrderlyProgress

LEMMA SameHistory ==
    ASSUME UNCHANGED <<world, item, art, seq>>, NEW s
    PROVE  /\ Generations(s)' = Generations(s) /\ \A n : Written(s, n)' = Written(s, n)
           /\ ServedAsRecorded(s)' = ServedAsRecorded(s)
           /\ IsUnchanged(s)' = IsUnchanged(s) /\ Stored(s)' = Stored(s)
<1>1. Generations(s)' = Generations(s) /\ \A n : Written(s, n)' = Written(s, n)
  BY DEF Generations, Written
<1>2. ServedAsRecorded(s)' = ServedAsRecorded(s)
  BY DEF ServedAsRecorded, LivePieces, Live
<1> QED
  BY <1>1, <1>2 DEF IsUnchanged, Stored

\* A turn that writes nothing: the source is not there, unchanged, or its
\* extraction failed.
Passed ==
  /\ pc = "sources" /\ pc' \in {"sources", "finalize"}
  /\ pc' = "finalize" => todo' = {}
  /\ todo' \subseteq todo /\ seen \subseteq seen'
  /\ \A s \in todo : s \notin todo' \cup seen' => world[s] = {} \/ ~Stored(s)
  /\ UNCHANGED <<world, item, art, seq, changed>>

LEMMA PassedOrderly ==
    ASSUME Typed, OrderlyProgress, Passed
    PROVE  OrderlyProgress'
<1>1. UNCHANGED <<world, item, art, seq, changed>> /\ Building /\ Building'
  BY DEF Passed, Building
<1>2. \A s \in Sources : Rewritten(s) => Rewritten(s)'
  <2> TAKE s \in Sources
  <2>1. \A n : Written(s, n)' = Written(s, n)
    BY <1>1, SameHistory
  <2> QED
    BY <1>1, <2>1 DEF Rewritten, Passed
<1>3. Halfway'
  <2> SUFFICES ASSUME NEW s \in Sources
               PROVE  /\ s \in changed' => Rewritten(s)'
                      /\ s \notin changed' => \A a \in DOMAIN art' : a.src = s => a.from < seq'
                      /\ s \in todo' => s \notin changed'
                      /\ s \notin todo' \cup seen' /\ Stored(s)' => world'[s] = {}
    BY DEF Passed, Halfway
  <2>1. /\ s \in changed => Rewritten(s)
        /\ s \notin changed => \A a \in DOMAIN art : a.src = s => a.from < seq
        /\ s \in todo => s \notin changed
        /\ s \notin todo \cup seen /\ Stored(s) => world[s] = {}
    BY <1>1 DEF OrderlyProgress, Halfway
  <2>2. Stored(s)' = Stored(s)
    BY <1>1, SameHistory
  <2> QED
    BY <1>1, <1>2, <2>1, <2>2 DEF Passed
<1>4. Recorded'
  BY <1>1, SameHistory DEF OrderlyProgress, Recorded
<1>5. History'
  BY <1>1, SameHistory DEF OrderlyProgress, History
<1> QED
  BY <1>3, <1>4, <1>5 DEF OrderlyProgress

LEMMA StartOrderly ==
    ASSUME Habits = {}, Typed, OrderlyProgress, StartBuild
    PROVE  OrderlyProgress'
<1>1. /\ pc = "idle" /\ pc' = "sources" /\ seq' = seq + 1 /\ seq \in Nat
      /\ item' = item /\ art' = art /\ todo' = Sources /\ seen' = {} /\ changed' = {}
  BY DEF StartBuild, registry, Typed, ProgressTyped
<1>2. \A a \in DOMAIN art : a.from \in Nat /\ a.from <= seq
  BY DEF Typed, ArtTyped
<1>3. \A s \in Sources : ServedAsRecorded(s)'
  <2> TAKE s \in Sources
  <2>1. ServedAsRecorded(s)
    BY <1>1 DEF OrderlyProgress, Recorded, Building
  <2> QED
    BY <1>1, <2>1, SameRecord
<1>4. ASSUME NEW s \in Sources, NEW c, c # {}
      PROVE  c \in Generations(s)' <=> c \in Generations(s)
  <2>1. \A n : Written(s, n)' = Written(s, n)
    BY <1>1 DEF Written
  <2>2. Written(s, seq + 1) = {}
    <3>1. \A a \in DOMAIN art : a.src = s => a.from # seq + 1
      BY <1>1, <1>2
    <3> QED
      BY <3>1, NothingWritten
  <2>3. c \in Generations(s)' <=> \E n \in 1..(seq + 1) : c = Written(s, n)'
    BY <1>1 DEF Generations, Written
  <2>4. \A n : n \in 1..(seq + 1) <=> n \in 1..seq \/ n = seq + 1
    BY <1>1
  <2>5. (\E n \in 1..(seq + 1) : c = Written(s, n)') <=> (\E n \in 1..seq : c = Written(s, n))
    BY <1>4, <2>1, <2>2, <2>4
  <2> QED
    BY <2>3, <2>5, GenerationFacts
<1>5. \A s \in Sources : world'[s] \in {world[s], {}} \/ world'[s] \notin Generations(s)
  BY DEF StartBuild, MayBecome
<1>6. Halfway'
  <2>1. \A a \in DOMAIN art : a.from < seq + 1
    BY <1>1, <1>2
  <2> QED
    BY <1>1, <2>1 DEF Halfway
<1>7. Recorded'
  BY <1>3 DEF Recorded
<1>8. History'
  <2> SUFFICES ASSUME NEW s \in Sources
               PROVE  /\ Stored(s)' => item'[s].hash \in Generations(s)'
                      /\ world'[s] # {} /\ ~IsUnchanged(s)' => world'[s] \notin Generations(s)'
                      /\ item'[s].deleted => Stored(s)' /\ ~IsUnchanged(s)'
    BY DEF History
  <2>1. /\ Stored(s) => item[s].hash \in Generations(s)
        /\ world[s] # {} /\ ~IsUnchanged(s) => world[s] \notin Generations(s)
        /\ item[s].deleted => Stored(s) /\ ~IsUnchanged(s)
    BY DEF OrderlyProgress, History
  <2> QED
    BY <1>1, <1>4, <1>5, <2>1 DEF Stored, IsUnchanged
<1> QED
  BY <1>6, <1>7, <1>8 DEF OrderlyProgress

\* A completed build ends, published or rejected.
LEMMA EndOrderly ==
    ASSUME Typed, OrderlyProgress, pc = "completed", BuildEnds, UNCHANGED <<world, item, art, seq>>
    PROVE  OrderlyProgress'
<1>1. pc' = "idle"
  BY DEF BuildEnds
<1>2. Halfway'
  BY <1>1 DEF Halfway, Building
<1>3. Recorded'
  BY SameHistory DEF OrderlyProgress, Recorded, Building
<1>4. History'
  BY SameHistory DEF OrderlyProgress, History
<1> QED
  BY <1>2, <1>3, <1>4 DEF OrderlyProgress

\* What a finalize without renames closes of a source: the earlier generations of
\* one the build changed, everything of one it missed, nothing of the others.
LEMMA UnmovedRows ==
    ASSUME Typed, OrderlyProgress, Moved = {}, NEW r \in Renamings, FinalizeWith(r),
           pc = "finalize", NEW s \in Sources
    PROVE  /\ DOMAIN art' = DOMAIN art
           /\ \A a : a \in Live' <=> a \in Live /\ a \notin Gone(r)
           /\ s \in Vanished => \A a \in Live : a.src = s => a \in Gone(r)
           /\ s \notin Vanished /\ s \notin changed =>
                \A a \in Live : a.src = s => a \notin Gone(r)
           /\ s \notin Vanished /\ s \in changed =>
                \A a \in Live : a.src = s => (a \in Gone(r) <=> a.from < seq)
<1>1. seq \in Nat \ {0} /\ ArtTyped
  BY DEF Typed, ProgressTyped
<1>2. /\ DOMAIN art' = DOMAIN art
      /\ \A a \in DOMAIN art : art'[a] = IF a \in Gone(r) /\ art[a] = Null THEN seq ELSE art[a]
  BY <1>1, ClosedRows DEF FinalizeWith
<1>3. \A a : a \in Live' <=> a \in Live /\ a \notin Gone(r)
  BY <1>1, <1>2 DEF Live, Null
<1>4. RenamedIds(r) = {}
  BY DEF RenamedIds
<1>5. SweptSources(r) = Vanished
  BY <1>4 DEF SweptSources, RenamedSources
<1>6. \A a \in Live : a \in Gone(r) <=> a.src \in Vanished \/ (a.src \in changed /\ a.from < seq)
  BY <1>4, <1>5 DEF Gone, SweptIds, Superseded
<1> QED
  BY <1>2, <1>3, <1>6

LEMMA FinalizeOrderly ==
    ASSUME Typed, OrderlyProgress, Moved = {}, Finalize
    PROVE  OrderlyProgress'
<1>1. PICK r \in Renamings : FinalizeWith(r)
  BY FinalizeFacts
<1>2. /\ pc = "finalize" /\ pc' = "completed"
      /\ world' = world /\ seq' = seq /\ seq \in Nat
      /\ todo = {} /\ todo' = {} /\ seen' = seen /\ changed' = changed
  BY FinalizeFacts DEF OrderlyProgress, Halfway, Typed, ProgressTyped
<1>3. \A s \in Sources : Generations(s)' = Generations(s)
  <2> TAKE s \in Sources
  <2>1. DOMAIN art' = DOMAIN art
    BY <1>1, <1>2, UnmovedRows
  <2> QED
    BY <1>2, <2>1 DEF Generations
<1>4. \A s \in Sources : /\ s \in changed => Rewritten(s) /\ s \notin Vanished
                         /\ s \in Vanished => s \notin changed /\ Stored(s) /\ world[s] = {}
  BY <1>2 DEF OrderlyProgress, Halfway, Building, Rewritten, Vanished
<1>5. ASSUME NEW s \in Sources, s \in Vanished
      PROVE  /\ item'[s].deleted /\ item'[s].hash = item[s].hash
             /\ LivePieces(s)' = {} /\ \A a \in Live' : a.src # s
  <2>1. item'[s].deleted /\ item'[s].hash = item[s].hash
    BY <1>1, <1>5 DEF FinalizeWith, Typed, ItemsTyped
  <2>2. \A a \in Live' : a.src # s
    BY <1>1, <1>2, <1>5, UnmovedRows
  <2> QED
    BY <2>1, <2>2 DEF LivePieces
<1>6. ASSUME NEW s \in Sources, s \notin Vanished
      PROVE  item'[s] = item[s]
  BY <1>1, <1>6 DEF FinalizeWith
<1>7. ASSUME NEW s \in Sources, s \in changed
      PROVE  ServedAsRecorded(s)'
  <2>1. Rewritten(s) /\ s \notin Vanished
    BY <1>4, <1>7
  <2>2. \A a \in DOMAIN art : a.from \in Nat /\ a.from <= seq
    BY DEF Typed, ArtTyped
  <2>3. \A a : a.src = s => (a \in Live' <=> a \in DOMAIN art /\ a.from = seq)
    <3>1. \A a : a \in Live' <=> a \in Live /\ a \notin Gone(r)
      BY <1>1, <1>2, UnmovedRows
    <3>2. \A a \in Live : a.src = s => (a \in Gone(r) <=> a.from < seq)
      BY <1>1, <1>2, <1>7, <2>1, UnmovedRows
    <3>3. \A a \in DOMAIN art : a.src = s /\ a.from = seq => a \in Live
      BY <2>1 DEF Rewritten, Live
    <3>4. \A a \in Live : a \in DOMAIN art
      BY DEF Live
    <3> QED
      BY <1>2, <2>2, <3>1, <3>2, <3>3, <3>4
  <2>4. {x \in Live' : x.src = s} = {x \in DOMAIN art : x.src = s /\ x.from = seq}
    BY <2>3
  <2>5. LivePieces(s)' = Written(s, seq)
    BY <2>4 DEF LivePieces, Written
  <2>6. item'[s] = item[s] /\ item[s].hash = Written(s, seq) /\ ~item[s].deleted
    BY <1>6, <2>1 DEF Rewritten
  <2> QED
    BY <2>3, <2>5, <2>6 DEF ServedAsRecorded
<1>8. ASSUME NEW s \in Sources, s \notin changed, s \notin Vanished
      PROVE  ServedAsRecorded(s)'
  <2>1. ServedAsRecorded(s)
    BY <1>8 DEF OrderlyProgress, Recorded
  <2>2. \A a : a.src = s => (a \in Live' <=> a \in Live)
    BY <1>1, <1>2, <1>8, UnmovedRows
  <2>3. {x \in Live' : x.src = s} = {x \in Live : x.src = s}
    BY <2>2
  <2>4. LivePieces(s)' = LivePieces(s)
    BY <2>3 DEF LivePieces
  <2> QED
    BY <1>6, <1>8, <2>1, <2>2, <2>4 DEF ServedAsRecorded
<1>9. Recorded'
  BY <1>5, <1>7, <1>8 DEF Recorded, ServedAsRecorded
<1>10. History'
  <2> SUFFICES ASSUME NEW s \in Sources
               PROVE  /\ Stored(s)' => item'[s].hash \in Generations(s)'
                      /\ world'[s] # {} /\ ~IsUnchanged(s)' => world'[s] \notin Generations(s)'
                      /\ item'[s].deleted => Stored(s)' /\ ~IsUnchanged(s)'
    BY DEF History
  <2>1. /\ Stored(s) => item[s].hash \in Generations(s)
        /\ world[s] # {} /\ ~IsUnchanged(s) => world[s] \notin Generations(s)
        /\ item[s].deleted => Stored(s) /\ ~IsUnchanged(s)
    BY DEF OrderlyProgress, History
  <2>2. item'[s].hash = item[s].hash
    BY <1>5, <1>6
  <2>3. item'[s].deleted => item[s].deleted \/ s \in Vanished
    BY <1>6
  <2> QED
    BY <1>2, <1>3, <1>4, <2>1, <2>2, <2>3 DEF Stored, IsUnchanged
<1>11. Halfway'
  BY <1>2 DEF Halfway, Building
<1> QED
  BY <1>9, <1>10, <1>11 DEF OrderlyProgress

\* A content that a document is to be extracted from is not in the cache.
LEMMA NoReplay ==
    ASSUME Typed, OwnPiecesOnly, OrderlyProgress, CacheHistory,
           NEW s \in Docs, world[s] # {}, ~IsUnchanged(s)
    PROVE  ~cache[world[s]].cached
<1>0. s \in Sources /\ world[s] \in ContentsOf[s] /\ world[s] \in Contents
  BY DEF Typed, ProgressTyped, Sources, Contents
<1> SUFFICES ASSUME cache[world[s]].cached PROVE FALSE
  OBVIOUS
<1>1. PICK t \in Docs : world[s] \in Generations(t)
  BY <1>0 DEF CacheHistory
<1>2. t # s
  BY <1>0, <1>1 DEF OrderlyProgress, History
<1>3. PICK n \in 1..seq : world[s] = Written(t, n)
  BY <1>1, GenerationFacts
<1>4. PICK p \in world[s] : TRUE
  OBVIOUS
<1>5. PICK a \in DOMAIN art : a.src = t /\ a.piece = p
  BY <1>3, <1>4 DEF Written
<1>6. OwnPiece(a)
  BY DEF Typed, ArtTyped
<1>7. p \in UNION ContentsOf[t] /\ p \in UNION ContentsOf[s]
  BY <1>0, <1>4, <1>5, <1>6 DEF OwnPiece
<1> QED
  BY <1>0, <1>2, <1>7 DEF OwnPiecesOnly, Sources

LEMMA CacheHistoryStep ==
    ASSUME Typed, CacheHistory, [Next]_vars, OrderlyProgress'
    PROVE  CacheHistory'
<1>0. \A c \in Contents : c # {}
  BY ConstantsAssumption DEF Contents
<1>1. \A c \in Contents : \A s \in Docs : c \in Generations(s) => c \in Generations(s)'
  BY <1>0, GenerationsGrow DEF Sources
<1>2. CASE UNCHANGED cache
  BY <1>1, <1>2 DEF CacheHistory, CacheTyped
<1>3. ASSUME NEW X, cache' = [c \in Contents |-> [cache[c] EXCEPT !.ids = @ \ X]]
      PROVE  CacheHistory'
  <2>1. \A c \in Contents : cache'[c].cached = cache[c].cached /\ DOMAIN cache'[c] = {"cached", "ids"}
    BY <1>3 DEF CacheHistory, CacheTyped
  <2>2. CacheTyped'
    BY <1>3, <2>1 DEF CacheTyped
  <2> QED
    BY <1>1, <2>1, <2>2 DEF CacheHistory
<1>4. ASSUME NEW s \in Docs, CacheStepIs(s), world[s] \in Generations(s)'
      PROVE  CacheHistory'
  <2>1. \A c \in Contents : cache'[c] = IF c = world[s] THEN [cached |-> TRUE, ids |-> NewIds(s)]
                                        ELSE cache[c]
    BY <1>4 DEF CacheStepIs, CacheHistory, CacheTyped
  <2>2. CacheTyped'
    BY <1>4, <2>1 DEF CacheStepIs, CacheHistory, CacheTyped
  <2> QED
    BY <1>1, <1>4, <2>1, <2>2 DEF CacheHistory
<1>5. ASSUME NEW s \in Docs, CacheStepIs(s)
      PROVE  world[s] \in Generations(s)'
  <2>1. item'[s].hash = world[s] /\ world[s] # {} /\ s \in Sources
    BY <1>5 DEF CacheStepIs, Upserted, Sources
  <2> QED
    BY <2>1 DEF OrderlyProgress, History, Stored
<1> QED
  BY <1>2, <1>3, <1>4, <1>5, CacheStep

LEMMA LinksStay ==
    ASSUME Typed, UniqueLinks(edges), [Next]_vars, ~Finalize
    PROVE  UniqueLinks(edges)'
<1>1. UNCHANGED edges \/ \E A : edges' = edges \cup CodeEdges(A)
  BY EdgesStep
<1>2. Linker(edges)' = Linker(edges)
  BY <1>1, CodeEdgesTyped DEF Linker
<1> QED
  BY <1>2 DEF UniqueLinks

LEMMA OrderlyStep ==
    ASSUME OrderlyBuilds, OwnPiecesOnly, Typed, Orderly, [Next]_vars
    PROVE  Orderly'
<1>0. OrderlyProgress /\ CacheHistory /\ UniqueLinks(edges) /\ Moved = {}
  BY NothingMoves DEF Orderly, OrderlyProgress
<1>1. ASSUME NEW s \in Sources, SkipDoc(s) \/ FailDoc(s)
      PROVE  OrderlyProgress'
  <2>1. Passed
    <3>1. CASE SkipDoc(s)
      BY <3>1 DEF SkipDoc, Turn, Passed, registry
    <3>2. CASE FailDoc(s)
      BY <3>2 DEF FailDoc, Turn, Passed, registry
    <3> QED
      BY <1>1, <3>1, <3>2
  <2> QED
    BY <1>0, <2>1, PassedOrderly
<1>2. ASSUME NEW s \in Sources, ExtractDoc(s)
      PROVE  OrderlyProgress'
  <2>1. ~cache[world[s]].cached
    BY <1>0, <1>2, NoReplay DEF ExtractDoc
  <2>2. art' = WithNew(UNION {NewIds(x) : x \in {s}})
    <3>1. NewIds(s) = UNION {NewIds(x) : x \in {s}}
      OBVIOUS
    <3> QED
      BY <1>2, <2>1, <3>1 DEF ExtractDoc
  <2>3. Extracted({s}, {s})
    BY <1>2, <2>2 DEF ExtractDoc, Turn, Extracted
  <2> QED
    BY <1>0, <2>3, ExtractedOrderly
<1>3. ASSUME GraphifyTree
      PROVE  OrderlyProgress'
  <2>1. Broken = {{}}
    BY DEF OrderlyBuilds, Broken
  <2>2. {s \in Units : RepoOf[s] \notin {}} = Units
    OBVIOUS
  <2>3. /\ item' = Upserted({s \in Units : ~IsUnchanged(s)})
        /\ art' = WithNew(UNION {NewIds(s) : s \in Units})
        /\ seen' = seen \cup Units /\ changed' = changed \cup Units
    BY <1>3, <2>1, <2>2 DEF GraphifyTree
  <2>4. Extracted(Units, {s \in Units : ~IsUnchanged(s)})
    BY <1>3, <2>3 DEF GraphifyTree, Extracted, Units
  <2> QED
    BY <1>0, <2>4, ExtractedOrderly
<1>4. ASSUME KeepTree
      PROVE  OrderlyProgress'
  <2>1. Passed
    BY <1>4 DEF KeepTree, Passed, Units, registry
  <2> QED
    BY <1>0, <2>1, PassedOrderly
<1>5. ~FinalizeRaises /\ (Finalize => UniqueLinks(edges)')
  <2>1. pc = "finalize" => seq # 0
    BY DEF Typed, ProgressTyped
  <2> QED
    BY <1>0, <2>1, UnmovedNeverRaises, FinalizeFacts DEF FinalizeRaises
<1>6. ~Interrupt
  BY DEF OrderlyBuilds, Interrupt
<1>7. ASSUME Publish \/ Reject
      PROVE  OrderlyProgress'
  BY <1>0, <1>7, EndOrderly DEF Publish, Reject, registry
<1>8. ASSUME StartBuild
      PROVE  OrderlyProgress'
  BY <1>0, <1>8, StartOrderly DEF OrderlyBuilds
<1>9. ASSUME Finalize
      PROVE  OrderlyProgress'
  BY <1>0, <1>9, FinalizeOrderly
<1>10. ASSUME UNCHANGED vars
       PROVE  OrderlyProgress'
  <2>1. UNCHANGED <<world, item, art, seq, pc, todo, seen, changed>>
    BY <1>10 DEF vars, registry, progress
  <2>2. \A s \in Sources : Rewritten(s)' = Rewritten(s)
    BY <2>1, SameHistory DEF Rewritten
  <2>3. Halfway'
    BY <1>0, <2>1, <2>2, SameHistory DEF OrderlyProgress, Halfway, Building
  <2>4. Recorded' /\ History'
    BY <1>0, <2>1, SameHistory DEF OrderlyProgress, Recorded, History, Building
  <2> QED
    BY <2>3, <2>4 DEF OrderlyProgress
<1>11. OrderlyProgress'
  BY <1>1, <1>2, <1>3, <1>4, <1>5, <1>6, <1>7, <1>8, <1>9, <1>10 DEF Next
<1>12. CacheHistory'
  BY <1>0, <1>11, CacheHistoryStep
<1>13. UniqueLinks(edges)'
  BY <1>0, <1>5, LinksStay
<1> QED
  BY <1>11, <1>12, <1>13 DEF Orderly, OrderlyProgress

LEMMA OrderlyInit ==
    ASSUME Init
    PROVE  Orderly
<1>1. Halfway
  BY DEF Init, Halfway, Building
<1>2. Recorded
  BY DEF Init, Recorded, ServedAsRecorded, LivePieces, Live
<1>3. History
  BY DEF Init, History, Stored, IsUnchanged
<1>4. CacheHistory
  BY DEF Init, NoRow, CacheHistory, CacheTyped
<1>5. UniqueLinks(edges)
  BY DEF Init, UniqueLinks, Linker
<1> QED
  BY <1>1, <1>2, <1>3, <1>4, <1>5 DEF Orderly

\* Sources that never return to an old content and share no piece, and builds in which
\* nothing fails but extractions: whatever a stored hash stands for is live, a
\* completed build serves every source once and as it was recorded, and no source
\* listed with its stored content is taken for deleted.
THEOREM ServedOnceSafety ==
    ASSUME OrderlyBuilds, OwnPiecesOnly
    PROVE  Spec => []ListedIsServedOnce
<1>1. Init => Typed /\ Orderly
  BY TypedInit, OrderlyInit
<1>2. Typed /\ Orderly /\ [Next]_vars => (Typed /\ Orderly)'
  BY TypedStep, OrderlyStep
<1>3. Typed /\ Orderly => ListedIsServedOnce
  <2> SUFFICES ASSUME Typed, Orderly
               PROVE  ListedIsServedOnce
    OBVIOUS
  <2>1. CommittedKnowledgeIsLive
    <3> SUFFICES ASSUME NEW s \in Sources, ~item[s].deleted
                 PROVE  item[s].hash \subseteq LivePieces(s)
      BY DEF CommittedKnowledgeIsLive
    <3>1. CASE Building /\ s \in changed
      <4>1. Rewritten(s)
        BY <3>1 DEF Orderly, Halfway
      <4>2. \A a \in {x \in DOMAIN art : x.src = s /\ x.from = seq} : a \in {x \in Live : x.src = s}
        BY <4>1 DEF Rewritten, Live
      <4>3. Written(s, seq) \subseteq LivePieces(s)
        BY <4>2 DEF Written, LivePieces
      <4> QED
        BY <4>1, <4>3 DEF Rewritten
    <3>2. CASE ~(Building /\ s \in changed)
      BY <3>2 DEF Orderly, Recorded, ServedAsRecorded
    <3> QED
      BY <3>1, <3>2
  <2>2. EachSourceServedOnce
    <3> SUFFICES ASSUME pc = "completed", NEW s \in Sources
                 PROVE  /\ LivePieces(s) = IF item[s].deleted THEN {} ELSE item[s].hash
                        /\ \A a, b \in Live : a.src = s /\ b.src = s /\ a.piece = b.piece => a = b
      BY DEF EachSourceServedOnce
    <3>1. ServedAsRecorded(s)
      BY DEF Orderly, Recorded, Building
    <3>2. \A a \in Live : a \in Rows
      BY DEF Typed, ArtTyped, Live
    <3>3. \A a, b \in Rows : a.src = b.src /\ a.piece = b.piece /\ a.from = b.from => a = b
      BY DEF Rows
    <3> QED
      BY <3>1, <3>2, <3>3 DEF ServedAsRecorded
  <2>3. ListedSourcesAreKept
    BY DEF ListedSourcesAreKept, Orderly, History, IsUnchanged
  <2> QED
    BY <2>1, <2>2, <2>3 DEF ListedIsServedOnce
<1> QED
  BY <1>1, <1>2, <1>3, PTL DEF Spec

--------------------------------------------------------------------------------
(* Source listing: the inductive invariant *)

RemoteTyped ==
  /\ DOMAIN remote = {"trees", "pages", "head", "cards", "log"}
  /\ remote.trees \in Seq([Blobs -> Nat]) /\ Len(remote.trees) > 0
  /\ remote.pages \in [Pages -> Nat] /\ remote.cards \in [Cards -> Nat]
  /\ remote.log \in 0..Len(Shas)

ConfigTyped(cfg) ==
  /\ DOMAIN cfg = {"plan", "acl", "hidden"}
  /\ cfg.plan = config.plan /\ DOMAIN cfg.acl = ToSet(cfg.plan)
  /\ cfg.hidden \subseteq Blobs \union Pages

\* The artifacts of a source are made from the content that its row names.
RowTyped(r) ==
  /\ DOMAIN r = {"hash", "made", "ver", "acl", "live", "at"}
  /\ r.made = r.hash /\ r.at \in 0..clock /\ r.live \in BOOLEAN

\* The session differs from what is committed by what it touched.
RowsTyped ==
  /\ DOMAIN rows = Items /\ DOMAIN sess = Items
  /\ \A s \in Items :
       /\ RowTyped(rows[s]) /\ RowTyped(sess[s])
       /\ sess[s].hash = rows[s].hash /\ sess[s].ver = rows[s].ver /\ sess[s].live = rows[s].live
       /\ rows[s] = NoItem => sess[s] = NoItem
       /\ rows[s].live => FeedOf(s) \in ToSet(config.plan)

OtherTyped ==
  other = NoOther \/ /\ other.src \in Items /\ other.at \in 0..clock
                     /\ FeedOf(other.src) \in ToSet(config.plan)

Steps == {"head", "list", "revs", "fetch", "sweep"}

RunTyped ==
  /\ DOMAIN lrun = {"pc", "status", "plan", "cfg", "started", "tries", "at", "want", "refs",
                    "seen", "cut", "failed", "moved", "wrote", "fresh"}
  /\ lrun.pc \in Steps /\ lrun.status = "running"
  /\ lrun.started \in 0..clock
  /\ ConfigTyped(lrun.cfg)
  /\ lrun.plan \in Seq(Feeds) /\ ToSet(lrun.plan) \subseteq ToSet(lrun.cfg.plan)
  /\ lrun.pc # "sweep" => lrun.plan # <<>>
  /\ lrun.pc = "sweep" => lrun.plan = <<>>
  /\ lrun.pc = "head" => Feed \in {"docs", "wiki"}
  /\ lrun.pc = "revs" => Feed = "cards" /\ lrun.want \subseteq Cards
  /\ lrun.pc \in {"head", "list", "sweep"} => lrun.refs = {}
  /\ \A ref \in lrun.refs : /\ ref.src \in Items /\ FeedOf(ref.src) = Feed
                            /\ ref.src \notin lrun.cfg.hidden

\* A tree that was listed holds what the repository holds now, but for what moved.
Current(n) == n \in DOMAIN remote.trees
              /\ \A b \in Blobs \ lrun.moved : remote.trees[n][b] = CurrentTree[b]

ListingsAreCurrent ==
  /\ lrun.pc = "list" /\ Feed = "docs" => Current(lrun.at)
  /\ \A ref \in lrun.refs : ref.src \in Blobs =>
       /\ ref.ver \in DOMAIN remote.trees
       /\ ref.src \notin lrun.moved =>
            remote.trees[ref.ver][ref.src] = CurrentTree[ref.src]

\* What a build has to read, and is not done with yet.
Expected == {s \in Items : /\ FeedOf(s) \in ToSet(lrun.cfg.plan)
                           /\ s \notin lrun.cfg.hidden \union lrun.moved \union lrun.cut
                           /\ ContentNow(s) # 0}
Ahead ==
  {s \in Items :
     \/ lrun.pc \in {"head", "list"} /\ FeedOf(s) \in ToSet(lrun.plan)
     \/ lrun.pc \in {"revs", "fetch"} /\ FeedOf(s) \in ToSet(Tail(lrun.plan))
     \/ lrun.pc \in {"revs", "fetch"} /\ \E ref \in lrun.refs : ref.src = s
     \/ lrun.pc = "revs" /\ s \in lrun.want}

NothingIsMissed == Expected \subseteq lrun.seen \union lrun.failed \union Ahead

WhatIsSeenIsSo ==
  \A s \in lrun.seen :
    /\ FeedOf(s) \in ToSet(lrun.cfg.plan) /\ s \in Items \ lrun.cfg.hidden
    /\ s \notin lrun.moved \union lrun.failed \union lrun.wrote =>
         rows[s].hash = ContentNow(s) /\ ContentNow(s) # 0
    /\ lrun.failed = {} /\ s \notin lrun.wrote => sess[s].acl = AclFor(s)

\* When a row was last seen: in this build, or not.
TouchesAreTimed ==
  /\ \A s \in Items \ (lrun.seen \union lrun.failed \union lrun.wrote) :
       rows[s].at < lrun.started /\ sess[s].at < lrun.started
  /\ \A s \in lrun.failed \ (lrun.seen \union lrun.wrote) : s \in Items /\ ~rows[s].live
  /\ \A s \in lrun.fresh : /\ s \in Items /\ s \in lrun.wrote
                           /\ rows[s].at >= lrun.started /\ sess[s].at >= lrun.started
  /\ lrun.fresh # {} => other = NoOther \/ other.at > lrun.started

RunIsSound ==
  RunTyped /\ ListingsAreCurrent /\ NothingIsMissed /\ WhatIsSeenIsSo /\ TouchesAreTimed

VersionsName ==
  \A b \in Blobs : rows[b] # NoItem => /\ rows[b].ver \in DOMAIN remote.trees
                                      /\ remote.trees[rows[b].ver][b] = rows[b].hash

Begun == clock \in Nat /\ config.plan \in Seq(Feeds) /\ config.plan # <<>>

ListingInv ==
  /\ Begun /\ RemoteTyped /\ ConfigTyped(config) /\ RowsTyped /\ OtherTyped /\ VersionsName
  /\ Working => RunIsSound
  /\ ~Working => lrun.pc = "idle" /\ lrun.status \in {"none", "failed", "completed"}
  /\ CompletedBuildMirrors /\ AclLandsUndisturbed

--------------------------------------------------------------------------------
(* Kinds of sources, and plans *)

\* Ids of different services differ, so that a source has one feed and one content.
LEMMA KindsDiffer ==
  ASSUME ListingAssumption, NEW s \in Items
  PROVE  /\ FeedOf(s) \in Feeds
         /\ s \in Blobs <=> FeedOf(s) = "docs"
         /\ s \in Pages <=> FeedOf(s) = "wiki"
         /\ s \in Cards <=> FeedOf(s) = "cards"
         /\ s \in ToSet(Shas) <=> FeedOf(s) = "commits"
  BY DEF ListingAssumption, Items, FeedOf, Feeds

LEMMA ContentsAre ==
  ASSUME ListingAssumption, NEW s \in Items
  PROVE  /\ FeedOf(s) = "docs" => ContentNow(s) = CurrentTree[s]
         /\ FeedOf(s) = "wiki" => ContentNow(s) = remote.pages[s]
         /\ FeedOf(s) = "cards" => ContentNow(s) = remote.cards[s]
         /\ FeedOf(s) = "commits" => ContentNow(s) = IF s \in Committed THEN 1 ELSE 0
<1>1. /\ s \in Blobs <=> FeedOf(s) = "docs"
      /\ s \in Pages <=> FeedOf(s) = "wiki"
      /\ s \in Cards <=> FeedOf(s) = "cards"
      /\ s \in ToSet(Shas) <=> FeedOf(s) = "commits"
  BY KindsDiffer
<1>2. s \in Blobs \union Pages \union Cards \union ToSet(Shas)
  BY DEF Items
<1> HIDE DEF CurrentTree, Committed
<1> QED
  BY <1>1, <1>2 DEF ContentNow, ListingAssumption

LEMMA PlanShrinks ==
  ASSUME NEW plan \in Seq(Feeds), plan # <<>>
  PROVE  /\ Head(plan) \in Feeds /\ Tail(plan) \in Seq(Feeds)
         /\ ToSet(plan) = {Head(plan)} \union ToSet(Tail(plan))
         /\ Len(plan) = 1 => Tail(plan) = <<>>
         /\ Len(plan) # 1 => Tail(plan) # <<>> /\ Head(Tail(plan)) = plan[2]
<1>1. Len(plan) \in Nat \ {0} /\ Len(Tail(plan)) = Len(plan) - 1 /\ DOMAIN plan = 1..Len(plan)
  OBVIOUS
<1>0. Tail(plan) \in Seq(Feeds) /\ DOMAIN Tail(plan) = 1..Len(Tail(plan))
  OBVIOUS
<1>2. \A i \in 1..Len(Tail(plan)) : Tail(plan)[i] = plan[i + 1]
  OBVIOUS
<1>3. ToSet(plan) = {Head(plan)} \union ToSet(Tail(plan))
  <2>1. ASSUME NEW f \in ToSet(plan)
        PROVE  f \in {Head(plan)} \union ToSet(Tail(plan))
    <3>1. PICK i \in 1..Len(plan) : f = plan[i]
      BY <1>1 DEF ToSet
    <3>2. CASE i = 1
      BY <3>1, <3>2
    <3>3. CASE i # 1
      <4>1. i - 1 \in 1..Len(Tail(plan)) /\ Tail(plan)[i - 1] = plan[i]
        BY <1>1, <1>2, <3>1, <3>3
      <4> QED
        BY <1>0, <3>1, <4>1 DEF ToSet
    <3> QED
      BY <3>2, <3>3
  <2>2. ASSUME NEW f \in ToSet(Tail(plan))
        PROVE  f \in ToSet(plan)
    <3>1. PICK i \in 1..Len(Tail(plan)) : f = Tail(plan)[i]
      BY <1>0, <2>2 DEF ToSet
    <3>2. i + 1 \in 1..Len(plan) /\ f = plan[i + 1]
      BY <1>1, <1>2, <3>1
    <3> QED
      BY <1>1, <3>2 DEF ToSet
  <2>3. Head(plan) \in ToSet(plan)
    BY <1>1 DEF ToSet
  <2> QED
    BY <2>1, <2>2, <2>3
<1>4. Len(plan) # 1 => Head(Tail(plan)) = plan[2]
  BY <1>1, <1>2
<1>5. ASSUME NEW t \in Seq(Feeds)
      PROVE  t = <<>> <=> Len(t) = 0
  OBVIOUS
<1>6. Len(plan) = 1 <=> Tail(plan) = <<>>
  <2> DEFINE rest == Tail(plan)
  <2>1. rest \in Seq(Feeds) /\ Len(rest) = Len(plan) - 1
    BY <1>0, <1>1
  <2> HIDE DEF rest
  <2>2. rest = <<>> <=> Len(rest) = 0
    BY <1>5, <2>1
  <2>3. Len(plan) = 1 <=> rest = <<>>
    BY <1>1, <2>1, <2>2
  <2> QED
    BY <2>3 DEF rest
<1>7. Head(plan) \in Feeds
  BY <1>1
<1> QED
  BY <1>0, <1>3, <1>4, <1>6, <1>7

\* Content and access of a row that was only touched.
LEMMA TouchedRow ==
  ASSUME NEW g, DOMAIN g = Items, NEW s \in Items,
         DOMAIN g[s] = {"hash", "made", "ver", "acl", "live", "at"}
  PROVE  /\ DOMAIN Touched(g, s) = Items
         /\ \A t \in Items : t # s => Touched(g, s)[t] = g[t]
         /\ g[s] = NoItem => Touched(g, s)[s] = g[s]
         /\ g[s] # NoItem => /\ DOMAIN Touched(g, s)[s] = DOMAIN g[s]
                            /\ Touched(g, s)[s].hash = g[s].hash
                            /\ Touched(g, s)[s].made = g[s].made
                            /\ Touched(g, s)[s].ver = g[s].ver
                            /\ Touched(g, s)[s].live = g[s].live
                            /\ Touched(g, s)[s].acl = AclFor(s)
                            /\ Touched(g, s)[s].at = lrun.started
<1>1. CASE g[s] = NoItem
  <2>1. Touched(g, s) = g
    BY <1>1 DEF Touched
  <2> QED
    BY <1>1, <2>1
<1>2. CASE g[s] # NoItem
  <2>1. Touched(g, s) = [g EXCEPT ![s].at = lrun.started, ![s].acl = AclFor(s)]
    BY <1>2 DEF Touched
  <2> HIDE DEF Touched, AclFor
  <2> QED
    BY <1>2, <2>1
<1> QED
  BY <1>1, <1>2

LEMMA StoredRow ==
  ASSUME NEW g, DOMAIN g = Items, NEW ref, ref.src \in Items
  PROVE  /\ DOMAIN ItemStored(g, ref) = Items
         /\ \A t \in Items : t # ref.src => ItemStored(g, ref)[t] = g[t]
         /\ ItemStored(g, ref)[ref.src]
              = [hash |-> TextOf(ref), made |-> TextOf(ref), ver |-> ref.ver,
                 acl |-> AclFor(ref.src), live |-> TRUE, at |-> lrun.started]
  BY DEF ItemStored

--------------------------------------------------------------------------------
(* Steps that end a build, and steps of its listings *)

LEMMA GivingUp ==
  ASSUME ListingInv, Working, sess' = rows, UNCHANGED <<remote, config, rows, other, clock>>,
         lrun'.pc = "idle", lrun'.status = "failed"
  PROVE  ListingInv'
<1>1. RowsTyped'
  BY DEF ListingInv, RowsTyped, RowTyped
<1>2. /\ Begun' /\ RemoteTyped' /\ ConfigTyped(config)' /\ OtherTyped' /\ VersionsName'
  BY DEF ListingInv, Begun, RemoteTyped, ConfigTyped, OtherTyped, VersionsName
<1> QED
  BY <1>1, <1>2 DEF ListingInv, Working, CompletedBuildMirrors, AclLandsUndisturbed

\* What a step of a listing leaves alone.
ListsOnly ==
  /\ UNCHANGED <<remote, config, rows, sess, other, clock>>
  /\ DOMAIN lrun' = DOMAIN lrun /\ lrun'.status = lrun.status /\ lrun'.cfg = lrun.cfg
  /\ lrun'.started = lrun.started /\ lrun'.seen = lrun.seen /\ lrun'.failed = lrun.failed
  /\ lrun'.moved = lrun.moved /\ lrun'.wrote = lrun.wrote /\ lrun'.fresh = lrun.fresh

LEMMA Listing ==
  ASSUME ListingInv, Working, ListsOnly, RunTyped', ListingsAreCurrent', NothingIsMissed'
  PROVE  ListingInv'
<1>1. /\ Begun' /\ RemoteTyped' /\ ConfigTyped(config)' /\ OtherTyped' /\ VersionsName'
      /\ RowsTyped'
  BY DEF ListsOnly, ListingInv, Begun, RemoteTyped, ConfigTyped, OtherTyped, VersionsName,
         RowsTyped, RowTyped
<1>2. WhatIsSeenIsSo'
  <2>1. \A s : ContentNow(s)' = ContentNow(s) /\ AclFor(s)' = AclFor(s)
    BY DEF ListsOnly, ContentNow, CurrentTree, Committed, AclFor
  <2> QED
    BY <2>1 DEF ListsOnly, ListingInv, RunIsSound, WhatIsSeenIsSo
<1>3. TouchesAreTimed'
  BY DEF ListsOnly, ListingInv, RunIsSound, TouchesAreTimed
<1>4. lrun'.status = "running" /\ Working'
  BY DEF RunTyped, Working, Steps
<1> QED
  BY <1>1, <1>2, <1>3, <1>4
     DEF ListingInv, RunIsSound, CompletedBuildMirrors, AclLandsUndisturbed

LEMMA StillAhead ==
  ASSUME ListingInv, Working, ListsOnly, lrun.cut \subseteq lrun'.cut,
         \A s \in Expected : s \in Ahead /\ s \notin lrun'.cut => s \in Ahead'
  PROVE  NothingIsMissed'
<1>1. \A s : ContentNow(s)' = ContentNow(s)
  BY DEF ListsOnly, ContentNow, CurrentTree, Committed
<1>2. Expected' \subseteq {s \in Expected : s \notin lrun'.cut}
  BY <1>1 DEF ListsOnly, Expected
<1>3. Expected \subseteq lrun.seen \union lrun.failed \union Ahead
  BY DEF ListingInv, RunIsSound, NothingIsMissed
<1> HIDE DEF Ahead, Expected
<1>4. lrun'.seen = lrun.seen /\ lrun'.failed = lrun.failed
  BY DEF ListsOnly
<1> QED
  BY <1>2, <1>3, <1>4 DEF NothingIsMissed

LEMMA RunHolds ==
  ASSUME ListingInv, Working
  PROVE  RunTyped /\ ListingsAreCurrent /\ NothingIsMissed /\ WhatIsSeenIsSo /\ TouchesAreTimed
  BY DEF ListingInv, RunIsSound

LEMMA RetryStep ==
  ASSUME ListingInv, Retry
  PROVE  ListingInv'
<1>1. Working /\ RunTyped /\ ListingsAreCurrent
  BY RunHolds DEF Retry, InFlight
<1>2. /\ lrun' = [lrun EXCEPT !.tries = @ + 1]
      /\ UNCHANGED <<remote, config, rows, sess, other, clock>>
  BY DEF Retry
<1>3. /\ DOMAIN lrun' = DOMAIN lrun
      /\ lrun'.pc = lrun.pc /\ lrun'.status = lrun.status /\ lrun'.plan = lrun.plan
      /\ lrun'.cfg = lrun.cfg /\ lrun'.started = lrun.started /\ lrun'.at = lrun.at
      /\ lrun'.want = lrun.want /\ lrun'.refs = lrun.refs /\ lrun'.seen = lrun.seen
      /\ lrun'.cut = lrun.cut /\ lrun'.failed = lrun.failed /\ lrun'.moved = lrun.moved
      /\ lrun'.wrote = lrun.wrote /\ lrun'.fresh = lrun.fresh
  BY <1>1, <1>2 DEF RunTyped
<1>4. ListsOnly
  BY <1>2, <1>3 DEF ListsOnly
<1>5. RunTyped' /\ ListingsAreCurrent'
  BY <1>1, <1>2, <1>3 DEF RunTyped, Feed, ConfigTyped, ListingsAreCurrent, Current, CurrentTree
<1>6. NothingIsMissed'
  BY <1>1, <1>3, <1>4, StillAhead DEF Ahead
<1> QED
  BY <1>1, <1>4, <1>5, <1>6, Listing

LEMMA ResolveHeadStep ==
  ASSUME ListingInv, ResolveHead
  PROVE  ListingInv'
<1>1. Working /\ RunTyped /\ ListingsAreCurrent /\ lrun.pc = "head"
  BY RunHolds DEF ResolveHead
<1> DEFINE at == IF Feed = "docs" THEN Len(remote.trees) ELSE remote.head
<1>2. /\ lrun' = [lrun EXCEPT !.pc = "list", !.tries = 0, !.at = at]
      /\ UNCHANGED <<remote, config, rows, sess, other, clock>>
  BY DEF ResolveHead
<1>3. Feed = "docs" => at \in DOMAIN remote.trees /\ CurrentTree = remote.trees[at]
  BY DEF ListingInv, RemoteTyped, CurrentTree, Last
<1> HIDE DEF at
<1>4. /\ DOMAIN lrun' = DOMAIN lrun
      /\ lrun'.pc = "list" /\ lrun'.status = lrun.status /\ lrun'.plan = lrun.plan
      /\ lrun'.cfg = lrun.cfg /\ lrun'.started = lrun.started /\ lrun'.at = at
      /\ lrun'.want = lrun.want /\ lrun'.refs = lrun.refs /\ lrun'.seen = lrun.seen
      /\ lrun'.cut = lrun.cut /\ lrun'.failed = lrun.failed /\ lrun'.moved = lrun.moved
      /\ lrun'.wrote = lrun.wrote /\ lrun'.fresh = lrun.fresh
  BY <1>1, <1>2 DEF RunTyped
<1>5. ListsOnly
  BY <1>2, <1>4 DEF ListsOnly
<1>6. RunTyped'
  BY <1>1, <1>2, <1>4 DEF RunTyped, Feed, ConfigTyped, Steps
<1>7. ListingsAreCurrent'
  BY <1>1, <1>2, <1>3, <1>4 DEF RunTyped, ListingsAreCurrent, Current, CurrentTree, Feed
<1>8. NothingIsMissed'
  BY <1>1, <1>4, <1>5, StillAhead DEF Ahead
<1> QED
  BY <1>1, <1>5, <1>6, <1>7, <1>8, Listing

\* A listing is taken in: what its feed holds, what the service left out, and what the path
\* filter left, unless it moved (list_sources of every connector).
LEMMA TakesIn ==
  ASSUME ListingAssumption, ListingInv, Working, ListsOnly, lrun.pc = "list",
         lrun'.pc = "fetch", lrun'.plan = lrun.plan, lrun.cut \subseteq lrun'.cut,
         \A ref \in lrun'.refs :
           /\ ref.src \in Items /\ FeedOf(ref.src) = Feed /\ ref.src \notin lrun.cfg.hidden
           /\ ref.src \in Blobs => /\ ref.ver \in DOMAIN remote.trees
                                   /\ ref.src \notin lrun.moved =>
                                        remote.trees[ref.ver][ref.src] = CurrentTree[ref.src],
         \A s \in Expected : FeedOf(s) = Feed /\ s \notin lrun'.cut =>
           \E ref \in lrun'.refs : ref.src = s
  PROVE  ListingInv'
<1>1. RunTyped
  BY RunHolds
<1>2. RunTyped'
  BY <1>1 DEF RunTyped, Feed, ListsOnly, ConfigTyped, Steps
<1>3. ListingsAreCurrent'
  BY DEF ListingsAreCurrent, CurrentTree, ListsOnly
<1>4. lrun.plan \in Seq(Feeds) /\ lrun.plan # <<>>
  BY <1>1 DEF RunTyped
<1>5. ASSUME NEW s \in Expected, s \in Ahead, s \notin lrun'.cut
      PROVE  s \in Ahead'
  <2>1. s \in Items /\ FeedOf(s) \in ToSet(lrun.plan)
    BY <1>1, <1>5 DEF Ahead, RunTyped
  <2>2. CASE FeedOf(s) = Feed
    BY <1>5, <2>1, <2>2 DEF Ahead
  <2>3. CASE FeedOf(s) # Feed
    <3>1. FeedOf(s) \in ToSet(Tail(lrun.plan))
      BY <1>4, <2>1, <2>3, PlanShrinks DEF Feed
    <3> QED
      BY <2>1, <3>1 DEF Ahead
  <2> QED
    BY <2>2, <2>3
<1>6. NothingIsMissed'
  BY <1>5, StillAhead
<1> QED
  BY <1>2, <1>3, <1>6, Listing

LEMMA PicksSome ==
  ASSUME NEW S, NEW n, NEW T \in Pick(S, n)
  PROVE  T \subseteq S
  BY DEF Pick

\* The fields of a run that a listing writes.
LEMMA ListedRun ==
  ASSUME ListingInv, Working, NEW refs, NEW cut, NEW turn, NEW tries,
         lrun' = [lrun EXCEPT !.pc = turn, !.tries = tries, !.cut = cut, !.refs = refs],
         UNCHANGED <<remote, config, rows, sess, other, clock>>
  PROVE  /\ ListsOnly /\ lrun'.pc = turn /\ lrun'.plan = lrun.plan /\ lrun'.cut = cut
         /\ lrun'.refs = refs
<1>1. RunTyped
  BY RunHolds
<1> QED
  BY <1>1 DEF RunTyped, ListsOnly

LEMMA ListTreeStep ==
  ASSUME ListingAssumption, ListingInv, ListTree
  PROVE  ListingInv'
<1>1. /\ Working /\ lrun.pc = "list" /\ Feed = "docs" /\ Current(lrun.at)
      /\ UNCHANGED <<remote, config, rows, sess, other, clock>>
  BY RunHolds DEF ListTree, ListingsAreCurrent
<1> DEFINE present == {b \in Blobs : remote.trees[lrun.at][b] # 0}
<1>2. PICK kept \in Pick(present, TreeCap) : lrun' = WithListing(kept, present \ kept)
  BY DEF ListTree
<1>3. kept \subseteq present
  BY PicksSome
<1> DEFINE refs == {[src |-> s, ver |-> lrun.at] : s \in kept \ lrun.cfg.hidden}
           cut == lrun.cut \union (present \ kept)
<1>4. lrun' = [lrun EXCEPT !.pc = "fetch", !.tries = 0, !.cut = cut, !.refs = refs]
  BY <1>2 DEF WithListing
<1> HIDE DEF refs, cut
<1>5. /\ ListsOnly /\ lrun'.pc = "fetch" /\ lrun'.plan = lrun.plan /\ lrun'.cut = cut
      /\ lrun'.refs = refs
  BY <1>1, <1>4, ListedRun
<1>6. ASSUME NEW ref \in refs
      PROVE  /\ ref.src \in Items /\ FeedOf(ref.src) = Feed /\ ref.src \notin lrun.cfg.hidden
             /\ ref.src \in Blobs => /\ ref.ver \in DOMAIN remote.trees
                                     /\ ref.src \notin lrun.moved =>
                                          remote.trees[ref.ver][ref.src] = CurrentTree[ref.src]
  <2>1. ref.src \in Blobs /\ ref.src \notin lrun.cfg.hidden /\ ref.ver = lrun.at
    BY <1>3 DEF refs
  <2>2. ref.src \in Items /\ FeedOf(ref.src) = "docs"
    BY <2>1, KindsDiffer DEF Items
  <2> QED
    BY <1>1, <2>1, <2>2 DEF Current
<1>7. ASSUME NEW s \in Expected, FeedOf(s) = Feed, s \notin cut
      PROVE  \E ref \in refs : ref.src = s
  <2>1. /\ s \in Items /\ s \in Blobs /\ s \notin lrun.moved /\ s \notin lrun.cfg.hidden
        /\ ContentNow(s) # 0 /\ ContentNow(s) = CurrentTree[s]
    BY <1>1, <1>7, KindsDiffer, ContentsAre DEF Expected
  <2>2. s \in present
    BY <1>1, <2>1 DEF Current
  <2>3. s \in kept \ lrun.cfg.hidden
    BY <1>7, <2>1, <2>2 DEF cut
  <2>4. [src |-> s, ver |-> lrun.at] \in refs
    BY <2>3 DEF refs
  <2> QED
    BY <2>4
<1>8. lrun.cut \subseteq cut
  BY DEF cut
<1> QED
  BY <1>1, <1>5, <1>6, <1>7, <1>8, TakesIn

LEMMA ListPagesStep ==
  ASSUME ListingAssumption, ListingInv, ListPages
  PROVE  ListingInv'
<1>1. /\ Working /\ lrun.pc = "list" /\ Feed = "wiki"
      /\ UNCHANGED <<remote, config, rows, sess, other, clock>>
  BY DEF ListPages
<1> DEFINE present == {p \in Pages : remote.pages[p] # 0}
           refs == {[src |-> s, ver |-> lrun.at] : s \in present \ lrun.cfg.hidden}
           cut == lrun.cut \union {}
<1>2. lrun' = [lrun EXCEPT !.pc = "fetch", !.tries = 0, !.cut = cut, !.refs = refs]
  BY DEF ListPages, WithListing
<1> HIDE DEF refs, cut
<1>3. /\ ListsOnly /\ lrun'.pc = "fetch" /\ lrun'.plan = lrun.plan /\ lrun'.cut = cut
      /\ lrun'.refs = refs
  BY <1>1, <1>2, ListedRun
<1>4. ASSUME NEW ref \in refs
      PROVE  /\ ref.src \in Items /\ FeedOf(ref.src) = Feed /\ ref.src \notin lrun.cfg.hidden
             /\ ref.src \notin Blobs
  <2>1. ref.src \in Pages /\ ref.src \notin lrun.cfg.hidden
    BY DEF refs
  <2>2. ref.src \in Items /\ FeedOf(ref.src) = "wiki" /\ ref.src \notin Blobs
    BY <2>1, KindsDiffer DEF Items
  <2> QED
    BY <1>1, <2>1, <2>2
<1>5. ASSUME NEW s \in Expected, FeedOf(s) = Feed
      PROVE  \E ref \in refs : ref.src = s
  <2>1. /\ s \in Pages /\ s \notin lrun.cfg.hidden
        /\ ContentNow(s) # 0 /\ ContentNow(s) = remote.pages[s]
    BY <1>1, <1>5, KindsDiffer, ContentsAre DEF Expected
  <2>2. [src |-> s, ver |-> lrun.at] \in refs
    BY <2>1 DEF refs
  <2> QED
    BY <2>2
<1>6. lrun.cut \subseteq cut
  BY DEF cut
<1> QED
  BY <1>1, <1>3, <1>4, <1>5, <1>6, TakesIn

LEMMA ListCommitsStep ==
  ASSUME ListingAssumption, ListingInv, ListCommits
  PROVE  ListingInv'
<1>1. /\ Working /\ lrun.pc = "list" /\ Feed = "commits" /\ RunTyped
      /\ UNCHANGED <<remote, config, rows, sess, other, clock>>
  BY RunHolds DEF ListCommits
<1> DEFINE recent == {Shas[i] : i \in {j \in 1..remote.log : j > remote.log - Window}}
           all == {[src |-> s, ver |-> 1] : s \in recent}
<1>2. PICK some \in {TRUE, FALSE} :
        lrun' = [lrun EXCEPT !.pc = "fetch",
                   !.cut = @ \union (IF some THEN Committed \ recent ELSE Committed),
                   !.refs = IF some THEN all ELSE {}]
  <2>1. CASE lrun' = [lrun EXCEPT !.pc = "fetch", !.cut = @ \union (Committed \ recent),
                                  !.refs = all]
    BY <2>1
  <2>2. CASE lrun' = [lrun EXCEPT !.pc = "fetch", !.cut = @ \union Committed, !.refs = {}]
    BY <2>2
  <2> QED
    BY <2>1, <2>2 DEF ListCommits
<1> DEFINE refs == IF some THEN all ELSE {}
           cut == lrun.cut \union (IF some THEN Committed \ recent ELSE Committed)
<1>3. lrun' = [lrun EXCEPT !.pc = "fetch", !.cut = cut, !.refs = refs]
  BY <1>2
<1> HIDE DEF refs, cut
<1>4. /\ ListsOnly /\ lrun'.pc = "fetch" /\ lrun'.plan = lrun.plan /\ lrun'.cut = cut
      /\ lrun'.refs = refs
  BY <1>1, <1>3 DEF RunTyped, ListsOnly
<1>5. recent \subseteq ToSet(Shas)
  <2>1. DOMAIN Shas = 1..Len(Shas) /\ remote.log \in 0..Len(Shas) /\ Len(Shas) \in Nat
    BY DEF ListingAssumption, ListingInv, RemoteTyped
  <2> QED
    BY <2>1 DEF ToSet
<1>6. ASSUME NEW ref \in refs
      PROVE  /\ ref.src \in Items /\ FeedOf(ref.src) = Feed /\ ref.src \notin lrun.cfg.hidden
             /\ ref.src \notin Blobs
  <2>1. ref.src \in ToSet(Shas)
    BY <1>5 DEF refs
  <2>2. ref.src \in Items /\ FeedOf(ref.src) = "commits"
    BY <2>1, KindsDiffer DEF Items
  <2>3. ref.src \notin Blobs /\ ref.src \notin Pages
    BY <2>2, KindsDiffer
  <2> QED
    BY <1>1, <2>2, <2>3 DEF RunTyped, ConfigTyped
<1>7. ASSUME NEW s \in Expected, FeedOf(s) = Feed, s \notin cut
      PROVE  \E ref \in refs : ref.src = s
  <2>1. s \in Committed
    BY <1>1, <1>7, ContentsAre DEF Expected
  <2>2. some /\ s \in recent
    BY <1>7, <2>1 DEF cut
  <2>3. [src |-> s, ver |-> 1] \in refs
    BY <2>2 DEF refs
  <2> QED
    BY <2>3
<1>8. lrun.cut \subseteq cut
  BY DEF cut
<1> QED
  BY <1>1, <1>4, <1>6, <1>7, <1>8, TakesIn

LEMMA ListIdsStep ==
  ASSUME ListingAssumption, ListingInv, ListIds
  PROVE  ListingInv'
<1>1. /\ Working /\ lrun.pc = "list" /\ Feed = "cards" /\ RunTyped /\ lrun.refs = {}
      /\ UNCHANGED <<remote, config, rows, sess, other, clock>>
  BY RunHolds DEF ListIds, RunTyped
<1> DEFINE present == {k \in Cards : remote.cards[k] # 0}
<1>2. PICK kept \in Pick(present, CardCap) :
        lrun' = [lrun EXCEPT !.pc = IF kept = {} THEN "fetch" ELSE "revs", !.tries = 0,
                             !.want = kept, !.cut = @ \union (present \ kept)]
  BY DEF ListIds
<1>3. kept \subseteq present
  BY PicksSome
<1> DEFINE turn == IF kept = {} THEN "fetch" ELSE "revs"
           cut == lrun.cut \union (present \ kept)
<1>4. lrun' = [lrun EXCEPT !.pc = turn, !.tries = 0, !.want = kept, !.cut = cut]
  BY <1>2
<1>5. turn \in {"fetch", "revs"} /\ (turn = "fetch" => kept = {})
  OBVIOUS
<1> HIDE DEF turn, cut
<1>6. /\ ListsOnly /\ lrun'.pc = turn /\ lrun'.plan = lrun.plan /\ lrun'.cut = cut
      /\ lrun'.refs = {} /\ lrun'.want = kept
  BY <1>1, <1>4 DEF RunTyped, ListsOnly
<1>7. RunTyped'
  BY <1>1, <1>3, <1>5, <1>6 DEF RunTyped, Feed, ListsOnly, ConfigTyped, Steps
<1>8. ListingsAreCurrent'
  BY <1>5, <1>6 DEF ListingsAreCurrent
<1>9. lrun.plan \in Seq(Feeds) /\ lrun.plan # <<>>
  BY <1>1 DEF RunTyped
<1>10. ASSUME NEW s \in Expected, s \in Ahead, s \notin cut
       PROVE  s \in Ahead'
  <2>1. s \in Items /\ FeedOf(s) \in ToSet(lrun.plan)
    BY <1>1, <1>10 DEF Ahead
  <2>2. CASE FeedOf(s) = Feed
    <3>1. s \in Cards /\ ContentNow(s) # 0 /\ ContentNow(s) = remote.cards[s]
      BY <1>1, <2>1, <2>2, KindsDiffer, ContentsAre DEF Expected
    <3>2. s \in kept
      BY <1>10, <3>1 DEF cut
    <3>3. turn = "revs"
      BY <1>5, <3>2
    <3> QED
      BY <1>6, <2>1, <3>2, <3>3 DEF Ahead
  <2>3. CASE FeedOf(s) # Feed
    <3>1. FeedOf(s) \in ToSet(Tail(lrun.plan))
      BY <1>9, <2>1, <2>3, PlanShrinks DEF Feed
    <3> QED
      BY <1>5, <1>6, <2>1, <3>1 DEF Ahead
  <2> QED
    BY <2>2, <2>3
<1>11. NothingIsMissed'
  <2>1. lrun.cut \subseteq lrun'.cut
    BY <1>6 DEF cut
  <2> QED
    BY <1>1, <1>6, <1>10, <2>1, StillAhead
<1> QED
  BY <1>1, <1>6, <1>7, <1>8, <1>11, Listing

LEMMA ListRevisionsStep ==
  ASSUME ListingAssumption, ListingInv, ListRevisions
  PROVE  ListingInv'
<1>1. /\ Working /\ lrun.pc = "revs" /\ Feed = "cards" /\ RunTyped /\ lrun.want \subseteq Cards
      /\ ListingsAreCurrent
      /\ UNCHANGED <<remote, config, rows, sess, other, clock>>
  BY RunHolds DEF ListRevisions, RunTyped
<1>2. PICK ids \in Pick(lrun.want, Batch) : \E bad \in SUBSET ids :
        lrun' = [lrun EXCEPT
          !.pc = IF lrun.want \ ids = {} THEN "fetch" ELSE "revs", !.tries = 0,
          !.want = lrun.want \ ids, !.cut = @ \union bad,
          !.refs = @ \union {[src |-> k, ver |-> remote.cards[k]]
                               : k \in {c \in ids \ bad : remote.cards[c] # 0}}]
  BY DEF ListRevisions
<1>3. PICK bad \in SUBSET ids :
        lrun' = [lrun EXCEPT
          !.pc = IF lrun.want \ ids = {} THEN "fetch" ELSE "revs", !.tries = 0,
          !.want = lrun.want \ ids, !.cut = @ \union bad,
          !.refs = @ \union {[src |-> k, ver |-> remote.cards[k]]
                               : k \in {c \in ids \ bad : remote.cards[c] # 0}}]
  BY <1>2
<1>4. ids \subseteq lrun.want
  BY PicksSome
<1> DEFINE turn == IF lrun.want \ ids = {} THEN "fetch" ELSE "revs"
           rest == lrun.want \ ids
           cut == lrun.cut \union bad
           found == {[src |-> k, ver |-> remote.cards[k]]
                       : k \in {c \in ids \ bad : remote.cards[c] # 0}}
           refs == lrun.refs \union found
<1>5. lrun' = [lrun EXCEPT !.pc = turn, !.tries = 0, !.want = rest, !.cut = cut, !.refs = refs]
  BY <1>3
<1>6. turn \in {"fetch", "revs"} /\ (turn = "fetch" => rest = {}) /\ lrun.cut \subseteq cut
  OBVIOUS
<1>7. \A ref \in found : ref.src \in Cards
  BY <1>1, <1>4
<1>8. \A s \in ids : s \notin bad /\ remote.cards[s] # 0 => \E ref \in found : ref.src = s
  <2> SUFFICES ASSUME NEW s \in ids, s \notin bad, remote.cards[s] # 0
               PROVE  \E ref \in found : ref.src = s
    OBVIOUS
  <2>1. [src |-> s, ver |-> remote.cards[s]] \in found
    OBVIOUS
  <2> HIDE DEF found
  <2> QED
    BY <2>1
<1> HIDE DEF turn, found
<1>9. /\ ListsOnly /\ lrun'.pc = turn /\ lrun'.plan = lrun.plan /\ lrun'.cut = cut
      /\ lrun'.refs = refs /\ lrun'.want = rest
  <2> HIDE DEF cut, refs, rest
  <2> QED
    BY <1>1, <1>5 DEF RunTyped, ListsOnly
<1>10. \A ref \in found : /\ ref.src \in Items /\ FeedOf(ref.src) = "cards"
                          /\ ref.src \notin lrun.cfg.hidden /\ ref.src \notin Blobs
  <2> SUFFICES ASSUME NEW ref \in found
               PROVE  /\ ref.src \in Items /\ FeedOf(ref.src) = "cards"
                      /\ ref.src \notin lrun.cfg.hidden /\ ref.src \notin Blobs
    OBVIOUS
  <2>1. ref.src \in Items /\ FeedOf(ref.src) = "cards"
    BY <1>7, KindsDiffer DEF Items
  <2>2. ref.src \notin Blobs /\ ref.src \notin Pages
    BY <2>1, KindsDiffer
  <2> QED
    BY <1>1, <2>1, <2>2 DEF RunTyped, ConfigTyped
<1>11. RunTyped'
  BY <1>1, <1>6, <1>9, <1>10 DEF RunTyped, Feed, ListsOnly, ConfigTyped, Steps
<1>12. ListingsAreCurrent'
  BY <1>1, <1>6, <1>9, <1>10 DEF ListingsAreCurrent, ListsOnly, CurrentTree
<1>13. ASSUME NEW s \in Expected, s \in Ahead, s \notin cut
       PROVE  s \in Ahead'
  <2>1. s \in Items /\ ContentNow(s) # 0
    BY DEF Expected
  <2>2. CASE FeedOf(s) \in ToSet(Tail(lrun.plan)) \/ \E ref \in lrun.refs : ref.src = s
    BY <1>6, <1>9, <2>1, <2>2 DEF Ahead
  <2>3. CASE s \in lrun.want /\ s \notin ids
    <3>1. turn = "revs"
      BY <1>6, <2>3
    <3> QED
      BY <1>9, <2>1, <2>3, <3>1 DEF Ahead
  <2>4. CASE s \in ids
    <3>1. FeedOf(s) = "cards" /\ remote.cards[s] # 0
      BY <1>1, <1>4, <2>1, <2>4, KindsDiffer, ContentsAre
    <3>2. s \notin bad
      BY <1>13
    <3>3. \E ref \in refs : ref.src = s
      BY <1>8, <2>4, <3>1, <3>2
    <3> QED
      BY <1>6, <1>9, <2>1, <3>3 DEF Ahead
  <2>5. \/ FeedOf(s) \in ToSet(Tail(lrun.plan)) \/ \E ref \in lrun.refs : ref.src = s
        \/ s \in lrun.want
    BY <1>1, <1>13 DEF Ahead
  <2> QED
    BY <2>2, <2>3, <2>4, <2>5
<1>14. NothingIsMissed'
  BY <1>1, <1>6, <1>9, <1>13, StillAhead
<1> QED
  BY <1>1, <1>9, <1>11, <1>12, <1>14, Listing

LEMMA NextFeedStep ==
  ASSUME ListingAssumption, ListingInv, NextFeed
  PROVE  ListingInv'
<1>1. /\ Working /\ lrun.pc = "fetch" /\ lrun.refs = {} /\ RunTyped
      /\ UNCHANGED <<remote, config, rows, sess, other, clock>>
  BY RunHolds DEF NextFeed, Listed
<1> DEFINE rest == Tail(lrun.plan)
           turn == IF Len(lrun.plan) = 1 THEN "sweep" ELSE FirstStep(lrun.plan[2])
<1>2. /\ rest \in Seq(Feeds) /\ ToSet(rest) \subseteq ToSet(lrun.plan)
      /\ Len(lrun.plan) = 1 => rest = <<>>
      /\ Len(lrun.plan) # 1 => rest # <<>> /\ Head(rest) = lrun.plan[2]
  BY <1>1, PlanShrinks DEF RunTyped
<1>3. lrun' = [lrun EXCEPT !.plan = rest, !.at = 0, !.pc = turn]
  BY DEF NextFeed
<1>4. /\ turn \in {"sweep", "head", "list"}
      /\ turn = "sweep" <=> rest = <<>>
      /\ turn = "head" <=> rest # <<>> /\ Head(rest) \in {"docs", "wiki"}
  BY <1>2 DEF FirstStep
<1> HIDE DEF rest, turn
<1>5. /\ ListsOnly /\ lrun'.pc = turn /\ lrun'.plan = rest /\ lrun'.cut = lrun.cut
      /\ lrun'.refs = {} /\ lrun'.want = lrun.want
  BY <1>1, <1>3 DEF RunTyped, ListsOnly
<1>6. RunTyped'
  BY <1>1, <1>2, <1>4, <1>5 DEF RunTyped, Feed, ListsOnly, ConfigTyped, Steps
<1>7. ListingsAreCurrent'
  BY <1>4, <1>5 DEF ListingsAreCurrent, Feed
<1>8. ASSUME NEW s \in Ahead
      PROVE  s \in Ahead'
  <2>1. s \in Items /\ FeedOf(s) \in ToSet(rest)
    BY <1>1 DEF Ahead, rest
  <2>2. rest # <<>>
    BY <2>1 DEF ToSet
  <2> QED
    BY <1>4, <1>5, <2>1, <2>2 DEF Ahead
<1>9. NothingIsMissed'
  BY <1>1, <1>5, <1>8, StillAhead
<1> QED
  BY <1>1, <1>5, <1>6, <1>7, <1>9, Listing

--------------------------------------------------------------------------------
(* The beginning and the failures of a build *)

LEMMA EndsStep ==
  ASSUME ListingInv, RequestFails \/ BuildBreaks \/ \E ref \in Listed : FetchFindsNothing(ref)
  PROVE  ListingInv'
<1>1. Working /\ RunTyped
  BY RunHolds DEF RequestFails, InFlight, BuildBreaks, Listed
<1>2. /\ lrun' = [lrun EXCEPT !.pc = "idle", !.status = "failed"] /\ sess' = rows
      /\ UNCHANGED <<remote, config, rows, other, clock>>
  BY DEF RequestFails, BuildBreaks, FetchFindsNothing, GivesUp, RollsBack
<1>3. lrun'.pc = "idle" /\ lrun'.status = "failed"
  BY <1>1, <1>2 DEF RunTyped
<1> QED
  BY <1>1, <1>2, <1>3, GivingUp

LEMMA OpenedStep ==
  ASSUME ListingInv, Opened
  PROVE  ListingInv'
<1>1. /\ clock' = clock + 1 /\ clock \in Nat /\ sess' = rows
      /\ UNCHANGED <<remote, config, rows, other>>
  BY DEF Opened, ListingInv, Begun
<1>2. lrun' = [pc |-> FirstStep(Head(config.plan)), status |-> "running", plan |-> config.plan,
               cfg |-> config, started |-> clock + 1, tries |-> 0, at |-> 0, want |-> {},
               refs |-> {}, seen |-> {}, cut |-> {}, failed |-> {}, moved |-> {}, wrote |-> {},
               fresh |-> {}]
  BY DEF Opened
<1>3. /\ DOMAIN lrun' = {"pc", "status", "plan", "cfg", "started", "tries", "at", "want", "refs",
                         "seen", "cut", "failed", "moved", "wrote", "fresh"}
      /\ lrun'.pc = FirstStep(Head(config.plan)) /\ lrun'.status = "running"
      /\ lrun'.plan = config.plan /\ lrun'.cfg = config /\ lrun'.started = clock + 1
      /\ lrun'.refs = {} /\ lrun'.seen = {} /\ lrun'.failed = {} /\ lrun'.moved = {}
      /\ lrun'.wrote = {} /\ lrun'.fresh = {} /\ lrun'.cut = {}
  BY <1>2
<1>4. /\ lrun'.pc \in {"head", "list"}
      /\ lrun'.pc = "head" <=> Head(config.plan) \in {"docs", "wiki"}
  BY <1>3 DEF FirstStep
<1>5. /\ Begun' /\ RemoteTyped' /\ ConfigTyped(config)' /\ VersionsName'
  BY <1>1 DEF ListingInv, Begun, RemoteTyped, ConfigTyped, VersionsName
<1>6. RowsTyped' /\ OtherTyped'
  BY <1>1 DEF ListingInv, RowsTyped, RowTyped, OtherTyped
<1>7. RunTyped'
  BY <1>1, <1>3, <1>4 DEF ListingInv, Begun, RunTyped, ConfigTyped, Feed, Steps
<1>8. ListingsAreCurrent' /\ WhatIsSeenIsSo'
  BY <1>3, <1>4 DEF ListingsAreCurrent, WhatIsSeenIsSo, Feed
<1>9. NothingIsMissed'
  BY <1>1, <1>3, <1>4 DEF NothingIsMissed, Expected, Ahead
<1>10. TouchesAreTimed'
  BY <1>1, <1>3 DEF TouchesAreTimed, ListingInv, RowsTyped, RowTyped
<1>11. Working' /\ lrun'.status = "running"
  BY <1>3, <1>4 DEF Working
<1> QED
  BY <1>5, <1>6, <1>7, <1>8, <1>9, <1>10, <1>11
     DEF ListingInv, RunIsSound, CompletedBuildMirrors, AclLandsUndisturbed

--------------------------------------------------------------------------------
(* Sources that were listed *)

\* What is read of a source is what the service has, unless it moved since the listing
\* (fetch_text).
LEMMA TextIsCurrent ==
  ASSUME ListingAssumption, ListingInv, Working, NEW ref \in lrun.refs
  PROVE  ref.src \notin lrun.moved => TextOf(ref) = ContentNow(ref.src)
<1>1. ref.src \in Items /\ ListingsAreCurrent
  BY RunHolds DEF RunTyped
<1>2. CASE ref.src \in Blobs
  <2>1. ContentNow(ref.src) = CurrentTree[ref.src]
    BY <1>1, <1>2, KindsDiffer, ContentsAre
  <2> QED
    BY <1>1, <1>2, <2>1 DEF ListingsAreCurrent, TextOf
<1>3. CASE ref.src \notin Blobs
  BY <1>3 DEF TextOf
<1> QED
  BY <1>2, <1>3

\* What a step leaves of the run when it is done with a source.
Finishes(ref) ==
  /\ UNCHANGED <<remote, config, other, clock>>
  /\ DOMAIN lrun' = DOMAIN lrun /\ lrun'.pc = lrun.pc /\ lrun'.status = lrun.status
  /\ lrun'.plan = lrun.plan /\ lrun'.cfg = lrun.cfg /\ lrun'.started = lrun.started
  /\ lrun'.at = lrun.at /\ lrun'.want = lrun.want /\ lrun'.refs = lrun.refs \ {ref}
  /\ lrun'.cut = lrun.cut /\ lrun'.moved = lrun.moved
  /\ lrun'.wrote = lrun.wrote /\ lrun'.fresh = lrun.fresh

LEMMA FinishesRun ==
  ASSUME ListingInv, NEW ref \in Listed, UNCHANGED <<remote, config, other, clock>>
  PROVE  /\ lrun' = AfterSeen(ref) =>
              /\ Finishes(ref) /\ lrun'.failed = lrun.failed
              /\ lrun'.seen = lrun.seen \union {ref.src}
         /\ \A r \in {After(ref), AfterSeen(ref)} :
              lrun' = [r EXCEPT !.failed = @ \union {ref.src}] =>
                /\ Finishes(ref) /\ lrun'.failed = lrun.failed \union {ref.src}
                /\ lrun'.seen = r.seen
         /\ After(ref).seen = lrun.seen /\ AfterSeen(ref).seen = lrun.seen \union {ref.src}
<1>1. DOMAIN lrun = {"pc", "status", "plan", "cfg", "started", "tries", "at", "want", "refs",
                     "seen", "cut", "failed", "moved", "wrote", "fresh"}
  BY RunHolds DEF Listed, RunTyped
<1> DEFINE left == lrun.refs \ {ref}
           more == lrun.seen \union {ref.src}
           bad == lrun.failed \union {ref.src}
<1>2. After(ref) = [lrun EXCEPT !.tries = 0, !.refs = left]
  BY DEF After
<1> HIDE DEF left
<1>3. /\ After(ref).seen = lrun.seen /\ After(ref).failed = lrun.failed
      /\ DOMAIN After(ref) = DOMAIN lrun
  BY <1>1, <1>2
<1>4. AfterSeen(ref) = [After(ref) EXCEPT !.seen = more]
  BY <1>3 DEF AfterSeen
<1> HIDE DEF more
<1>5. /\ AfterSeen(ref).seen = more /\ AfterSeen(ref).failed = lrun.failed
      /\ DOMAIN AfterSeen(ref) = DOMAIN lrun
  BY <1>1, <1>3, <1>4
<1>6. ASSUME lrun' = AfterSeen(ref)
      PROVE  /\ Finishes(ref) /\ lrun'.failed = lrun.failed /\ lrun'.seen = more
  <2>1. lrun' = [[lrun EXCEPT !.tries = 0, !.refs = left] EXCEPT !.seen = more]
    BY <1>2, <1>4, <1>6
  <2>2. Finishes(ref) /\ lrun'.failed = lrun.failed
    BY <1>1, <2>1 DEF Finishes, left
  <2> QED
    BY <1>5, <1>6, <2>2
<1>7. ASSUME lrun' = [After(ref) EXCEPT !.failed = bad]
      PROVE  Finishes(ref) /\ lrun'.failed = bad /\ lrun'.seen = lrun.seen
  <2> HIDE DEF bad
  <2>1. lrun' = [[lrun EXCEPT !.tries = 0, !.refs = left] EXCEPT !.failed = bad]
    BY <1>2, <1>7
  <2> QED
    BY <1>1, <2>1 DEF Finishes, left
<1>8. ASSUME lrun' = [AfterSeen(ref) EXCEPT !.failed = bad]
      PROVE  Finishes(ref) /\ lrun'.failed = bad /\ lrun'.seen = more
  <2> HIDE DEF bad
  <2>1. lrun' = [[[lrun EXCEPT !.tries = 0, !.refs = left] EXCEPT !.seen = more]
                   EXCEPT !.failed = bad]
    BY <1>2, <1>4, <1>8
  <2> QED
    BY <1>1, <2>1 DEF Finishes, left
<1>9. /\ [After(ref) EXCEPT !.failed = @ \union {ref.src}] = [After(ref) EXCEPT !.failed = bad]
      /\ [AfterSeen(ref) EXCEPT !.failed = @ \union {ref.src}]
           = [AfterSeen(ref) EXCEPT !.failed = bad]
  BY <1>3, <1>5
<1> QED
  BY <1>3, <1>5, <1>6, <1>7, <1>8, <1>9 DEF more

LEMMA Finishing ==
  ASSUME ListingInv, NEW ref \in Listed, Finishes(ref),
         lrun.seen \subseteq lrun'.seen, lrun.failed \subseteq lrun'.failed,
         ref.src \in lrun'.seen \union lrun'.failed,
         RowsTyped', VersionsName', WhatIsSeenIsSo', TouchesAreTimed'
  PROVE  ListingInv'
<1>1. Working /\ RunTyped /\ ListingsAreCurrent /\ NothingIsMissed /\ lrun.pc = "fetch"
  BY RunHolds DEF Listed
<1>2. /\ Begun' /\ RemoteTyped' /\ ConfigTyped(config)' /\ OtherTyped'
  BY DEF Finishes, ListingInv, Begun, RemoteTyped, ConfigTyped, OtherTyped
<1>3. RunTyped' /\ ListingsAreCurrent'
  BY <1>1 DEF Finishes, RunTyped, Feed, ConfigTyped, ListingsAreCurrent, CurrentTree
<1>4. NothingIsMissed'
  <2>1. \A s : ContentNow(s)' = ContentNow(s)
    BY DEF Finishes, ContentNow, CurrentTree, Committed
  <2>2. Expected' = Expected
    BY <2>1 DEF Finishes, Expected
  <2>3. \A s \in Ahead : s = ref.src \/ s \in Ahead'
    BY <1>1 DEF Finishes, Ahead
  <2> HIDE DEF Ahead, Expected
  <2> QED
    BY <1>1, <2>2, <2>3 DEF NothingIsMissed
<1>5. Working' /\ lrun'.status = "running"
  BY <1>1 DEF Finishes, Working, RunTyped
<1> QED
  BY <1>2, <1>3, <1>4, <1>5
     DEF ListingInv, RunIsSound, CompletedBuildMirrors, AclLandsUndisturbed

LEMMA ListedSource ==
  ASSUME ListingInv, NEW ref \in Listed
  PROVE  /\ Working /\ ref \in lrun.refs /\ ref.src \in Items /\ lrun.started \in 0..clock
         /\ ref.src \notin lrun.cfg.hidden /\ FeedOf(ref.src) \in ToSet(lrun.cfg.plan)
         /\ lrun.cfg.plan = config.plan
<1>1. Working /\ RunTyped /\ ref \in lrun.refs /\ lrun.pc = "fetch"
  BY RunHolds DEF Listed, Working
<1>2. Feed \in ToSet(lrun.plan)
  BY <1>1, PlanShrinks DEF RunTyped, Feed
<1> QED
  BY <1>1, <1>2 DEF RunTyped, ConfigTyped

LEMMA UnchangedStep ==
  ASSUME ListingAssumption, ListingInv, NEW ref \in Listed, FetchUnchanged(ref)
  PROVE  ListingInv'
<1> DEFINE s == ref.src
<1>1. /\ TextOf(ref) # 0 /\ sess[s].hash = TextOf(ref) /\ sess' = Touched(sess, s)
      /\ lrun' = AfterSeen(ref) /\ UNCHANGED <<remote, config, rows, other, clock>>
  BY DEF FetchUnchanged
<1>2. /\ Finishes(ref) /\ lrun'.failed = lrun.failed
      /\ lrun'.seen = lrun.seen \union {s}
  BY <1>1, FinishesRun
<1>3. /\ Working /\ s \in Items /\ lrun.started \in 0..clock
      /\ s \notin lrun.cfg.hidden /\ FeedOf(s) \in ToSet(lrun.cfg.plan)
      /\ s \notin lrun.moved => TextOf(ref) = ContentNow(s)
  BY ListedSource, TextIsCurrent
<1>4. /\ RowsTyped /\ RowTyped(sess[s]) /\ rows[s].hash = sess[s].hash /\ sess[s] # NoItem
      /\ rows[s] # NoItem /\ clock \in Nat
  BY <1>1, <1>3 DEF ListingInv, RowsTyped, NoItem, Begun
<1>5. /\ DOMAIN sess' = Items /\ \A t \in Items : t # s => sess'[t] = sess[t]
      /\ DOMAIN sess'[s] = DOMAIN sess[s] /\ sess'[s].hash = sess[s].hash
      /\ sess'[s].made = sess[s].made /\ sess'[s].ver = sess[s].ver
      /\ sess'[s].live = sess[s].live /\ sess'[s].acl = AclFor(s) /\ sess'[s].at = lrun.started
  BY <1>1, <1>3, <1>4, TouchedRow DEF RowsTyped, RowTyped
<1>6. RowsTyped'
  <2>1. RowTyped(sess[s])'
    BY <1>1, <1>3, <1>4, <1>5 DEF RowTyped
  <2>2. \A t \in Items : RowTyped(rows[t])' /\ RowTyped(sess[t])'
    BY <1>1, <1>4, <1>5, <2>1 DEF RowsTyped, RowTyped
  <2> QED
    BY <1>1, <1>4, <1>5, <2>2 DEF RowsTyped
<1>7. VersionsName'
  BY <1>1 DEF ListingInv, VersionsName
<1>8. WhatIsSeenIsSo'
  <2>1. \A t : ContentNow(t)' = ContentNow(t) /\ AclFor(t)' = AclFor(t)
    BY <1>1, <1>2 DEF Finishes, ContentNow, CurrentTree, Committed, AclFor
  <2>2. WhatIsSeenIsSo
    BY <1>3, RunHolds
  <2> QED
    BY <1>1, <1>2, <1>3, <1>4, <1>5, <2>1, <2>2 DEF WhatIsSeenIsSo, Finishes
<1>9. TouchesAreTimed'
  <2>1. TouchesAreTimed
    BY <1>3, RunHolds
  <2>2. \A t \in lrun.fresh : sess'[t].at >= lrun.started
    <3> SUFFICES ASSUME NEW t \in lrun.fresh
                 PROVE  sess'[t].at >= lrun.started
      OBVIOUS
    <3>1. CASE t = s
      BY <1>3, <1>4, <1>5, <3>1
    <3>2. CASE t # s
      BY <1>5, <2>1, <3>2 DEF TouchesAreTimed
    <3> QED
      BY <3>1, <3>2
  <2> QED
    BY <1>1, <1>2, <1>5, <2>1, <2>2 DEF TouchesAreTimed, Finishes
<1> QED
  BY <1>2, <1>6, <1>7, <1>8, <1>9, Finishing

LEMMA ChangedStep ==
  ASSUME ListingAssumption, ListingInv, NEW ref \in Listed, FetchChanged(ref)
  PROVE  ListingInv'
<1> DEFINE s == ref.src
<1>1. /\ TextOf(ref) # 0 /\ sess' = ItemStored(sess, ref) /\ rows' = sess'
      /\ lrun' = AfterSeen(ref) /\ UNCHANGED <<remote, config, other, clock>>
  BY DEF FetchChanged
<1>2. /\ Finishes(ref) /\ lrun'.failed = lrun.failed
      /\ lrun'.seen = lrun.seen \union {s}
  BY <1>1, FinishesRun
<1>3. /\ Working /\ s \in Items /\ lrun.started \in 0..clock /\ ref \in lrun.refs
      /\ s \notin lrun.cfg.hidden /\ FeedOf(s) \in ToSet(lrun.cfg.plan)
      /\ lrun.cfg.plan = config.plan
      /\ s \notin lrun.moved => TextOf(ref) = ContentNow(s)
  BY ListedSource, TextIsCurrent
<1>4. RowsTyped /\ clock \in Nat
  BY DEF ListingInv, Begun
<1>5. /\ DOMAIN sess' = Items /\ \A t \in Items : t # s => sess'[t] = sess[t]
      /\ sess'[s] = [hash |-> TextOf(ref), made |-> TextOf(ref), ver |-> ref.ver,
                     acl |-> AclFor(s), live |-> TRUE, at |-> lrun.started]
  BY <1>1, <1>3, <1>4, StoredRow DEF RowsTyped
<1>6. /\ DOMAIN sess'[s] = {"hash", "made", "ver", "acl", "live", "at"}
      /\ sess'[s].hash = TextOf(ref) /\ sess'[s].made = TextOf(ref) /\ sess'[s].ver = ref.ver
      /\ sess'[s].acl = AclFor(s) /\ sess'[s].live = TRUE /\ sess'[s].at = lrun.started
  BY <1>5
<1>7. RowsTyped'
  <2>1. RowTyped(sess[s])'
    BY <1>1, <1>3, <1>6 DEF RowTyped
  <2>2. \A t \in Items : RowTyped(sess[t])'
    BY <1>1, <1>4, <1>5, <2>1 DEF RowsTyped, RowTyped
  <2>3. \A t \in Items : sess'[t].live => FeedOf(t) \in ToSet(config.plan)
    BY <1>3, <1>4, <1>5 DEF RowsTyped
  <2> QED
    BY <1>1, <1>5, <2>2, <2>3 DEF RowsTyped
<1>8. VersionsName'
  <2> SUFFICES ASSUME NEW b \in Blobs, sess'[b] # NoItem
               PROVE  /\ sess'[b].ver \in DOMAIN remote.trees
                      /\ remote.trees[sess'[b].ver][b] = sess'[b].hash
    BY <1>1 DEF VersionsName
  <2>1. CASE b = s
    <3>1. ListingsAreCurrent
      BY <1>3, RunHolds
    <3> QED
      BY <1>3, <1>6, <2>1, <3>1 DEF ListingsAreCurrent, TextOf
  <2>2. CASE b # s
    <3>1. b \in Items /\ sess'[b] = sess[b]
      BY <1>5, <2>2 DEF Items
    <3>2. rows[b] # NoItem /\ rows[b].hash = sess[b].hash /\ rows[b].ver = sess[b].ver
      BY <1>4, <3>1 DEF RowsTyped
    <3> QED
      BY <3>1, <3>2 DEF ListingInv, VersionsName
  <2> QED
    BY <2>1, <2>2
<1>9. WhatIsSeenIsSo'
  <2>1. \A t : ContentNow(t)' = ContentNow(t) /\ AclFor(t)' = AclFor(t)
    BY <1>1, <1>2 DEF Finishes, ContentNow, CurrentTree, Committed, AclFor
  <2>2. WhatIsSeenIsSo
    BY <1>3, RunHolds
  <2>3. \A t \in Items : t # s => sess'[t].hash = rows[t].hash
    BY <1>4, <1>5 DEF RowsTyped
  <2> QED
    BY <1>1, <1>2, <1>3, <1>5, <1>6, <2>1, <2>2, <2>3 DEF WhatIsSeenIsSo, Finishes
<1>10. TouchesAreTimed'
  <2>1. TouchesAreTimed
    BY <1>3, RunHolds
  <2>2. \A t \in lrun.fresh : sess'[t].at >= lrun.started
    BY <1>3, <1>4, <1>5, <1>6, <2>1 DEF TouchesAreTimed
  <2>3. \A t \in lrun.failed \ (lrun'.seen \union lrun.wrote) :
          t \in Items /\ ~sess'[t].live
    BY <1>2, <1>4, <1>5, <2>1 DEF TouchesAreTimed, RowsTyped
  <2> QED
    BY <1>1, <1>2, <1>5, <2>1, <2>2, <2>3 DEF TouchesAreTimed, Finishes
<1> QED
  BY <1>2, <1>7, <1>8, <1>9, <1>10, Finishing

LEMMA SourceFailsStep ==
  ASSUME ListingAssumption, ListingInv, NEW ref \in Listed, FetchedSourceFails(ref)
  PROVE  ListingInv'
<1> DEFINE s == ref.src
           r == IF rows[s] = NoItem THEN After(ref) ELSE AfterSeen(ref)
<1>1. /\ rows' = Touched(rows, s) /\ sess' = rows'
      /\ lrun' = [r EXCEPT !.failed = @ \union {s}] /\ UNCHANGED <<remote, config, other, clock>>
  BY DEF FetchedSourceFails, AfterFailure
<1>2. /\ Finishes(ref) /\ lrun'.failed = lrun.failed \union {s} /\ lrun'.seen = r.seen
      /\ r.seen = IF rows[s] = NoItem THEN lrun.seen ELSE lrun.seen \union {s}
  BY <1>1, FinishesRun
<1> HIDE DEF r
<1>3. /\ Working /\ s \in Items /\ lrun.started \in 0..clock
      /\ s \notin lrun.cfg.hidden /\ FeedOf(s) \in ToSet(lrun.cfg.plan)
  BY ListedSource
<1>4. RowsTyped /\ RowTyped(rows[s]) /\ clock \in Nat
  BY <1>3 DEF ListingInv, Begun, RowsTyped
<1>5. /\ DOMAIN rows' = Items /\ \A t \in Items : t # s => rows'[t] = rows[t]
      /\ rows[s] = NoItem => rows'[s] = rows[s]
      /\ rows[s] # NoItem =>
           /\ DOMAIN rows'[s] = DOMAIN rows[s] /\ rows'[s].hash = rows[s].hash
           /\ rows'[s].made = rows[s].made /\ rows'[s].ver = rows[s].ver
           /\ rows'[s].live = rows[s].live /\ rows'[s].at = lrun.started
  BY <1>1, <1>3, <1>4, TouchedRow DEF RowsTyped, RowTyped
<1>6. RowsTyped'
  <2>1. RowTyped(rows[s])'
    BY <1>1, <1>3, <1>4, <1>5 DEF RowTyped
  <2>2. \A t \in Items : RowTyped(rows[t])'
    BY <1>1, <1>4, <1>5, <2>1 DEF RowsTyped, RowTyped
  <2>3. \A t \in Items : rows'[t].live => FeedOf(t) \in ToSet(config.plan)
    BY <1>4, <1>5 DEF RowsTyped
  <2> QED
    BY <1>1, <1>5, <2>2, <2>3 DEF RowsTyped
<1>7. VersionsName'
  <2> SUFFICES ASSUME NEW b \in Blobs, rows'[b] # NoItem
               PROVE  /\ rows'[b].ver \in DOMAIN remote.trees
                      /\ remote.trees[rows'[b].ver][b] = rows'[b].hash
    BY <1>1 DEF VersionsName
  <2>1. b \in Items /\ rows[b] # NoItem /\ rows'[b].hash = rows[b].hash /\ rows'[b].ver = rows[b].ver
    BY <1>5 DEF Items
  <2> QED
    BY <2>1 DEF ListingInv, VersionsName
<1>8. WhatIsSeenIsSo'
  <2>1. \A t : ContentNow(t)' = ContentNow(t)
    BY <1>1 DEF ContentNow, CurrentTree, Committed
  <2>2. WhatIsSeenIsSo
    BY <1>3, RunHolds
  <2>3. ASSUME NEW t \in lrun'.seen
        PROVE  /\ FeedOf(t) \in ToSet(lrun'.cfg.plan) /\ t \in Items \ lrun'.cfg.hidden
               /\ t \notin lrun'.moved \union lrun'.failed \union lrun'.wrote =>
                    rows'[t].hash = ContentNow(t)' /\ ContentNow(t)' # 0
    <3>1. /\ lrun'.cfg = lrun.cfg /\ lrun'.moved = lrun.moved /\ lrun'.wrote = lrun.wrote
          /\ lrun'.failed = lrun.failed \union {s}
      BY <1>2 DEF Finishes
    <3>2. t \in lrun.seen \/ t = s
      BY <1>2
    <3>3. CASE t = s
      BY <1>3, <3>1, <3>3
    <3>4. CASE t # s
      <4>1. t \in lrun.seen
        BY <3>2, <3>4
      <4>2. FeedOf(t) \in ToSet(lrun.cfg.plan) /\ t \in Items \ lrun.cfg.hidden
        BY <4>1, <2>2 DEF WhatIsSeenIsSo
      <4>3. t \notin lrun.moved \union lrun.failed \union lrun.wrote =>
              rows[t].hash = ContentNow(t) /\ ContentNow(t) # 0
        BY <4>1, <2>2 DEF WhatIsSeenIsSo
      <4>4. rows'[t] = rows[t]
        BY <1>5, <3>4, <4>2
      <4> QED
        BY <2>1, <3>1, <4>2, <4>3, <4>4
    <3> QED
      BY <3>3, <3>4
  <2>4. lrun'.failed # {}
    BY <1>2
  <2> QED
    BY <2>3, <2>4 DEF WhatIsSeenIsSo
<1>9. TouchesAreTimed'
  <2>1. TouchesAreTimed
    BY <1>3, RunHolds
  <2>2. \A t \in lrun.fresh : rows'[t].at >= lrun.started
    BY <1>3, <1>4, <1>5, <2>1 DEF TouchesAreTimed
  <2>3. ~NoItem.live
    BY DEF NoItem
  <2>4. \A t \in lrun'.failed \ (lrun'.seen \union lrun.wrote) :
          t \in Items /\ ~rows'[t].live
    <3> SUFFICES ASSUME NEW t \in lrun'.failed \ (lrun'.seen \union lrun.wrote)
                 PROVE  t \in Items /\ ~rows'[t].live
      OBVIOUS
    <3>1. CASE t = s
      BY <1>2, <1>3, <1>5, <2>3, <3>1
    <3>2. CASE t # s
      BY <1>2, <1>5, <2>1, <3>2 DEF TouchesAreTimed
    <3> QED
      BY <3>1, <3>2
  <2> QED
    BY <1>1, <1>2, <1>5, <2>1, <2>2, <2>4 DEF TouchesAreTimed, Finishes
<1> QED
  BY <1>2, <1>6, <1>7, <1>8, <1>9, Finishing

--------------------------------------------------------------------------------
(* The sweep *)

\* Whether a source that a completed build does not know about was expected: it is not, when
\* it was neither seen nor failed.
LEMMA NoneIsLeft ==
  ASSUME ListingInv, Working, lrun.pc = "sweep"
  PROVE  Expected \subseteq lrun.seen \union lrun.failed
<1>1. Ahead = {}
  BY DEF Ahead
<1> QED
  BY <1>1, RunHolds DEF NothingIsMissed

LEMMA SweepStep ==
  ASSUME ListingAssumption, ListingInv, SweepVanished
  PROVE  /\ ListingInv'
         /\ \A s \in Items : rows[s].live /\ ~rows'[s].live =>
              /\ s \notin lrun.fresh
              /\ \/ ContentNow(s) = 0
                 \/ s \in lrun.moved \union lrun.cut \union lrun.cfg.hidden \union lrun.wrote
<1>1. /\ Working /\ lrun.pc = "sweep" /\ RunTyped /\ WhatIsSeenIsSo /\ TouchesAreTimed
      /\ rows' = [s \in Items |-> IF s \in ItemsGone THEN [sess[s] EXCEPT !.live = FALSE]
                                  ELSE sess[s]]
      /\ sess' = rows' /\ lrun' = [lrun EXCEPT !.pc = "idle", !.status = "completed"]
      /\ UNCHANGED <<remote, config, other, clock>>
  BY RunHolds DEF SweepVanished
<1>2. /\ lrun'.pc = "idle" /\ lrun'.status = "completed" /\ lrun'.cfg = lrun.cfg
      /\ lrun'.moved = lrun.moved /\ lrun'.cut = lrun.cut /\ lrun'.failed = lrun.failed
      /\ lrun'.wrote = lrun.wrote /\ lrun'.seen = lrun.seen
  BY <1>1 DEF RunTyped
<1>3. RowsTyped /\ clock \in Nat
  BY DEF ListingInv, Begun
<1>4. ASSUME NEW s \in Items
      PROVE  /\ DOMAIN rows'[s] = DOMAIN sess[s] /\ rows'[s].hash = rows[s].hash
             /\ rows'[s].made = rows[s].hash /\ rows'[s].ver = rows[s].ver
             /\ rows'[s].acl = sess[s].acl /\ rows'[s].at = sess[s].at
             /\ rows'[s].live = IF s \in ItemsGone THEN FALSE ELSE rows[s].live
             /\ rows'[s] # NoItem => rows[s] # NoItem
  <2>1. /\ DOMAIN sess[s] = {"hash", "made", "ver", "acl", "live", "at"}
        /\ sess[s].hash = rows[s].hash /\ sess[s].ver = rows[s].ver /\ sess[s].live = rows[s].live
        /\ sess[s].made = rows[s].hash
        /\ rows[s] = NoItem => sess[s] = NoItem
    BY <1>3 DEF RowsTyped, RowTyped
  <2>2. CASE s \in ItemsGone
    <3>1. rows'[s] = [sess[s] EXCEPT !.live = FALSE] /\ sess[s].live
      BY <1>1, <2>2 DEF ItemsGone
    <3>2. sess[s] # NoItem /\ rows[s] # NoItem
      BY <2>1, <3>1 DEF NoItem
    <3> QED
      BY <2>1, <2>2, <3>1, <3>2
  <2>3. CASE s \notin ItemsGone
    <3>1. rows'[s] = sess[s]
      BY <1>1, <2>3
    <3> QED
      BY <2>1, <2>3, <3>1
  <2> QED
    BY <2>2, <2>3
<1>5. \A s \in Items : ContentNow(s)' = ContentNow(s)
  BY <1>1 DEF ContentNow, CurrentTree, Committed
<1>6. RowsTyped'
  <2>1. DOMAIN rows' = Items
    BY <1>1
  <2>2. \A s \in Items : RowTyped(rows[s])'
    BY <1>1, <1>3, <1>4, ZenonT(60) DEF RowsTyped, RowTyped
  <2>3. \A s \in Items : rows'[s].live => FeedOf(s) \in ToSet(config.plan)
    BY <1>3, <1>4 DEF RowsTyped
  <2> HIDE DEF ItemsGone
  <2> QED
    BY <1>1, <2>1, <2>2, <2>3 DEF RowsTyped
<1>7. VersionsName'
  BY <1>1, <1>4, ZenonT(60) DEF VersionsName, ListingInv, Items
<1>8. ASSUME NEW s \in Items
      PROVE  /\ s \in ItemsGone => s \notin lrun.seen
             /\ rows[s].live /\ s \notin lrun.seen \union lrun.failed \union lrun.wrote => s \in ItemsGone
  BY <1>1, <1>3 DEF ItemsGone, TouchesAreTimed, RowsTyped
<1>9. CompletedBuildMirrors'
  <2> SUFFICES ASSUME NEW s \in Items \ (lrun.moved \union lrun.cut \union lrun.failed
                                         \union lrun.wrote)
               PROVE  IF FeedOf(s) \notin DOMAIN lrun.cfg.acl \/ s \in lrun.cfg.hidden
                         \/ ContentNow(s) = 0
                      THEN ~rows'[s].live
                      ELSE rows'[s].hash = ContentNow(s) /\ rows'[s].made = ContentNow(s)
    BY <1>2, <1>5 DEF CompletedBuildMirrors
  <2>1. DOMAIN lrun.cfg.acl = ToSet(lrun.cfg.plan)
    BY <1>1 DEF RunTyped, ConfigTyped
  <2>2. CASE s \in Expected
    <3>1. s \in lrun.seen
      BY <1>1, <2>2, NoneIsLeft
    <3>2. rows[s].hash = ContentNow(s)
      BY <1>1, <3>1 DEF WhatIsSeenIsSo
    <3> QED
      BY <1>4, <2>1, <2>2, <3>2 DEF Expected
  <2>3. CASE s \notin Expected
    <3>1. FeedOf(s) \notin DOMAIN lrun.cfg.acl \/ s \in lrun.cfg.hidden \/ ContentNow(s) = 0
      BY <2>1, <2>3 DEF Expected
    <3>2. s \notin lrun.seen
      BY <1>1, <2>1, <3>1 DEF WhatIsSeenIsSo
    <3>3. rows[s].live => s \in ItemsGone
      BY <1>8, <3>2
    <3> QED
      BY <1>3, <1>4, <3>1, <3>3 DEF RowsTyped, RowTyped
  <2> QED
    BY <2>2, <2>3
<1>10. AclLandsUndisturbed'
  <2>1. \A s : AclFor(s)' = AclFor(s)
    BY <1>2 DEF AclFor
  <2> QED
    BY <1>1, <1>2, <1>4, <2>1 DEF AclLandsUndisturbed, WhatIsSeenIsSo
<1>11. Begun' /\ RemoteTyped' /\ ConfigTyped(config)' /\ OtherTyped'
  BY <1>1 DEF ListingInv, Begun, RemoteTyped, ConfigTyped, OtherTyped
<1>12. ~Working'
  BY <1>2 DEF Working
<1>13. ListingInv'
  BY <1>2, <1>6, <1>7, <1>9, <1>10, <1>11, <1>12 DEF ListingInv
<1>14. ASSUME NEW s \in Items, rows[s].live, ~rows'[s].live
       PROVE  /\ s \notin lrun.fresh
              /\ \/ ContentNow(s) = 0
                 \/ s \in lrun.moved \union lrun.cut \union lrun.cfg.hidden \union lrun.wrote
  <2>1. s \in ItemsGone
    BY <1>4, <1>14
  <2>2. s \notin lrun.seen /\ sess[s].at < lrun.started
    BY <2>1 DEF ItemsGone
  <2>3. s \notin lrun.fresh
    <3>1. sess[s].at \in Nat /\ lrun.started \in Nat
      BY <1>1, <1>3 DEF RowsTyped, RowTyped, RunTyped
    <3> QED
      BY <1>1, <2>2, <3>1 DEF TouchesAreTimed
  <2>4. s \notin lrun.failed \/ s \in lrun.wrote
    BY <1>1, <1>14, <2>2 DEF TouchesAreTimed
  <2>5. FeedOf(s) \in ToSet(lrun.cfg.plan)
    BY <1>1, <1>3, <1>14 DEF RowsTyped, RunTyped, ConfigTyped
  <2>6. s \notin lrun.wrote => s \notin Expected
    BY <1>1, <2>2, <2>4, NoneIsLeft
  <2> QED
    BY <2>3, <2>5, <2>6 DEF Expected
<1> QED
  BY <1>13, <1>14

--------------------------------------------------------------------------------
(* What moves while a build runs *)

\* What the services do between two steps of a build.
LEMMA MovesKeep ==
  ASSUME ListingInv, NEW items, NEW next, Moves(next, items), RemoteTyped',
         \A n \in DOMAIN remote.trees : n \in DOMAIN next.trees /\ next.trees[n] = remote.trees[n],
         \A b \in Blobs \ items : CurrentTree'[b] = CurrentTree[b],
         \A p \in Pages \ items : next.pages[p] = remote.pages[p],
         \A k \in Cards \ items : next.cards[k] = remote.cards[k],
         \A s \in ToSet(Shas) \ items : s \in Committed' <=> s \in Committed
  PROVE  ListingInv'
<1>1. remote' = next /\ lrun' = Noted(items) /\ UNCHANGED <<config, rows, sess, other, clock>>
  BY DEF Moves
<1>2. /\ Begun' /\ ConfigTyped(config)' /\ OtherTyped' /\ RowsTyped' /\ VersionsName'
  BY <1>1 DEF ListingInv, Begun, ConfigTyped, OtherTyped, RowsTyped, RowTyped, VersionsName
<1>3. CASE ~Working
  <2>1. lrun' = AtRest
    BY <1>1, <1>3 DEF Noted
  <2>2. lrun'.pc = "idle" /\ lrun'.status = "none"
    BY <2>1 DEF AtRest
  <2> QED
    BY <1>2, <2>2 DEF ListingInv, Working, CompletedBuildMirrors, AclLandsUndisturbed
<1>4. CASE Working
  <2>1. /\ RunTyped /\ ListingsAreCurrent /\ NothingIsMissed /\ WhatIsSeenIsSo
        /\ TouchesAreTimed
    BY <1>4, RunHolds
  <2> DEFINE moved == lrun.moved \union items
  <2>2. lrun' = [lrun EXCEPT !.moved = moved]
    BY <1>1, <1>4 DEF Noted
  <2> HIDE DEF moved
  <2>3. /\ DOMAIN lrun' = DOMAIN lrun /\ lrun'.pc = lrun.pc /\ lrun'.status = lrun.status
        /\ lrun'.plan = lrun.plan /\ lrun'.cfg = lrun.cfg /\ lrun'.started = lrun.started
        /\ lrun'.at = lrun.at /\ lrun'.want = lrun.want /\ lrun'.refs = lrun.refs
        /\ lrun'.seen = lrun.seen /\ lrun'.cut = lrun.cut /\ lrun'.failed = lrun.failed
        /\ lrun'.moved = moved /\ lrun'.wrote = lrun.wrote /\ lrun'.fresh = lrun.fresh
    BY <2>1, <2>2 DEF RunTyped
  <2>4. \A s \in Items \ items : ContentNow(s)' = ContentNow(s)
    <3> SUFFICES ASSUME NEW s \in Items \ items
                 PROVE  ContentNow(s)' = ContentNow(s)
      OBVIOUS
    <3>1. s \in Blobs \/ s \in Pages \/ s \in Cards \/ s \in ToSet(Shas)
      BY DEF Items
    <3>2. /\ s \in Blobs => CurrentTree'[s] = CurrentTree[s]
          /\ s \in Pages => remote'.pages[s] = remote.pages[s]
          /\ s \in Cards => remote'.cards[s] = remote.cards[s]
          /\ s \in ToSet(Shas) => (s \in Committed' <=> s \in Committed)
      BY <1>1
    <3> HIDE DEF CurrentTree, Committed
    <3> QED
      BY <3>1, <3>2 DEF ContentNow
  <2>5. RunTyped'
    BY <1>1, <2>1, <2>3 DEF RunTyped, Feed, ConfigTyped
  <2>6. ListingsAreCurrent'
    <3>1. ASSUME NEW n, Current(n)
          PROVE  Current(n)'
      BY <1>1, <2>3, <3>1 DEF Current, moved
    <3>2. ASSUME NEW ref \in lrun.refs, ref.src \in Blobs
          PROVE  /\ ref.ver \in DOMAIN remote'.trees
                 /\ ref.src \notin moved =>
                      remote'.trees[ref.ver][ref.src] = CurrentTree'[ref.src]
      BY <1>1, <2>1, <3>2 DEF ListingsAreCurrent, moved
    <3>3. lrun.pc = "list" /\ Feed = "docs" => Current(lrun.at)'
      <4>1. lrun.pc = "list" /\ Feed = "docs" => Current(lrun.at)
        BY <2>1 DEF ListingsAreCurrent
      <4>2. lrun'.at = lrun.at
        BY <2>3
      <4> QED
        BY <3>1, <4>1, <4>2, <1>1, <2>3 DEF Current, moved
    <3> QED
      BY <2>3, <3>2, <3>3 DEF ListingsAreCurrent, Feed
  <2>7. NothingIsMissed'
    <3>1. Expected' \subseteq Expected
      BY <2>3, <2>4 DEF Expected, moved
    <3>2. Ahead' = Ahead
      BY <2>3 DEF Ahead
    <3> HIDE DEF Ahead, Expected
    <3> QED
      BY <2>1, <2>3, <3>1, <3>2 DEF NothingIsMissed
  <2>8. WhatIsSeenIsSo'
    <3>1. \A s : AclFor(s)' = AclFor(s)
      BY <2>3 DEF AclFor
    <3> QED
      BY <1>1, <2>1, <2>3, <2>4, <3>1 DEF WhatIsSeenIsSo, moved
  <2>9. TouchesAreTimed'
    BY <1>1, <2>1, <2>3 DEF TouchesAreTimed
  <2>10. Working' /\ lrun'.status = "running"
    BY <1>4, <2>1, <2>3 DEF Working, RunTyped
  <2> QED
    BY <1>2, <2>5, <2>6, <2>7, <2>8, <2>9, <2>10
       DEF ListingInv, RunIsSound, CompletedBuildMirrors, AclLandsUndisturbed
<1> QED
  BY <1>3, <1>4

LEMMA PushStep ==
  ASSUME ListingInv, Push
  PROVE  ListingInv'
<1>1. PICK b \in Blobs, c \in 0..2 :
        Moves([remote EXCEPT !.trees = Append(@, [CurrentTree EXCEPT ![b] = c])], {b})
  BY DEF Push
<1> DEFINE tree == [CurrentTree EXCEPT ![b] = c]
           trees == Append(remote.trees, tree)
           next == [remote EXCEPT !.trees = trees]
<1>2. Moves(next, {b})
  BY <1>1
<1>3. /\ remote.trees \in Seq([Blobs -> Nat]) /\ Len(remote.trees) > 0 /\ RemoteTyped
      /\ CurrentTree = remote.trees[Len(remote.trees)]
  BY DEF ListingInv, RemoteTyped, CurrentTree, Last
<1>4. CurrentTree \in [Blobs -> Nat]
  BY <1>3
<1>5. tree \in [Blobs -> Nat] /\ \A x \in Blobs \ {b} : tree[x] = CurrentTree[x]
  BY <1>4
<1> HIDE DEF tree
<1>6. /\ trees \in Seq([Blobs -> Nat]) /\ Len(trees) = Len(remote.trees) + 1
      /\ trees[Len(trees)] = tree
      /\ \A n \in DOMAIN remote.trees : n \in DOMAIN trees /\ trees[n] = remote.trees[n]
  BY <1>3, <1>5
<1> HIDE DEF trees
<1>7. /\ DOMAIN next = DOMAIN remote /\ next.trees = trees /\ next.pages = remote.pages
      /\ next.cards = remote.cards /\ next.log = remote.log
  BY <1>3 DEF RemoteTyped
<1>8. remote' = next
  BY <1>2 DEF Moves
<1> HIDE DEF next
<1>9. RemoteTyped'
  BY <1>3, <1>6, <1>7, <1>8 DEF RemoteTyped
<1>10. CurrentTree' = tree
  BY <1>6, <1>7, <1>8 DEF CurrentTree, Last
<1>11. Committed' = Committed
  BY <1>7, <1>8 DEF Committed
<1> QED
  BY <1>2, <1>5, <1>6, <1>7, <1>9, <1>10, <1>11, MovesKeep

LEMMA EditPageStep ==
  ASSUME ListingInv, EditPage
  PROVE  ListingInv'
<1>1. PICK p \in Pages, c \in 0..2 :
        Moves([remote EXCEPT !.pages[p] = c, !.head = @ + 1], {p})
  BY DEF EditPage
<1> DEFINE pages == [remote.pages EXCEPT ![p] = c]
           next == [remote EXCEPT !.pages[p] = c, !.head = @ + 1]
<1>2. Moves(next, {p}) /\ RemoteTyped
  BY <1>1 DEF ListingInv
<1>3. /\ DOMAIN next = DOMAIN remote /\ next.trees = remote.trees /\ next.pages = pages
      /\ next.cards = remote.cards /\ next.log = remote.log
  BY <1>2 DEF RemoteTyped
<1>4. pages \in [Pages -> Nat] /\ \A x \in Pages \ {p} : pages[x] = remote.pages[x]
  BY <1>2 DEF RemoteTyped
<1>5. remote' = next
  BY <1>2 DEF Moves
<1> HIDE DEF next, pages
<1>6. RemoteTyped'
  BY <1>2, <1>3, <1>4, <1>5 DEF RemoteTyped
<1>7. CurrentTree' = CurrentTree /\ Committed' = Committed
  BY <1>3, <1>5 DEF CurrentTree, Committed
<1> QED
  BY <1>2, <1>3, <1>4, <1>6, <1>7, MovesKeep

LEMMA EditCardStep ==
  ASSUME ListingInv, EditCard
  PROVE  ListingInv'
<1>0. PICK k \in Cards : \E rev \in {0, remote.cards[k] + 1} :
        Moves([remote EXCEPT !.cards[k] = rev], {k})
  BY DEF EditCard
<1>1. PICK rev \in {0, remote.cards[k] + 1} : Moves([remote EXCEPT !.cards[k] = rev], {k})
  BY <1>0
<1> DEFINE cards == [remote.cards EXCEPT ![k] = rev]
           next == [remote EXCEPT !.cards[k] = rev]
<1>2. Moves(next, {k}) /\ RemoteTyped
  BY <1>1 DEF ListingInv
<1>3. /\ DOMAIN next = DOMAIN remote /\ next.trees = remote.trees /\ next.pages = remote.pages
      /\ next.cards = cards /\ next.log = remote.log
  BY <1>2 DEF RemoteTyped
<1>4. cards \in [Cards -> Nat] /\ \A x \in Cards \ {k} : cards[x] = remote.cards[x]
  <2>1. remote.cards \in [Cards -> Nat] /\ rev \in Nat
    BY <1>2 DEF RemoteTyped
  <2> QED
    BY <2>1
<1>5. remote' = next
  BY <1>2 DEF Moves
<1> HIDE DEF next, cards
<1>6. RemoteTyped'
  BY <1>2, <1>3, <1>4, <1>5 DEF RemoteTyped
<1>7. CurrentTree' = CurrentTree /\ Committed' = Committed
  BY <1>3, <1>5 DEF CurrentTree, Committed
<1> QED
  BY <1>2, <1>3, <1>4, <1>6, <1>7, MovesKeep

LEMMA CommitLocallyStep ==
  ASSUME ListingInv, CommitLocally
  PROVE  ListingInv'
<1> DEFINE n == remote.log + 1
           next == [remote EXCEPT !.log = n]
<1>1. Moves(next, {Shas[n]}) /\ RemoteTyped /\ remote.log < Len(Shas)
  BY DEF CommitLocally, ListingInv
<1>2. remote.log \in Nat /\ n \in 0..Len(Shas)
  BY <1>1 DEF RemoteTyped
<1>3. /\ DOMAIN next = DOMAIN remote /\ next.trees = remote.trees /\ next.pages = remote.pages
      /\ next.cards = remote.cards /\ next.log = n
  BY <1>1 DEF RemoteTyped
<1>4. remote' = next
  BY <1>1 DEF Moves
<1> HIDE DEF next
<1>5. RemoteTyped'
  BY <1>1, <1>2, <1>3, <1>4 DEF RemoteTyped
<1>6. CurrentTree' = CurrentTree
  BY <1>3, <1>4 DEF CurrentTree
<1>7. Committed' = Committed \union {Shas[n]}
  <2>1. Committed' = {Shas[i] : i \in 1..n}
    BY <1>3, <1>4 DEF Committed
  <2>2. 1..n = 1..remote.log \union {n}
    BY <1>2
  <2> QED
    BY <2>1, <2>2 DEF Committed
<1> HIDE DEF n
<1> QED
  BY <1>1, <1>3, <1>5, <1>6, <1>7, MovesKeep

LEMMA ReconfigureStep ==
  ASSUME ListingInv, Reconfigure
  PROVE  ListingInv'
<1>1. lrun' = Noted({}) /\ UNCHANGED <<remote, rows, sess, other, clock>>
  BY DEF Reconfigure
<1>2. /\ DOMAIN config' = {"plan", "acl", "hidden"} /\ config'.plan = config.plan
      /\ DOMAIN config'.acl = DOMAIN config.acl /\ config'.hidden \subseteq Blobs \union Pages
  <2>1. /\ DOMAIN config = {"plan", "acl", "hidden"} /\ config.hidden \subseteq Blobs \union Pages
    BY DEF ListingInv, ConfigTyped
  <2>2. ASSUME NEW f \in DOMAIN config.acl, NEW a, config' = [config EXCEPT !.acl[f] = a]
        PROVE  /\ DOMAIN config' = DOMAIN config /\ config'.plan = config.plan
               /\ DOMAIN config'.acl = DOMAIN config.acl /\ config'.hidden = config.hidden
    <3> DEFINE acl == [config.acl EXCEPT ![f] = a]
    <3>1. config' = [config EXCEPT !.acl = acl]
      BY <2>1, <2>2
    <3>2. DOMAIN acl = DOMAIN config.acl
      OBVIOUS
    <3> HIDE DEF acl
    <3> QED
      BY <2>1, <3>1, <3>2
  <2>3. ASSUME NEW s \in Blobs \union Pages, config' = [config EXCEPT !.hidden = @ \union {s}]
        PROVE  /\ DOMAIN config' = DOMAIN config /\ config'.plan = config.plan
               /\ config'.acl = config.acl /\ config'.hidden \subseteq Blobs \union Pages
    <3> DEFINE hidden == config.hidden \union {s}
    <3>1. config' = [config EXCEPT !.hidden = hidden]
      BY <2>3
    <3>2. hidden \subseteq Blobs \union Pages
      BY <2>1
    <3> HIDE DEF hidden
    <3> QED
      BY <2>1, <3>1, <3>2
  <2> QED
    BY <2>1, <2>2, <2>3 DEF Reconfigure
<1>3. ConfigTyped(config)' /\ Begun' /\ RemoteTyped' /\ VersionsName'
  BY <1>1, <1>2 DEF ListingInv, ConfigTyped, Begun, RemoteTyped, VersionsName
<1>4. RowsTyped' /\ OtherTyped'
  BY <1>1, <1>2 DEF ListingInv, RowsTyped, RowTyped, OtherTyped
<1>5. CASE ~Working
  <2>1. lrun' = AtRest
    BY <1>1, <1>5 DEF Noted
  <2>2. lrun'.pc = "idle" /\ lrun'.status = "none"
    BY <2>1 DEF AtRest
  <2> QED
    BY <1>3, <1>4, <2>2 DEF ListingInv, Working, CompletedBuildMirrors, AclLandsUndisturbed
<1>6. CASE Working
  <2>1. /\ RunTyped /\ ListingsAreCurrent /\ NothingIsMissed /\ WhatIsSeenIsSo
        /\ TouchesAreTimed
    BY <1>6, RunHolds
  <2>2. lrun' = [lrun EXCEPT !.moved = @ \union {}]
    BY <1>1, <1>6 DEF Noted
  <2>3. /\ DOMAIN lrun' = DOMAIN lrun /\ lrun'.pc = lrun.pc /\ lrun'.status = lrun.status
        /\ lrun'.plan = lrun.plan /\ lrun'.cfg = lrun.cfg /\ lrun'.started = lrun.started
        /\ lrun'.at = lrun.at /\ lrun'.want = lrun.want /\ lrun'.refs = lrun.refs
        /\ lrun'.seen = lrun.seen /\ lrun'.cut = lrun.cut /\ lrun'.failed = lrun.failed
        /\ lrun'.moved = lrun.moved /\ lrun'.wrote = lrun.wrote /\ lrun'.fresh = lrun.fresh
    BY <2>1, <2>2 DEF RunTyped
  <2>4. RunTyped'
    BY <1>1, <1>2, <2>1, <2>3 DEF RunTyped, Feed, ConfigTyped
  <2>5. ListingsAreCurrent' /\ TouchesAreTimed'
    BY <1>1, <2>1, <2>3 DEF ListingsAreCurrent, Current, CurrentTree, Feed, TouchesAreTimed
  <2>6. \A s : ContentNow(s)' = ContentNow(s) /\ AclFor(s)' = AclFor(s)
    BY <1>1, <2>3 DEF ContentNow, CurrentTree, Committed, AclFor
  <2>7. NothingIsMissed'
    <3>1. Expected' = Expected
      BY <2>3, <2>6 DEF Expected
    <3>2. Ahead' = Ahead
      BY <2>3 DEF Ahead
    <3> HIDE DEF Ahead, Expected
    <3> QED
      BY <2>1, <2>3, <3>1, <3>2 DEF NothingIsMissed
  <2>8. WhatIsSeenIsSo'
    BY <1>1, <2>1, <2>3, <2>6 DEF WhatIsSeenIsSo
  <2>9. Working' /\ lrun'.status = "running"
    BY <1>6, <2>1, <2>3 DEF Working, RunTyped
  <2> QED
    BY <1>3, <1>4, <2>4, <2>5, <2>7, <2>8, <2>9
       DEF ListingInv, RunIsSound, CompletedBuildMirrors, AclLandsUndisturbed
<1> QED
  BY <1>5, <1>6

\* What another builder begins or gives up.
LEMMA OtherWaits ==
  ASSUME ListingInv, UNCHANGED <<remote, config, rows, sess, lrun>>,
         clock' \in Nat, clock' >= clock, OtherTyped',
         Working /\ lrun.fresh # {} => other' = NoOther \/ other'.at > lrun.started
  PROVE  ListingInv'
<1>1. /\ Begun' /\ RemoteTyped' /\ ConfigTyped(config)' /\ VersionsName'
  BY DEF ListingInv, Begun, RemoteTyped, ConfigTyped, VersionsName
<1>2. RowsTyped'
  <2>1. clock \in Nat /\ RowsTyped
    BY DEF ListingInv, Begun
  <2>2. \A s \in Items : RowTyped(rows[s])' /\ RowTyped(sess[s])'
    BY <2>1 DEF RowsTyped, RowTyped
  <2> QED
    BY <2>1, <2>2 DEF RowsTyped
<1>3. \A s : ContentNow(s)' = ContentNow(s) /\ AclFor(s)' = AclFor(s)
  BY DEF ContentNow, CurrentTree, Committed, AclFor
<1>4. ASSUME Working
      PROVE  RunIsSound'
  <2>1. /\ RunTyped /\ ListingsAreCurrent /\ NothingIsMissed /\ WhatIsSeenIsSo
        /\ TouchesAreTimed
    BY <1>4, RunHolds
  <2>2. RunTyped'
    <3>1. lrun.started \in 0..clock'
      BY <2>1 DEF RunTyped, ListingInv, Begun
    <3> QED
      BY <2>1, <3>1 DEF RunTyped, Feed, ConfigTyped
  <2>3. ListingsAreCurrent'
    BY <2>1 DEF ListingsAreCurrent, Current, CurrentTree, Feed
  <2>4. TouchesAreTimed'
    BY <1>4, <2>1 DEF TouchesAreTimed
  <2>5. NothingIsMissed'
    <3>1. Expected' = Expected /\ Ahead' = Ahead
      BY <1>3 DEF Expected, Ahead
    <3> HIDE DEF Ahead, Expected
    <3> QED
      BY <2>1, <3>1 DEF NothingIsMissed
  <2>6. WhatIsSeenIsSo'
    BY <1>3, <2>1 DEF WhatIsSeenIsSo
  <2> QED
    BY <2>2, <2>3, <2>4, <2>5, <2>6 DEF RunIsSound
<1>5. CompletedBuildMirrors' /\ AclLandsUndisturbed'
  BY <1>3 DEF ListingInv, CompletedBuildMirrors, AclLandsUndisturbed
<1> QED
  BY <1>1, <1>2, <1>4, <1>5 DEF ListingInv, Working

LEMMA OtherBeginsStep ==
  ASSUME ListingInv, NEW s \in Items, OtherBegins(s)
  PROVE  ListingInv'
<1>1. /\ Working /\ FeedOf(s) \in ToSet(config.plan) /\ clock' = clock + 1
      /\ other' = [src |-> s, at |-> clock + 1]
      /\ UNCHANGED <<remote, config, rows, sess, lrun>>
  BY DEF OtherBegins
<1>2. clock \in Nat /\ lrun.started \in 0..clock
  BY <1>1, RunHolds DEF ListingInv, Begun, RunTyped
<1>3. other'.src = s /\ other'.at = clock + 1
  BY <1>1
<1>4. OtherTyped'
  BY <1>1, <1>2, <1>3 DEF OtherTyped
<1> QED
  BY <1>1, <1>2, <1>3, <1>4, OtherWaits

LEMMA OtherFailsStep ==
  ASSUME ListingInv, OtherFails
  PROVE  ListingInv'
<1>1. other' = NoOther /\ UNCHANGED <<remote, config, rows, sess, lrun, clock>> /\ clock \in Nat
  BY DEF OtherFails, ListingInv, Begun
<1>2. OtherTyped'
  BY <1>1 DEF OtherTyped, NoOther
<1> QED
  BY <1>1, <1>2, OtherWaits

\* Another builder's row says what the service has now.
LEMMA OtherCommitsStep ==
  ASSUME ListingAssumption, ListingInv, OtherCommits
  PROVE  ListingInv'
<1> DEFINE s == other.src
           row == [hash |-> ContentNow(s), made |-> ContentNow(s), ver |-> VersionNow(s),
                   acl |-> config.acl[FeedOf(s)], live |-> TRUE, at |-> other.at]
<1>1. /\ other # NoOther /\ rows' = [rows EXCEPT ![s] = row] /\ sess' = [sess EXCEPT ![s] = row]
      /\ other' = NoOther /\ UNCHANGED <<remote, config, clock>>
  BY DEF OtherCommits
<1>2. s \in Items /\ other.at \in 0..clock /\ FeedOf(s) \in ToSet(config.plan) /\ clock \in Nat
  BY <1>1 DEF ListingInv, OtherTyped, Begun
<1>3. /\ DOMAIN row = {"hash", "made", "ver", "acl", "live", "at"} /\ row.hash = ContentNow(s)
      /\ row.made = ContentNow(s) /\ row.ver = VersionNow(s) /\ row.live = TRUE
      /\ row.at = other.at
  OBVIOUS
<1> HIDE DEF row
<1>4. RowsTyped
  BY DEF ListingInv
<1>5. /\ DOMAIN rows' = Items /\ DOMAIN sess' = Items /\ rows'[s] = row /\ sess'[s] = row
      /\ \A t \in Items : t # s => rows'[t] = rows[t] /\ sess'[t] = sess[t]
  BY <1>1, <1>2, <1>4 DEF RowsTyped
<1>6. RowsTyped'
  <2>1. /\ DOMAIN row = {"hash", "made", "ver", "acl", "live", "at"} /\ row.made = row.hash
        /\ row.at \in 0..clock' /\ row.live \in BOOLEAN
    BY <1>1, <1>2, <1>3
  <2>2. \A t \in Items : RowTyped(rows[t])' /\ RowTyped(sess[t])'
    <3> SUFFICES ASSUME NEW t \in Items
                 PROVE  RowTyped(rows[t])' /\ RowTyped(sess[t])'
      OBVIOUS
    <3>1. CASE t = s
      BY <1>5, <2>1, <3>1 DEF RowTyped
    <3>2. CASE t # s
      BY <1>1, <1>4, <1>5, <3>2 DEF RowsTyped, RowTyped
    <3> QED
      BY <3>1, <3>2
  <2>3. \A t \in Items :
          /\ sess'[t].hash = rows'[t].hash /\ sess'[t].ver = rows'[t].ver
          /\ sess'[t].live = rows'[t].live
          /\ rows'[t] = NoItem => sess'[t] = NoItem
          /\ rows'[t].live => FeedOf(t) \in ToSet(config.plan)
    BY <1>2, <1>4, <1>5 DEF RowsTyped
  <2> QED
    BY <1>1, <1>5, <2>2, <2>3 DEF RowsTyped
<1>7. VersionsName'
  <2> SUFFICES ASSUME NEW b \in Blobs, rows'[b] # NoItem
               PROVE  /\ rows'[b].ver \in DOMAIN remote.trees
                      /\ remote.trees[rows'[b].ver][b] = rows'[b].hash
    BY <1>1 DEF VersionsName
  <2>1. b \in Items
    BY DEF Items
  <2>2. CASE b = s
    <3>1. ContentNow(b) = CurrentTree[b]
      BY <2>1, KindsDiffer, ContentsAre
    <3>2. VersionNow(b) = Len(remote.trees)
      BY <2>1 DEF VersionNow, ListingAssumption
    <3>3. Len(remote.trees) \in DOMAIN remote.trees
      BY DEF ListingInv, RemoteTyped
    <3> QED
      BY <1>3, <1>5, <2>2, <3>1, <3>2, <3>3 DEF CurrentTree, Last
  <2>3. CASE b # s
    BY <1>5, <2>1, <2>3 DEF ListingInv, VersionsName
  <2> QED
    BY <2>2, <2>3
<1>8. /\ Begun' /\ RemoteTyped' /\ ConfigTyped(config)' /\ OtherTyped'
  BY <1>1 DEF ListingInv, Begun, RemoteTyped, ConfigTyped, OtherTyped
<1>9. CASE ~Working
  <2>1. lrun' = AtRest
    BY <1>9 DEF OtherCommits
  <2>2. lrun'.pc = "idle" /\ lrun'.status = "none"
    BY <2>1 DEF AtRest
  <2> QED
    BY <1>6, <1>7, <1>8, <2>2 DEF ListingInv, Working, CompletedBuildMirrors, AclLandsUndisturbed
<1>10. CASE Working
  <2>1. /\ RunTyped /\ ListingsAreCurrent /\ NothingIsMissed /\ WhatIsSeenIsSo
        /\ TouchesAreTimed
    BY <1>10, RunHolds
  <2> DEFINE wrote == lrun.wrote \union {s}
             fresh == IF other.at > lrun.started THEN lrun.fresh \union {s} ELSE lrun.fresh
  <2>2. lrun' = [lrun EXCEPT !.wrote = wrote, !.fresh = fresh]
    BY <1>10 DEF OtherCommits
  <2>3. fresh \subseteq lrun.fresh \union {s} /\ (fresh # {} => other.at > lrun.started)
    BY <1>1, <2>1 DEF TouchesAreTimed
  <2>4. lrun.wrote \subseteq wrote /\ s \in wrote
    OBVIOUS
  <2> HIDE DEF wrote, fresh
  <2>5. /\ DOMAIN lrun' = DOMAIN lrun /\ lrun'.pc = lrun.pc /\ lrun'.status = lrun.status
        /\ lrun'.plan = lrun.plan /\ lrun'.cfg = lrun.cfg /\ lrun'.started = lrun.started
        /\ lrun'.at = lrun.at /\ lrun'.want = lrun.want /\ lrun'.refs = lrun.refs
        /\ lrun'.seen = lrun.seen /\ lrun'.cut = lrun.cut /\ lrun'.failed = lrun.failed
        /\ lrun'.moved = lrun.moved /\ lrun'.wrote = wrote /\ lrun'.fresh = fresh
    BY <2>1, <2>2 DEF RunTyped
  <2>6. RunTyped'
    BY <1>1, <2>1, <2>5 DEF RunTyped, Feed, ConfigTyped
  <2>7. ListingsAreCurrent'
    BY <1>1, <2>1, <2>5 DEF ListingsAreCurrent, Current, CurrentTree, Feed
  <2>8. \A t : ContentNow(t)' = ContentNow(t) /\ AclFor(t)' = AclFor(t)
    BY <1>1, <2>5 DEF ContentNow, CurrentTree, Committed, AclFor
  <2>9. NothingIsMissed'
    <3>1. Expected' = Expected
      BY <2>5, <2>8 DEF Expected
    <3>2. Ahead' = Ahead
      BY <2>5 DEF Ahead
    <3> HIDE DEF Ahead, Expected
    <3> QED
      BY <2>1, <2>5, <3>1, <3>2 DEF NothingIsMissed
  <2>10. WhatIsSeenIsSo'
    BY <1>5, <2>1, <2>4, <2>5, <2>8 DEF WhatIsSeenIsSo
  <2>11. TouchesAreTimed'
    <3>1. lrun.started \in Nat /\ other.at \in Nat
      BY <1>2, <2>1 DEF RunTyped
    <3>2. \A t \in fresh : /\ t \in Items /\ t \in wrote
                           /\ rows'[t].at >= lrun.started /\ sess'[t].at >= lrun.started
      BY <1>2, <1>3, <1>5, <2>1, <2>3, <2>4, <3>1 DEF TouchesAreTimed
    <3>3. \A t \in lrun.failed \ (lrun.seen \union wrote) : t \in Items /\ ~rows'[t].live
      BY <1>5, <2>1, <2>4 DEF TouchesAreTimed
    <3>4. \A t \in Items \ (lrun.seen \union lrun.failed \union wrote) :
            rows'[t].at < lrun.started /\ sess'[t].at < lrun.started
      BY <1>5, <2>1, <2>4 DEF TouchesAreTimed
    <3> QED
      BY <1>1, <2>5, <3>2, <3>3, <3>4 DEF TouchesAreTimed
  <2>12. Working' /\ lrun'.status = "running"
    BY <1>10, <2>1, <2>5 DEF Working, RunTyped
  <2> QED
    BY <1>6, <1>7, <1>8, <2>6, <2>7, <2>9, <2>10, <2>11, <2>12
       DEF ListingInv, RunIsSound, CompletedBuildMirrors, AclLandsUndisturbed
<1> QED
  BY <1>9, <1>10

--------------------------------------------------------------------------------
(* The theorems *)

LEMMA ListingBegins == ListingInit /\ ListingAssumption => ListingInv
<1> SUFFICES ASSUME ListingInit, ListingAssumption
             PROVE  ListingInv
  OBVIOUS
<1>1. PICK tree \in [Blobs -> 0..1] :
        remote = [trees |-> <<tree>>, pages |-> [p \in Pages |-> 1], head |-> 1,
                  cards |-> [k \in Cards |-> 1], log |-> 1]
  BY DEF ListingInit
<1>2. PICK plan \in FeedPlans :
        config = [plan |-> plan, acl |-> [f \in ToSet(plan) |-> NoItem.acl], hidden |-> {}]
  BY DEF ListingInit
<1>3. /\ rows = [s \in Items |-> NoItem] /\ sess = rows /\ lrun = AtRest /\ other = NoOther
      /\ clock = 0
  BY DEF ListingInit
<1>4. Begun /\ ConfigTyped(config)
  BY <1>2, <1>3 DEF ListingAssumption, Begun, ConfigTyped
<1>5. RemoteTyped
  <2>1. tree \in [Blobs -> Nat]
    OBVIOUS
  <2>2. <<tree>> \in Seq([Blobs -> Nat]) /\ Len(<<tree>>) = 1
    BY <2>1
  <2>3. 1 \in 0..Len(Shas)
    BY DEF ListingAssumption
  <2>4. /\ DOMAIN remote = {"trees", "pages", "head", "cards", "log"}
        /\ remote.trees = <<tree>> /\ remote.pages = [p \in Pages |-> 1]
        /\ remote.cards = [k \in Cards |-> 1] /\ remote.log = 1
    BY <1>1
  <2> QED
    BY <2>2, <2>3, <2>4 DEF RemoteTyped
<1>6. RowTyped(NoItem)
  BY <1>3 DEF RowTyped, NoItem
<1>7. RowsTyped /\ VersionsName
  BY <1>3, <1>6 DEF RowsTyped, VersionsName, Items, NoItem
<1>8. OtherTyped
  BY <1>3 DEF OtherTyped
<1>9. lrun.pc = "idle" /\ lrun.status = "none"
  BY <1>3 DEF AtRest
<1> QED
  BY <1>4, <1>5, <1>7, <1>8, <1>9 DEF ListingInv, Working, CompletedBuildMirrors,
                                      AclLandsUndisturbed

LEMMA ListingKeeps == ListingAssumption /\ ListingInv /\ [ListingNext]_listingVars => ListingInv'
<1> SUFFICES ASSUME ListingAssumption, ListingInv, [ListingNext]_listingVars
             PROVE  ListingInv'
  OBVIOUS
<1>1. CASE Opened \/ Retry \/ ResolveHead \/ NextFeed \/ SweepVanished
  BY <1>1, OpenedStep, RetryStep, ResolveHeadStep, NextFeedStep, SweepStep
<1>2. CASE ListTree \/ ListPages \/ ListIds \/ ListRevisions \/ ListCommits
  BY <1>2, ListTreeStep, ListPagesStep, ListIdsStep, ListRevisionsStep, ListCommitsStep
<1>3. CASE RequestFails \/ BuildBreaks
  BY <1>3, EndsStep
<1>4. CASE Push \/ EditPage \/ EditCard \/ CommitLocally \/ Reconfigure
  BY <1>4, PushStep, EditPageStep, EditCardStep, CommitLocallyStep, ReconfigureStep
<1>5. CASE OtherCommits \/ OtherFails \/ \E s \in Items : OtherBegins(s)
  BY <1>5, OtherCommitsStep, OtherFailsStep, OtherBeginsStep
<1>6. ASSUME NEW ref \in Listed,
             \/ FetchFindsNothing(ref) \/ FetchUnchanged(ref) \/ FetchChanged(ref)
             \/ FetchedSourceFails(ref)
      PROVE  ListingInv'
  BY <1>6, EndsStep, UnchangedStep, ChangedStep, SourceFailsStep
<1>7. CASE UNCHANGED listingVars
  <2>1. UNCHANGED <<remote, config, rows, sess, lrun, other, clock>>
    BY <1>7 DEF listingVars
  <2>2. /\ clock' \in Nat /\ clock' >= clock /\ OtherTyped'
        /\ Working /\ lrun.fresh # {} => other' = NoOther \/ other'.at > lrun.started
    BY <2>1, RunHolds DEF ListingInv, Begun, OtherTyped, TouchesAreTimed
  <2> QED
    BY <2>1, <2>2, OtherWaits
<1> QED
  BY <1>1, <1>2, <1>3, <1>4, <1>5, <1>6, <1>7 DEF ListingNext

LEMMA ListingInvariant == ListingSpec => []ListingInv
<1>1. ListingInit => ListingInv
  BY ListingBegins, ListingAssumption
<1>2. ListingInv /\ [ListingNext]_listingVars => ListingInv'
  BY ListingKeeps, ListingAssumption
<1> QED
  BY <1>1, <1>2, PTL DEF ListingSpec

\* A document is recorded with the commit it was read at, a completed build recorded whatever
\* did not move, fail or get left out, and a changed ACL lands on all that was seen in a build
\* where no source failed (GitHubRestBackend.fetch_text, _process_sources, _touch_last_seen).
THEOREM RowsSafety == ListingSpec => []RowsMirrorTheSources
<1>1. ListingInv => RowsMirrorTheSources
  BY DEF ListingInv, VersionsName, VersionNamesContent, RowsMirrorTheSources
<1> QED
  BY <1>1, ListingInvariant, PTL

\* A build sweeps only what is gone, moved, excluded, left out of a listing or written by another
\* builder meanwhile, however its requests fail, and never what another builder began to write
\* after it (_vanished_live_sources).
THEOREM SweptOnlyGone == ListingSpec => OnlyTheGoneAreSwept
<1> DEFINE Left == \A s \in Items : rows[s].live /\ ~rows'[s].live =>
                     /\ s \notin lrun.fresh
                     /\ \/ ContentNow(s) = 0
                        \/ s \in lrun.moved \union lrun.cut \union lrun.cfg.hidden
                                   \union lrun.wrote
<1>1. ASSUME ListingAssumption, ListingInv, [ListingNext]_listingVars
      PROVE  Left
  <2>1. RowsTyped
    BY <1>1 DEF ListingInv
  <2>2. ASSUME \A s \in Items : rows[s].live => rows'[s].live
        PROVE  Left
    BY <2>2
  <2>3. CASE SweepVanished
    BY <1>1, <2>3, SweepStep
  <2>4. ASSUME NEW ref \in Listed, FetchChanged(ref)
        PROVE  Left
    <3>1. ref.src \in Items
      BY <1>1, ListedSource
    <3>2. rows' = ItemStored(sess, ref)
      BY <2>4 DEF FetchChanged
    <3>3. DOMAIN sess = Items
      BY <2>1 DEF RowsTyped
    <3>4. /\ \A s \in Items : s # ref.src => rows'[s] = sess[s]
          /\ rows'[ref.src]
               = [hash |-> TextOf(ref), made |-> TextOf(ref), ver |-> ref.ver,
                  acl |-> AclFor(ref.src), live |-> TRUE, at |-> lrun.started]
      BY <3>1, <3>2, <3>3, StoredRow
    <3>5. \A s \in Items : rows[s].live => rows'[s].live
      BY <2>1, <3>4 DEF RowsTyped
    <3> QED
      BY <2>2, <3>5
  <2>5. ASSUME NEW ref \in Listed, FetchedSourceFails(ref)
        PROVE  Left
    <3>1. ref.src \in Items
      BY <1>1, ListedSource
    <3>2. rows' = Touched(rows, ref.src)
      BY <2>5 DEF FetchedSourceFails, AfterFailure
    <3>3. \A s \in Items : rows'[s].live = rows[s].live
      BY <2>1, <3>1, <3>2, TouchedRow DEF RowsTyped, RowTyped
    <3> QED
      BY <2>2, <3>3
  <2>6. CASE OtherCommits
    <3> DEFINE row == [hash |-> ContentNow(other.src), made |-> ContentNow(other.src),
                       ver |-> VersionNow(other.src), acl |-> config.acl[FeedOf(other.src)],
                       live |-> TRUE, at |-> other.at]
    <3>1. rows' = [rows EXCEPT ![other.src] = row] /\ row.live = TRUE
      BY <2>6 DEF OtherCommits
    <3> HIDE DEF row
    <3>2. \A s \in Items : rows[s].live => rows'[s].live
      BY <2>1, <3>1 DEF RowsTyped
    <3> QED
      BY <2>2, <3>2
  <2>7. CASE rows' = rows
    BY <2>2, <2>7
  <2>8. ASSUME NEW ref \in Listed, FetchFindsNothing(ref) \/ FetchUnchanged(ref)
        PROVE  rows' = rows
    BY <2>8 DEF FetchFindsNothing, FetchUnchanged
  <2>9. CASE \/ Opened \/ Retry \/ RequestFails \/ ResolveHead \/ ListTree \/ ListPages
             \/ ListIds \/ ListRevisions \/ ListCommits \/ NextFeed \/ BuildBreaks
    BY <2>7, <2>9 DEF Opened, Retry, RequestFails, ResolveHead, ListTree, ListPages, ListIds,
                      ListRevisions, ListCommits, NextFeed, BuildBreaks
  <2>10. CASE \/ Push \/ EditPage \/ EditCard \/ CommitLocally \/ Reconfigure \/ OtherFails
              \/ (\E s \in Items : OtherBegins(s)) \/ UNCHANGED listingVars
    BY <2>7, <2>10 DEF Push, EditPage, EditCard, CommitLocally, Moves, Reconfigure, OtherFails,
                       OtherBegins, listingVars
  <2> QED
    BY <1>1, <2>3, <2>4, <2>5, <2>6, <2>7, <2>8, <2>9, <2>10 DEF ListingNext
<1>2. ListingInv /\ [ListingNext]_listingVars => [Left]_listingVars
  BY <1>1, ListingAssumption
<1> QED
  BY <1>2, ListingInvariant, PTL DEF ListingSpec, OnlyTheGoneAreSwept
================================================================================
