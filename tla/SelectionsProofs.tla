------------------------- MODULE SelectionsProofs -------------------------
(***************************************************************************)
(* What the operators on lists yield that the models are built from, for   *)
(* every list: selections by place, folds, sums and concatenations.        *)
(***************************************************************************)
EXTENDS Selections, FiniteSetTheorems, WellFoundedInduction, TLAPS

------------------------------------------------------------------------------
(* Places in an order, and what is picked from a list *)

\* Where each element of a finite set has a set of those up to it, and of any two such sets one
\* holds the other, the numbers of those up to it give each its own place, without gaps.
LEMMA PlacesFill ==
    ASSUME NEW S, IsFiniteSet(S), NEW U \in [S -> SUBSET S],
           \A x \in S : x \in U[x],
           \A x, y \in S : U[x] \subseteq U[y] \/ U[y] \subseteq U[x],
           \A x, y \in S : x \in U[y] /\ y \in U[x] => x = y
    PROVE  /\ Cardinality(S) \in Nat
           /\ \A x \in S : Cardinality(U[x]) \in 1 .. Cardinality(S)
           /\ \A x, y \in S : x \in U[y] /\ x # y => Cardinality(U[x]) < Cardinality(U[y])
           /\ \A x, y \in S : Cardinality(U[x]) = Cardinality(U[y]) => x = y
           /\ \A k \in 1 .. Cardinality(S) : \E x \in S : Cardinality(U[x]) = k
<1>1. \A T \in SUBSET S : IsFiniteSet(T) /\ Cardinality(T) \in Nat /\ Cardinality(T) <= Cardinality(S)
  BY FS_Subset, FS_CardinalityType
<1>2. Cardinality(S) \in Nat
  BY <1>1
<1>3. ASSUME NEW x \in S PROVE Cardinality(U[x]) \in 1 .. Cardinality(S)
  <2>1. U[x] \in SUBSET S /\ U[x] # {}
    OBVIOUS
  <2>2. Cardinality(U[x]) # 0
    BY <1>1, <2>1, FS_EmptySet
  <2> QED
    BY <1>1, <1>2, <2>1, <2>2
<1>4. ASSUME NEW x \in S, NEW y \in S, x \in U[y], x # y PROVE Cardinality(U[x]) < Cardinality(U[y])
  <2>1. U[x] \in SUBSET U[y] /\ U[x] # U[y] /\ U[y] \in SUBSET S
    BY <1>4
  <2>2. Cardinality(U[x]) <= Cardinality(U[y]) /\ Cardinality(U[x]) # Cardinality(U[y])
    BY <1>1, <2>1, FS_Subset
  <2> QED
    BY <1>3, <2>2
<1>5. ASSUME NEW x \in S, NEW y \in S, Cardinality(U[x]) = Cardinality(U[y]) PROVE x = y
  <2>1. x \in U[y] \/ y \in U[x]
    OBVIOUS
  <2> QED
    BY <1>3, <1>4, <1>5, <2>1
<1>6. ASSUME NEW k \in 1 .. Cardinality(S) PROVE \E x \in S : Cardinality(U[x]) = k
  <2> DEFINE p == [x \in S |-> Cardinality(U[x])]
             T == 1 .. Cardinality(S)
  <2>1. p \in Injection(S, T)
    BY <1>3, <1>5 DEF Injection, IsInjective
  <2>2. IsFiniteSet(T) /\ Cardinality(T) = Cardinality(S)
    BY <1>2, FS_Interval, 1 \in Int
  <2>3. p \in Surjection(S, T)
    <3> HIDE DEF p, T
    <3> QED
      BY <2>1, <2>2, FS_Injection
  <2> QED
    BY <2>3 DEF Surjection
<1> QED
  BY <1>2, <1>3, <1>4, <1>5, <1>6

\* A selection holds each chosen element once, and no other.
LEMMA PickedFits ==
    ASSUME NEW P, IsFiniteSet(P), \A i \in P : i \in Int, NEW s
    PROVE  /\ Cardinality(P) \in Nat
           /\ DOMAIN Picked(s, P) = 1 .. Cardinality(P)
           /\ \A k \in 1 .. Cardinality(P) : KthOf(P, k) \in P /\ Picked(s, P)[k] = s[KthOf(P, k)]
           /\ \A k, k2 \in 1 .. Cardinality(P) : KthOf(P, k) = KthOf(P, k2) => k = k2
           /\ \A i \in P : \E k \in 1 .. Cardinality(P) : KthOf(P, k) = i
<1> DEFINE upto(i) == {j \in P : j <= i}
           U == [i \in P |-> upto(i)]
<1>1. IsFiniteSet(P)
  OBVIOUS
<1>2. /\ U \in [P -> SUBSET P]
      /\ \A x \in P : x \in U[x]
      /\ \A x, y \in P : U[x] \subseteq U[y] \/ U[y] \subseteq U[x]
      /\ \A x, y \in P : x \in U[y] /\ y \in U[x] => x = y
  <2>1. \A x \in P : x \in Int
    OBVIOUS
  <2>2. \A x, y \in P : x <= y \/ y <= x
    BY <2>1
  <2>2a. ASSUME NEW x \in P, NEW y \in P, x <= y PROVE upto(x) \subseteq upto(y)
    <3>1. \A j \in P : j <= x => j <= y
      BY <2>1, <2>2a
    <3> QED
      BY <3>1
  <2>3. \A x, y \in P : x \in upto(y) /\ y \in upto(x) => x = y
    BY <2>1
  <2>4. \A x \in P : x \in upto(x) /\ upto(x) \in SUBSET P
    BY <2>1
  <2> HIDE DEF upto
  <2> QED
    BY <2>2, <2>2a, <2>3, <2>4
<1> DEFINE c(i) == Cardinality(upto(i))
<1>3. \A i \in P : Cardinality(U[i]) = c(i)
  OBVIOUS
<1> HIDE DEF U, c
<1>4. /\ Cardinality(P) \in Nat
      /\ \A i \in P : c(i) \in 1 .. Cardinality(P)
      /\ \A i, j \in P : c(i) = c(j) => i = j
      /\ \A k \in 1 .. Cardinality(P) : \E i \in P : c(i) = k
  <2>1. /\ Cardinality(P) \in Nat
        /\ \A i \in P : Cardinality(U[i]) \in 1 .. Cardinality(P)
        /\ \A i, j \in P : Cardinality(U[i]) = Cardinality(U[j]) => i = j
        /\ \A k \in 1 .. Cardinality(P) : \E i \in P : Cardinality(U[i]) = k
    <3> HIDE DEF upto
    <3>1. \A x \in P : x \in U[x]
      BY <1>2
    <3>2. \A x, y \in P : U[x] \subseteq U[y] \/ U[y] \subseteq U[x]
      BY <1>2
    <3>3. \A x, y \in P : x \in U[y] /\ y \in U[x] => x = y
      BY <1>2
    <3>4. U \in [P -> SUBSET P]
      BY <1>2
    <3> QED
      BY <1>1, <3>1, <3>2, <3>3, <3>4, PlacesFill
  <2> QED
    BY <1>3, <2>1
<1>5. ASSUME NEW k \in 1 .. Cardinality(P) PROVE KthOf(P, k) \in P /\ c(KthOf(P, k)) = k
  <2>1. KthOf(P, k) = CHOOSE i \in P : c(i) = k
    BY Zenon DEF KthOf, c
  <2> QED
    BY <1>4, <2>1
<1>6. \A i \in P : \E k \in 1 .. Cardinality(P) : KthOf(P, k) = i
  BY <1>4, <1>5
<1> QED
  BY <1>4, <1>5, <1>6 DEF Picked

------------------------------------------------------------------------------
(* Folds: FoldLeft chooses a function from sets of places to results *)

\* A set of numbers that holds 0 and, below n, each number's successor holds all up to n.
LEMMA CountUp ==
    ASSUME NEW n \in Nat, NEW Q, 0 \in Q, \A k \in 0 .. n : k \in Q /\ k < n => k + 1 \in Q
    PROVE  \A k \in 0 .. n : k \in Q
<1> DEFINE T == {k \in 0 .. n : k \notin Q}
           less == OpToRel(<, Nat)
<1> SUFFICES ASSUME T # {} PROVE FALSE
  OBVIOUS
<1>1. T \subseteq Nat
  OBVIOUS
<1>2. IsWellFoundedOn(less, Nat)
  BY NatLessThanWellFounded
<1>3. \A y, x \in Nat : y < x => <<y, x>> \in less
  BY DEF OpToRel
<1> HIDE DEF less
<1>4. PICK x \in T : \A y \in T : ~ (<<y, x>> \in less)
  <2> HIDE DEF T
  <2> QED
    BY <1>1, <1>2, WFMin, Zenon
<1>5. x # 0 /\ x - 1 \in 0 .. n /\ x - 1 \in Nat /\ x \in Nat /\ x - 1 < x /\ x - 1 < n
  OBVIOUS
<1>6. x - 1 \notin T
  BY <1>3, <1>4, <1>5
<1> QED
  BY <1>5, <1>6

\* A nonempty set of numbers up to n has its greatest element.
LEMMA MaxOfSome ==
    ASSUME NEW n \in Nat, NEW s \in SUBSET (1 .. n), s # {}
    PROVE  Max(s) \in s /\ \A y \in s : Max(s) >= y
<1> DEFINE Q == {k \in 0 .. n : \A t \in SUBSET (1 .. k) :
                                 t # {} => \E x \in t : \A y \in t : x >= y}
<1>1. 0 \in Q
  <2>1. 1 .. 0 = {} /\ \A t \in SUBSET {} : t = {}
    OBVIOUS
  <2>2. \A t \in SUBSET (1 .. 0) : t = {}
    BY <2>1, Zenon
  <2> QED
    BY <2>2, 0 \in 0 .. n
<1>2. ASSUME NEW k \in 0 .. n, k \in Q, k < n PROVE k + 1 \in Q
  <2> SUFFICES ASSUME NEW t \in SUBSET (1 .. k + 1), t # {} PROVE \E x \in t : \A y \in t : x >= y
    BY <1>2
  <2>1. CASE k + 1 \in t
    BY <2>1
  <2>2. CASE k + 1 \notin t
    <3>1. t \in SUBSET (1 .. k)
      BY <2>2
    <3> QED
      BY <1>2, <3>1
  <2> QED
    BY <2>1, <2>2
<1> HIDE DEF Q
<1>3. n \in Q
  BY <1>1, <1>2, CountUp
<1>4. \E x \in s : \A y \in s : x >= y
  BY <1>3 DEF Q
<1> QED
  BY <1>4 DEF Max

\* The steps of a fold over 1 .. n: f maps each set of places to the fold over them.
StepsOfFold(f, n, base, G) ==
    \A s \in SUBSET (1 .. n) : f[s] = IF s = {} THEN base ELSE G[<<f[s \ {Max(s)}], Max(s)>>]

\* Such an f exists: folds are defined by CHOOSE, and this is what they choose.
LEMMA FoldTable ==
    ASSUME NEW n \in Nat, NEW A, NEW base \in A, NEW G \in [A \X (1 .. n) -> A]
    PROVE  \E f \in [SUBSET (1 .. n) -> A] : StepsOfFold(f, n, base, G)
<1> DEFINE Good(k, f) == /\ f \in [SUBSET (1 .. k) -> A]
                         /\ \A s \in SUBSET (1 .. k) :
                              f[s] = IF s = {} THEN base ELSE G[<<f[s \ {Max(s)}], Max(s)>>]
           Q == {k \in 0 .. n : \E f : Good(k, f)}
<1>1. 0 \in Q
  <2>1. Good(0, [s \in SUBSET (1 .. 0) |-> base])
    <3>1. 1 .. 0 = {} /\ SUBSET {} = {{}}
      OBVIOUS
    <3> QED
      BY <3>1
  <2> QED
    BY <2>1, 0 \in 0 .. n
<1>2. ASSUME NEW k \in 0 .. n, k \in Q, k < n PROVE k + 1 \in Q
  <2>1. PICK f : Good(k, f)
    BY <1>2
  <2> DEFINE g == [s \in SUBSET (1 .. k + 1) |->
                     IF k + 1 \in s THEN G[<<f[s \ {k + 1}], k + 1>>] ELSE f[s]]
  <2>2. ASSUME NEW s \in SUBSET (1 .. k + 1)
        PROVE  /\ g[s] \in A 
               /\ g[s] = IF s = {} THEN base ELSE G[<<g[s \ {Max(s)}], Max(s)>>]
    <3>1. CASE k + 1 \in s
      <4>1. Max(s) = k + 1
        <5>1. Max(s) \in s /\ Max(s) >= k + 1
          BY <3>1, MaxOfSome, k + 1 \in Nat
        <5>2. Max(s) \in 1 .. k + 1
          BY <5>1
        <5> QED
          BY <5>1, <5>2
      <4>2. /\ s \ {k + 1} \in SUBSET (1 .. k) /\ k + 1 \notin s \ {k + 1}
            /\ s \ {k + 1} \in SUBSET (1 .. k + 1)
        OBVIOUS
      <4>3. f[s \ {k + 1}] \in A
        BY <2>1, <4>2
      <4>4. g[s] = G[<<f[s \ {k + 1}], k + 1>>] /\ g[s \ {k + 1}] = f[s \ {k + 1}]
        BY <3>1, <4>2
      <4>5. k + 1 \in 1 .. n
        BY <1>2
      <4> HIDE DEF g
      <4> QED
        BY <3>1, <4>1, <4>3, <4>4, <4>5
    <3>2. CASE k + 1 \notin s
      <4>0. s \in SUBSET (1 .. k)
        BY <3>2
      <4>1. \A d : /\ s \ {d} \in SUBSET (1 .. k) /\ k + 1 \notin s \ {d}
                   /\ s \ {d} \in SUBSET (1 .. k + 1)
        BY <3>2, <4>0
      <4>2. g[s] = f[s] /\ g[s \ {Max(s)}] = f[s \ {Max(s)}]
        BY <3>2, <4>1
      <4> HIDE DEF g
      <4> QED
        BY <2>1, <4>0, <4>1, <4>2
    <3> QED
      BY <3>1, <3>2
  <2>3. g \in [SUBSET (1 .. k + 1) -> A]
    <3> DEFINE v(s) == IF k + 1 \in s THEN G[<<f[s \ {k + 1}], k + 1>>] ELSE f[s]
    <3>1. \A s \in SUBSET (1 .. k + 1) : v(s) \in A
      BY <2>2
    <3> HIDE DEF v
    <3>2. [s \in SUBSET (1 .. k + 1) |-> v(s)] \in [SUBSET (1 .. k + 1) -> A]
      BY <3>1
    <3> QED
      BY <3>2 DEF v
  <2> HIDE DEF g
  <2>4. Good(k + 1, g)
    BY <2>2, <2>3
  <2> HIDE DEF Good
  <2> QED
    BY <2>4, <1>2
<1> HIDE DEF Q
<1>3. n \in Q
  BY <1>1, <1>2, CountUp
<1> QED
  BY <1>3 DEF Q, StepsOfFold

\* The places of a fold, taken from the last to the first.
LEMMA PrefixesOf ==
    ASSUME NEW n \in Nat
    PROVE  /\ 1 .. 0 = {}
           /\ \A k \in 1 .. n : /\ 1 .. k \in SUBSET (1 .. n) /\ 1 .. k - 1 \in SUBSET (1 .. n)
                                /\ 1 .. k # {} /\ Max(1 .. k) = k /\ (1 .. k) \ {k} = 1 .. k - 1
<1>1. ASSUME NEW k \in 1 .. n PROVE Max(1 .. k) = k
  <2>1. k \in Nat /\ k \in 1 .. k /\ 1 .. k \in SUBSET (1 .. k)
    OBVIOUS
  <2>2. 1 .. k # {}
    BY <2>1
  <2>3. Max(1 .. k) \in 1 .. k /\ Max(1 .. k) >= k
    BY <2>1, <2>2, MaxOfSome
  <2> QED
    BY <2>1, <2>3
<1>2. \A k \in 1 .. n : k - 1 \in Nat
  OBVIOUS
<1>3. ASSUME NEW k \in 1 .. n PROVE (1 .. k) \ {k} = 1 .. k - 1
  OBVIOUS
<1>4. 1 .. 0 = {}
  OBVIOUS
<1>5. \A k \in 1 .. n : 1 .. k \in SUBSET (1 .. n) /\ 1 .. k - 1 \in SUBSET (1 .. n) /\ k \in 1 .. k
  OBVIOUS
<1> HIDE DEF Max
<1> QED
  BY <1>1, <1>3, <1>4, <1>5

\* ... as far as the results stay in A.
TypedSteps(h, n, A, base, G) ==
    /\ h[{}] = base
    /\ \A s \in SUBSET (1 .. n) :
         s # {} /\ h[s \ {Max(s)}] \in A => h[s] = G[<<h[s \ {Max(s)}], Max(s)>>]

\* K[k] holds before step k + 1, whatever the steps are.
Carried(n, base, G, K) ==
    base \in K[0] /\ \A k \in 1 .. n : \A a \in K[k - 1] : G[<<a, k>>] \in K[k]

\* What holds of the start of a fold, and is carried over each step, holds of its result.
LEMMA FoldReaches ==
    ASSUME NEW n \in Nat, NEW A, NEW base \in A, NEW G \in [A \X (1 .. n) -> A],
           NEW K \in [0 .. n -> SUBSET A], Carried(n, base, G, K),
           NEW h, TypedSteps(h, n, A, base, G)
    PROVE  h[1 .. n] \in K[n]
<1> USE DEF Carried, TypedSteps
<1> DEFINE Q == {k \in 0 .. n : h[1 .. k] \in K[k]}
<1>1. 0 \in Q
  <2>1. h[1 .. 0] = base
    BY PrefixesOf
  <2> QED
    BY <2>1
<1>2. ASSUME NEW k \in 0 .. n, k \in Q, k < n PROVE k + 1 \in Q
  <2> DEFINE s == 1 .. k + 1
  <2>1. k + 1 \in 1 .. n /\ (k + 1) - 1 = k
    BY <1>2
  <2>2. s \in SUBSET (1 .. n) /\ s # {} /\ Max(s) = k + 1 /\ s \ {k + 1} = 1 .. k
    BY <2>1, PrefixesOf
  <2>3. h[1 .. k] \in K[k] /\ h[1 .. k] \in A
    BY <1>2
  <2> HIDE DEF s
  <2>4. h[s] = G[<<h[1 .. k], k + 1>>]
    BY <2>2, <2>3
  <2>5. G[<<h[1 .. k], k + 1>>] \in K[k + 1]
    BY <2>1, <2>3
  <2> QED
    BY <2>1, <2>4, <2>5 DEF s
<1> HIDE DEF Q
<1>3. \A k \in 0 .. n : k \in Q
  BY <1>1, <1>2, CountUp
<1> QED
  BY <1>3 DEF Q

------------------------------------------------------------------------------
(* Sequences *)

\* Each element of the sequence s is one of the sequence r.
Includes(r, s) == \A i \in DOMAIN s : \E k \in DOMAIN r : r[k] = s[i]

\* What r holds of s, it holds of all that s holds.
LEMMA HoldsOn ==
    ASSUME NEW r, NEW s, NEW t, Includes(r, s), Includes(s, t)
    PROVE  Includes(r, t)
BY Zenon DEF Includes

\* Two sequences, joined, hold what each of them holds.
LEMMA JoinHolds ==
    ASSUME NEW A, NEW s \in Seq(A), NEW t \in Seq(A)
    PROVE  s \o t \in Seq(A) /\ Includes(s \o t, s) /\ Includes(s \o t, t)
<1>1. s \o t \in Seq(A) /\ Len(s \o t) = Len(s) + Len(t) /\ Len(s) \in Nat /\ Len(t) \in Nat
  OBVIOUS
<1>2. DOMAIN s = 1 .. Len(s) /\ DOMAIN t = 1 .. Len(t) /\ DOMAIN (s \o t) = 1 .. Len(s) + Len(t)
  BY <1>1
<1>3. ASSUME NEW i \in DOMAIN s PROVE \E k \in DOMAIN (s \o t) : (s \o t)[k] = s[i]
  <2>1. i \in DOMAIN (s \o t) /\ (s \o t)[i] = s[i]
    BY <1>1, <1>2
  <2> QED
    BY <2>1
<1>4. ASSUME NEW i \in DOMAIN t PROVE \E k \in DOMAIN (s \o t) : (s \o t)[k] = t[i]
  <2>1. Len(s) + i \in DOMAIN (s \o t) /\ (s \o t)[Len(s) + i] = t[i]
    BY <1>1, <1>2
  <2> QED
    BY <2>1
<1> QED
  BY <1>1, <1>3, <1>4, Zenon DEF Includes

\* One sequence after another.
LEMMA JoinFits ==
    ASSUME NEW A, NEW s \in Seq(A), NEW t \in Seq(A)
    PROVE  /\ Len(s) \in Nat /\ Len(t) \in Nat /\ DOMAIN s = 1 .. Len(s) /\ DOMAIN t = 1 .. Len(t)
           /\ Len(s \o t) = Len(s) + Len(t) /\ DOMAIN (s \o t) = 1 .. Len(s) + Len(t)
           /\ \A i \in 1 .. Len(s) : (s \o t)[i] = s[i]
           /\ \A i \in 1 .. Len(s) + Len(t) : i \in 1 .. Len(s) \/ (i - Len(s) \in 1 .. Len(t)
                                                                    /\ (s \o t)[i] = t[i - Len(s)])
           /\ ToSet(s \o t) = ToSet(s) \union ToSet(t)
<1> DEFINE u == s \o t
           a == Len(s)
           b == Len(t)
<1>1. a \in Nat /\ b \in Nat /\ DOMAIN s = 1 .. a /\ DOMAIN t = 1 .. b
  OBVIOUS
<1>2. Len(u) = a + b /\ DOMAIN u = 1 .. a + b /\ \A i \in 1 .. a : u[i] = s[i]
  OBVIOUS
<1>3. \A i \in 1 .. a + b : i \in 1 .. a \/ (i - a \in 1 .. b /\ u[i] = t[i - a])
  OBVIOUS
<1>4. \A i \in 1 .. b : a + i \in 1 .. a + b /\ u[a + i] = t[i]
  OBVIOUS
<1> HIDE DEF u, a, b
<1>5. \A i \in 1 .. a : i \in 1 .. a + b
  BY <1>1
<1>6. ToSet(u) = ToSet(s) \union ToSet(t)
  <2>1. ASSUME NEW x \in ToSet(u) PROVE x \in ToSet(s) \union ToSet(t)
    <3>1. PICK i \in 1 .. a + b : x = u[i]
      BY <1>2 DEF ToSet
    <3> QED
      BY <1>1, <1>2, <1>3, <3>1 DEF ToSet
  <2>2. ASSUME NEW x \in ToSet(s) PROVE x \in ToSet(u)
    <3>1. PICK i \in 1 .. a : x = s[i]
      BY <1>1 DEF ToSet
    <3> QED
      BY <1>2, <1>5, <3>1 DEF ToSet
  <2>3. ASSUME NEW x \in ToSet(t) PROVE x \in ToSet(u)
    <3>1. PICK i \in 1 .. b : x = t[i]
      BY <1>1 DEF ToSet
    <3> QED
      BY <1>2, <1>4, <3>1 DEF ToSet
  <2> QED
    BY <2>1, <2>2, <2>3
<1> QED
  BY <1>1, <1>2, <1>3, <1>6 DEF u, a, b

\* The members of a sequence with one more.
LEMMA AppendHolds ==
    ASSUME NEW A, NEW s \in Seq(A), NEW x \in A
    PROVE  /\ Append(s, x) \in Seq(A) /\ Len(Append(s, x)) = Len(s) + 1 /\ Len(s) \in Nat
           /\ \A i \in 1 .. Len(s) : Append(s, x)[i] = s[i]
           /\ Append(s, x)[Len(s) + 1] = x
           /\ DOMAIN s = 1 .. Len(s) /\ DOMAIN Append(s, x) = 1 .. Len(s) + 1
           /\ ToSet(Append(s, x)) = ToSet(s) \union {x}
<1>1. /\ Append(s, x) \in Seq(A) /\ Len(Append(s, x)) = Len(s) + 1 /\ Len(s) \in Nat
      /\ \A i \in 1 .. Len(s) : Append(s, x)[i] = s[i]
      /\ Append(s, x)[Len(s) + 1] = x
      /\ DOMAIN s = 1 .. Len(s) /\ DOMAIN Append(s, x) = 1 .. Len(s) + 1
  OBVIOUS
<1> DEFINE t == Append(s, x)
<1> HIDE DEF t
<1>2. ToSet(t) = ToSet(s) \union {x}
  <2>1. 1 .. Len(s) + 1 = (1 .. Len(s)) \union {Len(s) + 1}
    BY <1>1
  <2> QED
    BY <1>1, <2>1 DEF ToSet, t
<1> QED
  BY <1>1, <1>2 DEF t

\* A piece of a sequence up to some place.
LEMMA PrefixFits ==
    ASSUME NEW A, NEW s \in Seq(A), NEW m \in 0 .. Len(s)
    PROVE  /\ SubSeq(s, 1, m) \in Seq(A) /\ Len(SubSeq(s, 1, m)) = m
           /\ DOMAIN SubSeq(s, 1, m) = 1 .. m
           /\ \A i \in 1 .. m : SubSeq(s, 1, m)[i] = s[i] /\ i \in DOMAIN s
  OBVIOUS

\* What is over of a sequence when its first element is taken.
LEMMA TailFits ==
    ASSUME NEW A, NEW s \in Seq(A), s # <<>>
    PROVE  /\ Head(s) \in A /\ Head(s) = s[1] /\ Tail(s) \in Seq(A) /\ Len(Tail(s)) = Len(s) - 1 /\ Len(s) > 0
           /\ \A k \in 1 .. Len(s) - 1 : Tail(s)[k] = s[k + 1]
           /\ DOMAIN Tail(s) = 1 .. Len(s) - 1 /\ DOMAIN s = 1 .. Len(s)
  OBVIOUS

------------------------------------------------------------------------------
(* Selections *)

\* A nonempty set of numbers up to n has its least element.
LEMMA MinOfSome ==
    ASSUME NEW n \in Nat, NEW s \in SUBSET (0 .. n), s # {}
    PROVE  Min(s) \in s /\ \A y \in s : Min(s) <= y
<1> DEFINE R == {k \in 0 .. n : (\E y \in s : y <= k) => \E x \in s : \A y \in s : x <= y}
<1>1. 0 \in R
  OBVIOUS
<1>2. ASSUME NEW k \in 0 .. n, k \in R, k < n PROVE k + 1 \in R
  <2> SUFFICES ASSUME NEW z \in s, z <= k + 1 PROVE \E x \in s : \A y \in s : x <= y
    BY <1>2
  <2>1. CASE \E y \in s : y <= k
    BY <1>2, <2>1
  <2>2. CASE ~ \E y \in s : y <= k
    <3>1. z = k + 1 /\ \A y \in s : z <= y
      BY <2>2
    <3> QED
      BY <3>1
  <2> QED
    BY <2>1, <2>2
<1> HIDE DEF R
<1>3. n \in R
  BY <1>1, <1>2, CountUp
<1>4. \E x \in s : \A y \in s : x <= y
  <2>1. \A y \in s : y \in 0 .. n /\ y <= n
    OBVIOUS
  <2> QED
    BY <1>3, <2>1 DEF R
<1> QED
  BY <1>4 DEF Min

\* Every chosen place is some place of the selection.
LEMMA PickedHolds ==
    ASSUME NEW n \in Nat, NEW P \in SUBSET (1 .. n), NEW s
    PROVE  /\ Cardinality(P) \in Nat
           /\ \A i \in P : \E k \in DOMAIN Picked(s, P) : Picked(s, P)[k] = s[i]
<1>1. IsFiniteSet(P)
  <2>1. IsFiniteSet(1 .. n)
    BY FS_Interval
  <2> QED
    BY <2>1, FS_Subset
<1>2. \A i \in P : i \in Int
  OBVIOUS
<1>3. /\ Cardinality(P) \in Nat
      /\ DOMAIN Picked(s, P) = 1 .. Cardinality(P)
      /\ \A k \in 1 .. Cardinality(P) : KthOf(P, k) \in P /\ Picked(s, P)[k] = s[KthOf(P, k)]
      /\ \A i \in P : \E k \in 1 .. Cardinality(P) : KthOf(P, k) = i
  BY <1>1, <1>2, PickedFits
<1> QED
  BY <1>3

\* The k-th of a set of numbers is the one that k of them do not exceed.
LEMMA KthFits ==
    ASSUME NEW P, IsFiniteSet(P), \A i \in P : i \in Int
    PROVE  /\ Cardinality(P) \in Nat
           /\ \A k \in 1 .. Cardinality(P) :
                KthOf(P, k) \in P /\ Cardinality({j \in P : j <= KthOf(P, k)}) = k
           /\ \A i, i2 \in P : Cardinality({j \in P : j <= i}) = Cardinality({j \in P : j <= i2}) => i = i2
           /\ \A i \in P : Cardinality({j \in P : j <= i}) \in 1 .. Cardinality(P)
           /\ \A i, i2 \in P : i < i2 => Cardinality({j \in P : j <= i}) < Cardinality({j \in P : j <= i2})
<1> DEFINE upto(i) == {j \in P : j <= i}
           U == [i \in P |-> upto(i)]
           c(i) == Cardinality(upto(i))
<1>1. /\ U \in [P -> SUBSET P]
      /\ \A x \in P : x \in U[x]
      /\ \A x, y \in P : U[x] \subseteq U[y] \/ U[y] \subseteq U[x]
      /\ \A x, y \in P : x \in U[y] /\ y \in U[x] => x = y
  <2>1. \A x \in P : x \in Int
    OBVIOUS
  <2>2. \A x, y \in P : x <= y \/ y <= x
    BY <2>1
  <2>3. ASSUME NEW x \in P, NEW y \in P, x <= y PROVE upto(x) \subseteq upto(y)
    <3>1. \A j \in P : j <= x => j <= y
      BY <2>1, <2>3
    <3> QED
      BY <3>1
  <2>4. \A x, y \in P : x \in upto(y) /\ y \in upto(x) => x = y
    BY <2>1
  <2>5. \A x \in P : x \in upto(x) /\ upto(x) \in SUBSET P
    BY <2>1
  <2> HIDE DEF upto
  <2> QED
    BY <2>2, <2>3, <2>4, <2>5
<1>2. \A i, i2 \in P : i < i2 => i \in upto(i2) /\ i # i2
  OBVIOUS
<1>3. \A i \in P : Cardinality(U[i]) = c(i) /\ U[i] = upto(i)
  OBVIOUS
<1> HIDE DEF U
<1>4. /\ Cardinality(P) \in Nat
      /\ \A x \in P : Cardinality(U[x]) \in 1 .. Cardinality(P)
      /\ \A x, y \in P : x \in U[y] /\ x # y => Cardinality(U[x]) < Cardinality(U[y])
      /\ \A x, y \in P : Cardinality(U[x]) = Cardinality(U[y]) => x = y
      /\ \A k \in 1 .. Cardinality(P) : \E x \in P : Cardinality(U[x]) = k
  <2> HIDE DEF upto, c
  <2> QED
    BY <1>1, PlacesFill
<1>5. ASSUME NEW k \in 1 .. Cardinality(P) PROVE KthOf(P, k) \in P /\ c(KthOf(P, k)) = k
  <2>1. KthOf(P, k) = CHOOSE i \in P : c(i) = k
    BY Zenon DEF KthOf, c
  <2> HIDE DEF c
  <2> QED
    BY <1>3, <1>4, <2>1
<1>6. /\ \A x, y \in P : c(x) = c(y) => x = y
      /\ \A x \in P : c(x) \in 1 .. Cardinality(P)
      /\ \A x, y \in P : x < y => c(x) < c(y)
  <2> HIDE DEF c, upto
  <2> QED
    BY <1>2, <1>3, <1>4
<1> QED
  BY <1>4, <1>5, <1>6, Zenon DEF c, upto

\* Append, under a name that the provers leave folded.
OneMore(s, x) == Append(s, x)

\* What is picked of a sequence with one element more.
LEMMA PickedGrows ==
    ASSUME NEW A, NEW s \in Seq(A), NEW x \in A, NEW P \in SUBSET (1 .. Len(s))
    PROVE  /\ Picked(s, P) \in Seq(A)
           /\ Picked(OneMore(s, x), P) = Picked(s, P)
           /\ Picked(OneMore(s, x), P \union {Len(s) + 1}) = OneMore(Picked(s, P), x)
<1> DEFINE n == Len(s)
           t == OneMore(s, x)
           R == P \union {n + 1}
           c == Cardinality(P)
<1>1. /\ n \in Nat /\ DOMAIN s = 1 .. n /\ \A i \in 1 .. n : s[i] \in A /\ t[i] = s[i]
      /\ t[n + 1] = x
  BY AppendHolds DEF OneMore
<1>2. IsFiniteSet(P) /\ IsFiniteSet(R) /\ n + 1 \notin P /\ (\A i \in P : i \in Int /\ i <= n) /\ \A i \in R : i \in Int
  <2>1. IsFiniteSet(1 .. n)
    BY <1>1, FS_Interval
  <2>2. IsFiniteSet(P)
    BY <2>1, FS_Subset
  <2>3. IsFiniteSet(R)
    BY <2>2, FS_AddElement
  <2> QED
    BY <1>1, <2>2, <2>3
<1>3. c \in Nat /\ Cardinality(R) = c + 1
  BY <1>2, FS_AddElement, FS_CardinalityType
<1> HIDE DEF t, n
<1>4. \A k \in 1 .. c : KthOf(P, k) \in P /\ Cardinality({j \in P : j <= KthOf(P, k)}) = k
  BY <1>2, KthFits
<1>5. /\ \A i, i2 \in R : Cardinality({j \in R : j <= i}) = Cardinality({j \in R : j <= i2}) => i = i2
      /\ \A k \in 1 .. Cardinality(R) : KthOf(R, k) \in R /\ Cardinality({j \in R : j <= KthOf(R, k)}) = k
  <2> HIDE DEF R
  <2> QED
    BY <1>2, KthFits
<1>6. ASSUME NEW k \in 1 .. c PROVE KthOf(R, k) = KthOf(P, k) /\ KthOf(P, k) \in P
  <2>1. KthOf(P, k) \in P /\ Cardinality({j \in P : j <= KthOf(P, k)}) = k
    BY <1>4
  <2>2. {j \in R : j <= KthOf(P, k)} = {j \in P : j <= KthOf(P, k)}
    <3>1. KthOf(P, k) \in Int /\ KthOf(P, k) <= n
      BY <1>2, <2>1
    <3>2. ~ (n + 1 <= KthOf(P, k))
      BY <1>1, <3>1
    <3> QED
      BY <3>2
  <2>3. k \in 1 .. Cardinality(R) /\ KthOf(P, k) \in R
    BY <1>3, <2>1
  <2> QED
    BY <1>5, <2>1, <2>2, <2>3
<1>7. KthOf(R, c + 1) = n + 1
  <2>1. {j \in R : j <= n + 1} = R /\ n + 1 \in R /\ c + 1 \in 1 .. Cardinality(R)
    <3>1. \A j \in R : j <= n + 1
      BY <1>1, <1>2
    <3>2. {j \in R : j <= n + 1} = R
      BY <3>1
    <3> QED
      BY <1>3, <3>2
  <2> QED
    BY <1>3, <1>5, <2>1
<1>8. \A k \in 1 .. c : Picked(s, P)[k] = s[KthOf(P, k)] /\ KthOf(P, k) \in 1 .. n
  BY <1>4 DEF Picked, n
<1>9. Picked(s, P) \in Seq(A) /\ Len(Picked(s, P)) = c /\ Picked(s, P) = [k \in 1 .. c |-> s[KthOf(P, k)]]
  <2>1. Picked(s, P) = [k \in 1 .. c |-> s[KthOf(P, k)]]
    BY DEF Picked
  <2>2. \A k \in 1 .. c : s[KthOf(P, k)] \in A
    BY <1>1, <1>8
  <2> HIDE DEF c
  <2> QED
    BY <1>3, <2>1, <2>2
<1>10. Picked(t, P) = [k \in 1 .. c |-> s[KthOf(P, k)]]
  <2>1. \A k \in 1 .. c : t[KthOf(P, k)] = s[KthOf(P, k)]
    BY <1>1, <1>8
  <2> QED
    BY <2>1 DEF Picked
<1>11. Picked(t, R) = [k \in 1 .. c + 1 |-> IF k = c + 1 THEN x ELSE s[KthOf(P, k)]]
  <2>1. \A k \in 1 .. c + 1 : t[KthOf(R, k)] = IF k = c + 1 THEN x ELSE s[KthOf(P, k)]
    <3> SUFFICES ASSUME NEW k \in 1 .. c + 1
                 PROVE  t[KthOf(R, k)] = IF k = c + 1 THEN x ELSE s[KthOf(P, k)]
      OBVIOUS
    <3>1. CASE k = c + 1
      BY <1>1, <1>7, <3>1
    <3>2. CASE k # c + 1
      <4>1. k \in 1 .. c
        BY <1>3, <3>2
      <4> QED
        BY <1>1, <1>6, <1>8, <3>2, <4>1
    <3> QED
      BY <3>1, <3>2
  <2> HIDE DEF R, c
  <2> QED
    BY <1>3, <2>1 DEF Picked
<1>12. Append(Picked(s, P), x) = [k \in 1 .. c + 1 |-> IF k = c + 1 THEN x ELSE s[KthOf(P, k)]]
  <2> DEFINE p == Picked(s, P)
  <2>1. p \in Seq(A) /\ Len(p) = c /\ \A k \in 1 .. c : p[k] = s[KthOf(P, k)]
    BY <1>9
  <2> HIDE DEF p, c
  <2>2. Append(p, x) = [k \in 1 .. c + 1 |-> IF k = c + 1 THEN x ELSE p[k]]
    <3>1. Append(p, x) \in Seq(A) /\ Len(Append(p, x)) = c + 1
          /\ (\A i \in 1 .. c : Append(p, x)[i] = p[i]) /\ Append(p, x)[c + 1] = x
      BY <2>1, AppendHolds
    <3> DEFINE q == Append(p, x)
    <3> HIDE DEF q
    <3>2. q \in Seq(A) /\ Len(q) = c + 1 /\ (\A i \in 1 .. c : q[i] = p[i]) /\ q[c + 1] = x
      BY <3>1 DEF q
    <3>3. q = [k \in 1 .. c + 1 |-> q[k]]
      BY <3>2
    <3>4. \A k \in 1 .. c + 1 : k # c + 1 => k \in 1 .. c
      BY <1>3
    <3> QED
      BY <3>2, <3>4, <3>3 DEF q
  <2>3. \A k \in 1 .. c + 1 : k # c + 1 => k \in 1 .. c
    BY <1>3
  <2> QED
    BY <2>1, <2>2, <2>3 DEF p
<1> QED
  BY <1>9, <1>10, <1>11, <1>12 DEF t, n, OneMore

------------------------------------------------------------------------------
(* Functions on the numbers *)

\* A function on the numbers that starts at base and goes on by G.
GoesOn(f, base, G) == f[0] = base /\ \A n \in Nat : f[n + 1] = G[f[n]]

\* There is one.
LEMMA CountingOn ==
    ASSUME NEW A, NEW base \in A, NEW G \in [A -> A]
    PROVE  \E f \in [Nat -> A] : GoesOn(f, base, G)
<1> DEFINE Good(k, g) == g \in [0 .. k -> A] /\ g[0] = base /\ \A j \in 0 .. k - 1 : g[j + 1] = G[g[j]]
<1>1. ASSUME NEW k \in Nat PROVE \E g : Good(k, g)
  <2> DEFINE Q == {j \in 0 .. k : \E g : Good(j, g)}
  <2>1. 0 \in Q
    <3>1. Good(0, [j \in 0 .. 0 |-> base])
      OBVIOUS
    <3> QED
      BY <3>1, 0 \in 0 .. k
  <2>2. ASSUME NEW j \in 0 .. k, j \in Q, j < k PROVE j + 1 \in Q
    <3>1. PICK g : Good(j, g)
      BY <2>2
    <3> DEFINE h == [i \in 0 .. j + 1 |-> IF i = j + 1 THEN G[g[j]] ELSE g[i]]
    <3>2. Good(j + 1, h)
      <4>1. j \in Nat /\ g[j] \in A /\ G[g[j]] \in A
        BY <3>1
      <4>2. \A i \in 0 .. j + 1 : i = j + 1 \/ (i \in 0 .. j /\ i # j + 1)
        BY <4>1
      <4>3. h \in [0 .. j + 1 -> A]
        BY <3>1, <4>1, <4>2
      <4>4. h[0] = base
        BY <3>1, <4>1
      <4>5. \A i \in 0 .. j : h[i + 1] = G[h[i]]
        <5> SUFFICES ASSUME NEW i \in 0 .. j PROVE h[i + 1] = G[h[i]]
          OBVIOUS
        <5>1. h[i] = g[i] /\ i \in 0 .. j + 1 /\ i + 1 \in 0 .. j + 1
          BY <4>1
        <5>2. CASE i = j
          BY <4>1, <5>1, <5>2
        <5>3. CASE i # j
          <6>1. i \in 0 .. j - 1 /\ i + 1 # j + 1
            BY <4>1, <5>3
          <6> QED
            BY <3>1, <5>1, <6>1
        <5> QED
          BY <5>2, <5>3
      <4>6. (j + 1) - 1 = j
        BY <4>1
      <4> HIDE DEF h
      <4> QED
        BY <4>3, <4>4, <4>5, <4>6
    <3> HIDE DEF Good
    <3> QED
      BY <2>2, <3>2
  <2> HIDE DEF Q
  <2>3. k \in Q
    BY <2>1, <2>2, CountUp
  <2> QED
    BY <2>3 DEF Q
<1>2. ASSUME NEW k \in Nat, NEW g, Good(k, g), NEW h, Good(k + 1, h) PROVE h[k] = g[k]
  <2> DEFINE Q == {j \in 0 .. k : h[j] = g[j]}
  <2>1. 0 \in Q
    BY <1>2
  <2>2. ASSUME NEW j \in 0 .. k, j \in Q, j < k PROVE j + 1 \in Q
    <3>1. j \in 0 .. k - 1 /\ j \in 0 .. (k + 1) - 1 /\ j + 1 \in 0 .. k
      BY <2>2
    <3> QED
      BY <1>2, <2>2, <3>1
  <2> HIDE DEF Q
  <2>3. k \in Q
    BY <2>1, <2>2, CountUp
  <2> QED
    BY <2>3 DEF Q
<1> DEFINE upTo(k) == CHOOSE g : Good(k, g)
           f == [n \in Nat |-> upTo(n)[n]]
<1>3. \A k \in Nat : Good(k, upTo(k))
  <2> HIDE DEF Good
  <2> QED
    BY <1>1
<1> HIDE DEF upTo
<1>4. f \in [Nat -> A]
  BY <1>3
<1>5. f[0] = base
  BY <1>3
<1>6. ASSUME NEW n \in Nat PROVE f[n + 1] = G[f[n]]
  <2>1. n + 1 \in Nat /\ n \in 0 .. (n + 1) - 1
    OBVIOUS
  <2>2. upTo(n + 1)[n + 1] = G[upTo(n + 1)[n]]
    BY <1>3, <2>1
  <2>3. upTo(n + 1)[n] = upTo(n)[n]
    <3> HIDE DEF Good
    <3> QED
      BY <1>2, <1>3, <2>1
  <2> QED
    BY <2>1, <2>2, <2>3
<1> QED
  BY <1>4, <1>5, <1>6 DEF GoesOn

------------------------------------------------------------------------------
(* Sums and concatenations of lists *)

\* The sums of the beginnings of a list.
SumsOf(s, h) == h[0] = 0 /\ \A k \in 1 .. Len(s) : h[k] = h[k - 1] + s[k]

\* The total of a list of numbers is the last of its sums.
LEMMA TotalTable ==
    ASSUME NEW s \in Seq(Int)
    PROVE  \E h \in [0 .. Len(s) -> Int] : SumsOf(s, h) /\ Total(s) = h[Len(s)]
<1> DEFINE n == Len(s)
           plus(a, j) == a + s[j]
           G == [p \in Int \X (1 .. n) |-> plus(p[1], p[2])]
           Eq(f) == f = [t \in SUBSET DOMAIN s |-> IF t = {} THEN 0 ELSE plus(f[t \ {Max(t)}], Max(t))]
<1>1. n \in Nat /\ DOMAIN s = 1 .. n /\ \A j \in 1 .. n : s[j] \in Int
  OBVIOUS
<1> HIDE DEF n
<1>2. G \in [Int \X (1 .. n) -> Int] /\ \A a \in Int, j \in 1 .. n : G[<<a, j>>] = plus(a, j)
  BY <1>1
<1> HIDE DEF G
<1>3. PICK f \in [SUBSET (1 .. n) -> Int] : StepsOfFold(f, n, 0, G)
  <2>1. 0 \in Int /\ G \in [Int \X (1 .. n) -> Int]
    BY <1>2
  <2> HIDE DEF plus, Eq
  <2> QED
    BY <1>1, <2>1, FoldTable
<1>4. ASSUME NEW t \in SUBSET (1 .. n), t # {}
      PROVE  t \ {Max(t)} \in SUBSET (1 .. n) /\ Max(t) \in 1 .. n /\ f[t \ {Max(t)}] \in Int
  BY <1>1, <1>4, MaxOfSome
<1> HIDE DEF plus
<1>5. \A t \in SUBSET (1 .. n) : f[t] = IF t = {} THEN 0 ELSE plus(f[t \ {Max(t)}], Max(t))
  BY <1>2, <1>3, <1>4 DEF StepsOfFold
<1>6. Eq(f)
  BY <1>1, <1>3, <1>5
<1> DEFINE g == CHOOSE x : Eq(x)
<1>7. Eq(g)
  <2> HIDE DEF Eq
  <2> QED
    BY <1>6
<1>8. Total(s) = g[DOMAIN s]
  BY Zenon DEF Total, FoldLeft, MapThenFoldSet, plus
<1> HIDE DEF g
<1>9. g[{}] = 0 /\ \A t \in SUBSET (1 .. n) : t # {} => g[t] = plus(g[t \ {Max(t)}], Max(t))
  BY <1>1, <1>7
<1> HIDE DEF Eq
<1> DEFINE h == [k \in 0 .. n |-> g[1 .. k]]
<1>10. h[0] = 0 /\ \A k \in 1 .. n : h[k] = h[k - 1] + s[k]
  <2>1. \A k \in 1 .. n : k \in 0 .. n /\ k - 1 \in 0 .. n
    BY <1>1
  <2>2. ASSUME NEW k \in 1 .. n PROVE h[k] = h[k - 1] + s[k]
    <3>1. g[1 .. k] = plus(g[1 .. k - 1], k)
      <4>1. /\ 1 .. k \in SUBSET (1 .. n) /\ 1 .. k # {} /\ Max(1 .. k) = k
            /\ (1 .. k) \ {k} = 1 .. k - 1
        BY <1>1, PrefixesOf
      <4>2. g[1 .. k] = plus(g[(1 .. k) \ {Max(1 .. k)}], Max(1 .. k))
        BY <1>9, <4>1
      <4> QED
        BY <4>1, <4>2
    <3> QED
      BY <2>1, <3>1 DEF plus
  <2>3. h[0] = 0
    BY <1>1, <1>9, PrefixesOf
  <2> QED
    BY <2>2, <2>3
<1>11. h \in [0 .. n -> Int]
  <2> DEFINE Q == {k \in 0 .. n : h[k] \in Int}
  <2> HIDE DEF h
  <2>1. 0 \in Q
    BY <1>1, <1>10
  <2>2. ASSUME NEW k \in 0 .. n, k \in Q, k < n PROVE k + 1 \in Q
    <3>1. k + 1 \in 1 .. n /\ (k + 1) - 1 = k
      BY <1>1, <2>2
    <3> QED
      BY <1>1, <1>10, <2>2, <3>1
  <2>3. \A k \in 0 .. n : h[k] \in Int
    <3>1. \A k \in 0 .. n : k \in Q
      <4> HIDE DEF Q
      <4> QED
        BY <1>1, <2>1, <2>2, CountUp
    <3> QED
      BY <3>1
  <2> QED
    BY <2>3 DEF h
<1>12. Total(s) = h[n]
  BY <1>1, <1>8
<1> QED
  BY <1>10, <1>11, <1>12 DEF SumsOf, n

\* ... and no other table has its sums.
LEMMA TotalIs ==
    ASSUME NEW s \in Seq(Int), NEW h, SumsOf(s, h)
    PROVE  Total(s) = h[Len(s)]
<1> DEFINE n == Len(s)
<1>1. n \in Nat /\ \A k \in 1 .. n : s[k] \in Int
  OBVIOUS
<1>2. PICK g \in [0 .. n -> Int] : SumsOf(s, g) /\ Total(s) = g[n]
  BY TotalTable
<1> DEFINE Q == {k \in 0 .. n : h[k] = g[k]}
<1>3. 0 \in Q
  BY <1>1, <1>2 DEF SumsOf
<1>4. ASSUME NEW k \in 0 .. n, k \in Q, k < n PROVE k + 1 \in Q
  <2>1. k + 1 \in 1 .. n /\ (k + 1) - 1 = k
    BY <1>1, <1>4
  <2> QED
    BY <1>1, <1>2, <1>4, <2>1 DEF SumsOf
<1>5. \A k \in 0 .. n : k \in Q
  <2> HIDE DEF Q, n
  <2> QED
    BY <1>1, <1>3, <1>4, CountUp
<1> QED
  BY <1>1, <1>2, <1>5

\* The total of a list with one number more.
LEMMA TotalGrows ==
    ASSUME NEW s \in Seq(Int), NEW x \in Int
    PROVE  Total(s) \in Int /\ Total(<<>>) = 0 /\ Total(Append(s, x)) = Total(s) + x
<1> DEFINE t == Append(s, x)
           n == Len(s)
<1>1. /\ t \in Seq(Int) /\ Len(t) = n + 1 /\ n \in Nat
      /\ \A i \in 1 .. n : t[i] = s[i]
      /\ t[n + 1] = x
  BY AppendHolds
<1>2. Total(<<>>) = 0
  <2>1. <<>> \in Seq(Int) /\ Len(<<>>) = 0
    OBVIOUS
  <2>2. SumsOf(<<>>, [k \in 0 .. 0 |-> 0])
    BY DEF SumsOf
  <2>3. Total(<<>>) = [k \in 0 .. 0 |-> 0][Len(<<>>)]
    BY <2>1, <2>2, TotalIs
  <2> QED
    BY <2>1, <2>3
<1> HIDE DEF t, n
<1>3. PICK h \in [0 .. n -> Int] : SumsOf(s, h) /\ Total(s) = h[n]
  BY TotalTable DEF n
<1> DEFINE g == [k \in 0 .. n + 1 |-> IF k = n + 1 THEN h[n] + x ELSE h[k]]
<1>4. SumsOf(t, g)
  <2>1. 0 \in 0 .. n + 1 /\ 0 # n + 1 /\ h[0] = 0
    BY <1>1, <1>3 DEF SumsOf
  <2>2. ASSUME NEW k \in 1 .. n + 1 PROVE g[k] = g[k - 1] + t[k]
    <3>1. k - 1 \in 0 .. n /\ k \in 0 .. n + 1 /\ k - 1 \in 0 .. n + 1 /\ k - 1 # n + 1
      BY <1>1
    <3>2. g[k - 1] = h[k - 1]
      BY <3>1
    <3>3. CASE k = n + 1
      BY <1>1, <3>1, <3>2, <3>3
    <3>4. CASE k # n + 1
      <4>1. k \in 1 .. n
        BY <1>1, <3>4
      <4> QED
        BY <1>1, <1>3, <3>1, <3>2, <3>4, <4>1 DEF SumsOf, n
    <3> QED
      BY <3>3, <3>4
  <2> QED
    BY <1>1, <2>1, <2>2 DEF SumsOf
<1>5. Total(t) = g[n + 1]
  BY <1>1, <1>4, TotalIs
<1> QED
  BY <1>1, <1>2, <1>3, <1>5 DEF t

\* The concatenations of the beginnings of a list of lists.
JoinsOf(S, h) == h[0] = <<>> /\ \A k \in 1 .. Len(S) : h[k] = h[k - 1] \o S[k]

\* The concatenation of a list of lists is the last of them.
LEMMA FlattenIs ==
    ASSUME NEW A, NEW S \in Seq(Seq(A)), NEW h \in [0 .. Len(S) -> Seq(A)], JoinsOf(S, h)
    PROVE  FlattenSeq(S) = h[Len(S)]
<1> DEFINE n == Len(S)
           Eq(f) == f = [i \in 1 .. Len(S) |-> IF i = 1 THEN S[i] ELSE f[i - 1] \o S[i]]
           g == CHOOSE f : Eq(f)
<1>1. n \in Nat /\ \A k \in 1 .. n : S[k] \in Seq(A)
  OBVIOUS
<1>2. CASE n = 0
  <2>1. S = <<>> /\ h[0] = <<>>
    BY <1>2 DEF JoinsOf
  <2> QED
    BY <1>2, <2>1 DEF FlattenSeq
<1>3. CASE n # 0
  <2> DEFINE f == [i \in 1 .. n |-> h[i]]
  <2>1. \A i \in 1 .. n : i - 1 \in 0 .. n /\ (i # 1 => i - 1 \in 1 .. n)
    BY <1>1
  <2>2. \A i \in 1 .. n : h[i] = IF i = 1 THEN S[i] ELSE f[i - 1] \o S[i]
    <3>1. \A i \in 1 .. n : h[i] = h[i - 1] \o S[i]
      BY DEF JoinsOf
    <3>2. \A s \in Seq(A) : <<>> \o s = s
      OBVIOUS
    <3>3. ASSUME 1 \in 1 .. n PROVE h[1] = S[1]
      <4>1. h[1] = h[1 - 1] \o S[1] /\ h[1 - 1] = <<>>
        <5>1. h[1] = h[1 - 1] \o S[1]
          BY <3>1, <3>3
        <5>2. 1 - 1 = 0
          OBVIOUS
        <5> QED
          BY <5>1, <5>2 DEF JoinsOf
      <4>2. S[1] \in Seq(A)
        BY <1>1, <3>3
      <4> QED
        BY <3>2, <4>1, <4>2
    <3> HIDE DEF n
    <3> QED
      BY <2>1, <3>1, <3>3
  <2>3. Eq(f)
    BY <2>2
  <2>4. Eq(g)
    <3> HIDE DEF Eq
    <3> QED
      BY <2>3
  <2>5. FlattenSeq(S) = g[n]
    BY <1>3, Zenon DEF FlattenSeq
  <2> HIDE DEF g
  <2> DEFINE Q == {k \in 0 .. n : k # 0 => g[k] = h[k]}
  <2>6. 0 \in Q
    BY <1>1
  <2>7. ASSUME NEW k \in 0 .. n, k \in Q, k < n PROVE k + 1 \in Q
    <3>1. k + 1 \in 1 .. n /\ (k + 1) - 1 = k /\ (k + 1 = 1 <=> k = 0)
      BY <1>1, <2>7
    <3>2. g[k + 1] = IF k + 1 = 1 THEN S[k + 1] ELSE g[(k + 1) - 1] \o S[k + 1]
      BY <2>4, <3>1
    <3>3. h[k + 1] = IF k + 1 = 1 THEN S[k + 1] ELSE h[(k + 1) - 1] \o S[k + 1]
      BY <2>2, <2>1, <3>1
    <3> HIDE DEF n
    <3> QED
      BY <2>7, <3>1, <3>2, <3>3
  <2>8. \A k \in 0 .. n : k \in Q
    <3> HIDE DEF Q, n
    <3> QED
      BY <1>1, <2>6, <2>7, CountUp
  <2> QED
    BY <1>1, <1>3, <2>5, <2>8
<1> QED
  BY <1>2, <1>3

\* There are such concatenations.
LEMMA FlattenTable ==
    ASSUME NEW A, NEW S \in Seq(Seq(A))
    PROVE  \E h \in [0 .. Len(S) -> Seq(A)] : JoinsOf(S, h)
<1> DEFINE n == Len(S)
           Good(k, g) == /\ g \in [0 .. k -> Seq(A)] /\ g[0] = <<>>
                         /\ \A j \in 1 .. k : g[j] = g[j - 1] \o S[j]
           Q == {k \in 0 .. n : \E g : Good(k, g)}
<1>1. n \in Nat /\ \A k \in 1 .. n : S[k] \in Seq(A)
  OBVIOUS
<1>2. 0 \in Q
  <2>1. Good(0, [j \in 0 .. 0 |-> <<>>])
    BY <<>> \in Seq(A)
  <2>2. 0 \in 0 .. n
    BY <1>1
  <2> HIDE DEF Good, n
  <2> QED
    BY <2>1, <2>2
<1>3. ASSUME NEW k \in 0 .. n, k \in Q, k < n PROVE k + 1 \in Q
  <2>1. PICK g : Good(k, g)
    BY <1>3
  <2>2. k \in Nat /\ k + 1 \in 1 .. n /\ k + 1 \in 0 .. n
    BY <1>1, <1>3
  <2> DEFINE h == [i \in 0 .. k + 1 |-> IF i = k + 1 THEN g[k] \o S[k + 1] ELSE g[i]]
  <2> HIDE DEF n
  <2>3. g[k] \o S[k + 1] \in Seq(A)
    BY <1>1, <2>1, <2>2
  <2>4. h \in [0 .. k + 1 -> Seq(A)] /\ h[0] = <<>>
    BY <2>1, <2>2, <2>3
  <2>5. ASSUME NEW j \in 1 .. k + 1 PROVE h[j] = h[j - 1] \o S[j]
    <3>1. j - 1 \in 0 .. k /\ j \in 0 .. k + 1 /\ j - 1 \in 0 .. k + 1 /\ j - 1 # k + 1
          /\ (j # k + 1 => j \in 1 .. k) /\ (j = k + 1 => j - 1 = k)
      BY <2>2
    <3> QED
      BY <2>1, <2>2, <3>1
  <2>6. Good(k + 1, h)
    BY <2>4, <2>5
  <2> HIDE DEF Good
  <2> QED
    BY <2>2, <2>6
<1>4. n \in Q
  <2> HIDE DEF Q, n
  <2>1. \A k \in 0 .. n : k \in Q
    BY <1>1, <1>2, <1>3, CountUp
  <2> QED
    BY <1>1, <2>1
<1> QED
  BY <1>4 DEF JoinsOf

\* The concatenation of a list with one list more.
LEMMA FlattenGrows ==
    ASSUME NEW A, NEW S \in Seq(Seq(A)), NEW x \in Seq(A)
    PROVE  /\ FlattenSeq(S) \in Seq(A) /\ FlattenSeq(<<>>) = <<>>
           /\ FlattenSeq(Append(S, x)) = FlattenSeq(S) \o x
<1> DEFINE T == Append(S, x)
           n == Len(S)
<1>1. /\ T \in Seq(Seq(A)) /\ Len(T) = n + 1 /\ n \in Nat
      /\ \A i \in 1 .. n : T[i] = S[i]
      /\ T[n + 1] = x
  BY AppendHolds
<1>2. FlattenSeq(<<>>) = <<>>
  BY DEF FlattenSeq
<1> HIDE DEF T, n
<1>3. PICK h \in [0 .. n -> Seq(A)] : JoinsOf(S, h)
  BY FlattenTable DEF n
<1>4. FlattenSeq(S) = h[n] /\ h[n] \in Seq(A)
  <2>1. h \in [0 .. Len(S) -> Seq(A)] /\ JoinsOf(S, h)
    BY <1>3 DEF n
  <2>2. FlattenSeq(S) = h[Len(S)]
    BY <2>1, FlattenIs
  <2>3. n \in 0 .. n
    BY <1>1
  <2>4. h[n] \in Seq(A)
    BY <1>3, <2>3
  <2> QED
    BY <2>2, <2>4 DEF n
<1> DEFINE g == [k \in 0 .. n + 1 |-> IF k = n + 1 THEN h[n] \o x ELSE h[k]]
<1>5. JoinsOf(T, g) /\ g \in [0 .. n + 1 -> Seq(A)]
  <2>1. 0 \in 0 .. n + 1 /\ 0 # n + 1 /\ h[0] = <<>>
    BY <1>1, <1>3 DEF JoinsOf
  <2>2. ASSUME NEW k \in 1 .. n + 1 PROVE g[k] = g[k - 1] \o T[k]
    <3>1. k - 1 \in 0 .. n /\ k \in 0 .. n + 1 /\ k - 1 \in 0 .. n + 1 /\ k - 1 # n + 1
          /\ (k # n + 1 => k \in 1 .. n) /\ (k = n + 1 => k - 1 = n)
      BY <1>1
    <3>2. g[k - 1] = h[k - 1]
      BY <3>1
    <3>3. CASE k = n + 1
      BY <1>1, <3>1, <3>2, <3>3
    <3>4. CASE k # n + 1
      BY <1>1, <1>3, <3>1, <3>2, <3>4 DEF JoinsOf, n
    <3> QED
      BY <3>3, <3>4
  <2>3. h[n] \o x \in Seq(A)
    BY <1>4
  <2>4. g \in [0 .. n + 1 -> Seq(A)]
    <3> QED
      BY <1>1, <1>3, <2>3
  <2>5. g[0] = <<>>
    BY <1>1, <2>1
  <2> QED
    BY <1>1, <2>2, <2>4, <2>5 DEF JoinsOf
<1>6. FlattenSeq(T) = g[n + 1]
  BY <1>1, <1>5, FlattenIs
<1> QED
  BY <1>1, <1>2, <1>4, <1>6 DEF T

------------------------------------------------------------------------------
(* Elements of a set, each once, and sums *)

\* The elements of a list that are in a set are those, of the list, that are in the set.
LEMMA AmongFits ==
    ASSUME NEW A, NEW s \in Seq(A), NEW S
    PROVE  /\ Among(s, S) \in Seq(A) /\ ToSet(Among(s, S)) = ToSet(s) \intersect S
           /\ ToSet(s) \subseteq A
<1> DEFINE P == {i \in DOMAIN s : s[i] \in S}
           p == Picked(s, P)
           c == Cardinality(P)
<1>1. /\ Len(s) \in Nat /\ DOMAIN s = 1 .. Len(s) /\ \A i \in 1 .. Len(s) : s[i] \in A
      /\ P \in SUBSET (1 .. Len(s))
  OBVIOUS
<1>2. IsFiniteSet(P) /\ \A i \in P : i \in Int
  <2>1. IsFiniteSet(1 .. Len(s))
    BY <1>1, FS_Interval
  <2> QED
    BY <1>1, <2>1, FS_Subset
<1>3. \A i \in P : i \in DOMAIN s /\ s[i] \in S /\ s[i] \in A
  BY <1>1
<1>4. \A i \in DOMAIN s : s[i] \in S => i \in P
  OBVIOUS
<1> HIDE DEF P
<1>5. /\ c \in Nat /\ DOMAIN p = 1 .. c
      /\ \A k \in 1 .. c : KthOf(P, k) \in P /\ p[k] = s[KthOf(P, k)]
      /\ \A i \in P : \E k \in 1 .. c : KthOf(P, k) = i
  BY <1>2, PickedFits
<1>6. p = [k \in 1 .. c |-> s[KthOf(P, k)]]
  BY DEF Picked
<1> HIDE DEF p, c
<1>7. p \in Seq(A)
  BY <1>3, <1>5, <1>6
<1>8. ASSUME NEW x \in ToSet(p) PROVE x \in ToSet(s) /\ x \in S
  <2>1. PICK k \in 1 .. c : x = p[k]
    BY <1>5 DEF ToSet
  <2> QED
    BY <1>3, <1>5, <2>1 DEF ToSet
<1>9. ASSUME NEW x \in ToSet(s), x \in S PROVE x \in ToSet(p)
  <2>1. PICK i \in DOMAIN s : x = s[i]
    BY DEF ToSet
  <2>2. PICK k \in 1 .. c : KthOf(P, k) = i
    BY <1>4, <1>5, <1>9, <2>1
  <2> QED
    BY <1>5, <2>1, <2>2 DEF ToSet
<1>10. Among(s, S) = p
  BY DEF Among, P, p
<1>11. ToSet(s) \subseteq A
  BY <1>1 DEF ToSet
<1> QED
  BY <1>7, <1>8, <1>9, <1>10, <1>11

\* The elements of a list, each once, are the elements of the list.
LEMMA FirstsFit ==
    ASSUME NEW A, NEW s \in Seq(A)
    PROVE  /\ Firsts(s) \in Seq(A) /\ ToSet(Firsts(s)) = ToSet(s)
           /\ \A i, j \in DOMAIN Firsts(s) : Firsts(s)[i] = Firsts(s)[j] => i = j
<1> DEFINE P == {i \in DOMAIN s : \A j \in 1 .. i - 1 : s[j] # s[i]}
           p == Picked(s, P)
           c == Cardinality(P)
           n == Len(s)
<1>1. /\ n \in Nat /\ DOMAIN s = 1 .. n /\ \A i \in 1 .. n : s[i] \in A
      /\ P \in SUBSET (1 .. n)
  OBVIOUS
<1>2. IsFiniteSet(P) /\ \A i \in P : i \in Int
  <2>1. IsFiniteSet(1 .. n)
    BY <1>1, FS_Interval
  <2> QED
    BY <1>1, <2>1, FS_Subset
<1>3. \A i, j \in P : s[i] = s[j] => i = j
  <2> SUFFICES ASSUME NEW i \in P, NEW j \in P, s[i] = s[j], i # j PROVE FALSE
    OBVIOUS
  <2>1. i \in 1 .. n /\ j \in 1 .. n
    BY <1>1
  <2>2. CASE i < j
    <3>1. i \in 1 .. j - 1
      BY <1>1, <2>1, <2>2
    <3> QED
      BY <3>1
  <2>3. CASE j < i
    <3>1. j \in 1 .. i - 1
      BY <1>1, <2>1, <2>3
    <3> QED
      BY <3>1
  <2> QED
    BY <1>1, <2>1, <2>2, <2>3
<1>4. ASSUME NEW x \in ToSet(s) PROVE \E i \in P : s[i] = x
  <2> DEFINE Q == {i \in 1 .. n : s[i] = x}
  <2>1. Q # {} /\ Q \in SUBSET (0 .. n)
    BY <1>1 DEF ToSet
  <2>2. Min(Q) \in Q /\ \A y \in Q : Min(Q) <= y
    <3> HIDE DEF Q
    <3> QED
      BY <1>1, <2>1, MinOfSome
  <2> DEFINE m == Min(Q)
  <2>3. m \in 1 .. n /\ s[m] = x
    BY <2>2
  <2>4. \A j \in 1 .. m - 1 : s[j] # s[m]
    <3> SUFFICES ASSUME NEW j \in 1 .. m - 1, s[j] = s[m] PROVE FALSE
      OBVIOUS
    <3>1. j \in 1 .. n /\ ~ (m <= j)
      BY <1>1, <2>3
    <3>2. j \in Q
      BY <2>3, <3>1
    <3> QED
      BY <2>2, <3>1, <3>2
  <2> HIDE DEF m
  <2> QED
    BY <1>1, <2>3, <2>4
<1> HIDE DEF P
<1>5. /\ c \in Nat /\ DOMAIN p = 1 .. c
      /\ \A k \in 1 .. c : KthOf(P, k) \in P /\ p[k] = s[KthOf(P, k)]
      /\ \A k, k2 \in 1 .. c : KthOf(P, k) = KthOf(P, k2) => k = k2
      /\ \A i \in P : \E k \in 1 .. c : KthOf(P, k) = i
  BY <1>2, PickedFits
<1>6. p = [k \in 1 .. c |-> s[KthOf(P, k)]]
  BY DEF Picked
<1> HIDE DEF p, c, n
<1>7. p \in Seq(A)
  <2>1. \A k \in 1 .. c : s[KthOf(P, k)] \in A
    BY <1>1, <1>5
  <2> QED
    BY <1>5, <1>6, <2>1
<1>8. ASSUME NEW x \in ToSet(p) PROVE x \in ToSet(s)
  <2>1. PICK k \in 1 .. c : x = p[k]
    BY <1>5 DEF ToSet
  <2> QED
    BY <1>1, <1>5, <2>1 DEF ToSet
<1>9. ASSUME NEW x \in ToSet(s) PROVE x \in ToSet(p)
  <2>1. PICK i \in P : s[i] = x
    BY <1>4
  <2>2. PICK k \in 1 .. c : KthOf(P, k) = i
    BY <1>5
  <2> QED
    BY <1>5, <2>1, <2>2 DEF ToSet
<1>10. \A i, j \in DOMAIN p : p[i] = p[j] => i = j
  BY <1>3, <1>5
<1>11. Firsts(s) = p
  BY DEF Firsts, P, p
<1> QED
  BY <1>7, <1>8, <1>9, <1>10, <1>11

\* The sum of natural numbers is one.
LEMMA TotalFits ==
    ASSUME NEW s \in Seq(Nat)
    PROVE  Total(s) \in Nat
<1> DEFINE n == Len(s)
<1>1. s \in Seq(Int) /\ n \in Nat /\ \A j \in 1 .. n : s[j] \in Nat
  OBVIOUS
<1>2. PICK h \in [0 .. n -> Int] : SumsOf(s, h) /\ Total(s) = h[n]
  BY <1>1, TotalTable
<1> DEFINE Q == {k \in 0 .. n : h[k] \in Nat}
<1>3. h[0] = 0 /\ \A k \in 1 .. n : h[k] = h[k - 1] + s[k]
  BY <1>2 DEF SumsOf
<1> HIDE DEF n
<1>4. 0 \in Q
  BY <1>1, <1>3
<1>5. ASSUME NEW k \in 0 .. n, k \in Q, k < n PROVE k + 1 \in Q
  <2>1. k + 1 \in 1 .. n /\ (k + 1) - 1 = k
    BY <1>1, <1>5
  <2>2. h[k + 1] = h[k] + s[k + 1]
    BY <1>3, <2>1
  <2> QED
    BY <1>1, <1>5, <2>1, <2>2
<1>6. n \in Q
  <2> HIDE DEF Q
  <2> QED
    BY <1>1, <1>4, <1>5, n \in 0 .. n, CountUp
<1> QED
  BY <1>2, <1>6

\* What is picked of a list are its elements at those places.
LEMMA PickedOf ==
    ASSUME NEW A, NEW s \in Seq(A), NEW P \in SUBSET DOMAIN s
    PROVE  Picked(s, P) \in Seq(A) /\ ToSet(Picked(s, P)) = {s[i] : i \in P}
<1> DEFINE p == Picked(s, P)
           c == Cardinality(P)
<1>1. Len(s) \in Nat /\ DOMAIN s = 1 .. Len(s) /\ \A i \in 1 .. Len(s) : s[i] \in A
  OBVIOUS
<1>2. IsFiniteSet(P) /\ \A i \in P : i \in Int /\ s[i] \in A
  <2>1. IsFiniteSet(1 .. Len(s))
    BY <1>1, FS_Interval
  <2> QED
    BY <1>1, <2>1, FS_Subset
<1>3. /\ c \in Nat /\ DOMAIN p = 1 .. c
      /\ \A k \in 1 .. c : KthOf(P, k) \in P /\ p[k] = s[KthOf(P, k)]
      /\ \A i \in P : \E k \in 1 .. c : KthOf(P, k) = i
  BY <1>2, PickedFits
<1>4. p = [k \in 1 .. c |-> s[KthOf(P, k)]]
  BY DEF Picked
<1> HIDE DEF p, c
<1>5. p \in Seq(A)
  BY <1>2, <1>3, <1>4
<1>6. ToSet(p) = {s[i] : i \in P}
  <2>1. ASSUME NEW x \in ToSet(p) PROVE \E i \in P : x = s[i]
    BY <1>3 DEF ToSet
  <2>2. ASSUME NEW i \in P PROVE s[i] \in ToSet(p)
    <3>1. PICK k \in 1 .. c : KthOf(P, k) = i
      BY <1>3
    <3> QED
      BY <1>3, <3>1 DEF ToSet
  <2> QED
    BY <2>1, <2>2
<1> QED
  BY <1>5, <1>6 DEF p

\* A ranking holds elements of what is ranked.
LEMMA RankedFits ==
    ASSUME NEW A, NEW s \in Seq(A), NEW keys \in [DOMAIN s -> Int], NEW n \in Nat
    PROVE  Ranked(s, keys, n) \in Seq(A) /\ ToSet(Ranked(s, keys, n)) \subseteq ToSet(s)
<1> DEFINE S == DOMAIN s
           upTo(i) == {j \in S : keys[j] < keys[i] \/ (keys[j] = keys[i] /\ j <= i)}
           U == [i \in S |-> upTo(i)]
           place == [i \in S |-> Cardinality(upTo(i))]
           D == {k \in S : k <= n}
           r == [k \in D |-> s[CHOOSE i \in S : place[i] = k]]
<1>1. Len(s) \in Nat /\ S = 1 .. Len(s) /\ (\A i \in S : s[i] \in A /\ i \in Int /\ keys[i] \in Int)
  OBVIOUS
<1>2. IsFiniteSet(S) /\ Cardinality(S) = Len(s)
  <2>1. IsFiniteSet(1 .. Len(s)) /\ Cardinality(1 .. Len(s)) = IF 1 > Len(s) THEN 0 ELSE Len(s) - 1 + 1
    BY <1>1, FS_Interval
  <2> QED
    BY <1>1, <2>1
<1>3. U \in [S -> SUBSET S] /\ \A i \in S : U[i] = upTo(i)
  OBVIOUS
<1> HIDE DEF U, S
<1>4. /\ \A i \in S : i \in upTo(i)
      /\ \A i, j \in S : upTo(i) \subseteq upTo(j) \/ upTo(j) \subseteq upTo(i)
      /\ \A i, j \in S : i \in upTo(j) /\ j \in upTo(i) => i = j
  <2>1. ASSUME NEW i \in S PROVE i \in upTo(i)
    BY <1>1
  <2>2. ASSUME NEW i \in S, NEW j \in S, i \in upTo(j), j \in upTo(i) PROVE i = j
    BY <1>1, <2>2
  <2>3. ASSUME NEW i \in S, NEW j \in S PROVE upTo(i) \subseteq upTo(j) \/ upTo(j) \subseteq upTo(i)
    <3>1. i \in Int /\ j \in Int /\ keys[i] \in Int /\ keys[j] \in Int /\ \A x \in S : x \in Int /\ keys[x] \in Int
      BY <1>1
    <3>2. CASE keys[i] < keys[j] \/ (keys[i] = keys[j] /\ i <= j)
      <4>1. \A x \in S : x \in upTo(i) => x \in upTo(j)
        BY <3>1, <3>2
      <4> QED
        BY <4>1
    <3>3. CASE ~ (keys[i] < keys[j] \/ (keys[i] = keys[j] /\ i <= j))
      <4>1. \A x \in S : x \in upTo(j) => x \in upTo(i)
        BY <3>1, <3>3
      <4> QED
        BY <4>1
    <3> QED
      BY <3>2, <3>3
  <2> QED
    BY <2>1, <2>2, <2>3
<1>5. \A k \in 1 .. Len(s) : \E i \in S : Cardinality(U[i]) = k
  <2> HIDE DEF upTo
  <2>1. /\ \A i \in S : i \in U[i]
        /\ \A i, j \in S : U[i] \subseteq U[j] \/ U[j] \subseteq U[i]
        /\ \A i, j \in S : i \in U[j] /\ j \in U[i] => i = j
    BY <1>3, <1>4
  <2>2. \A k \in 1 .. Cardinality(S) : \E i \in S : Cardinality(U[i]) = k
    BY <1>2, <1>3, <2>1, PlacesFill
  <2> QED
    BY <1>2, <2>2
<1>6. \A i \in S : place[i] = Cardinality(U[i])
  BY <1>3
<1> HIDE DEF upTo, place
<1>7. \A k \in S : (CHOOSE i \in S : place[i] = k) \in S
  BY <1>1, <1>5, <1>6
<1> DEFINE at(k) == CHOOSE i \in S : place[i] = k
           m == IF n < Len(s) THEN n ELSE Len(s)
<1>8. D = 1 .. m /\ m \in Nat /\ \A k \in D : k \in S
  BY <1>1
<1>9. \A k \in D : s[at(k)] \in A /\ at(k) \in S
  BY <1>1, <1>7, <1>8
<1> HIDE DEF at, D, m
<1>10. r = [k \in D |-> s[at(k)]]
  BY DEF at
<1> HIDE DEF r
<1>11. r \in Seq(A)
  BY <1>8, <1>9, <1>10
<1>12. ToSet(r) \subseteq ToSet(s)
  <2>1. ASSUME NEW x \in ToSet(r) PROVE x \in ToSet(s)
    <3>1. PICK k \in D : x = s[at(k)]
      BY <1>10 DEF ToSet
    <3> QED
      BY <1>9, <3>1 DEF ToSet, S
  <2> QED
    BY <2>1
<1>13. Ranked(s, keys, n) = r
  BY Zenon DEF Ranked, r, D, place, upTo, S
<1> QED
  BY <1>11, <1>12, <1>13
==============================================================================
