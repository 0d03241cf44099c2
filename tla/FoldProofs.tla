----------------------------- MODULE FoldProofs ------------------------------
(***************************************************************************)
(* What the folds of the community modules come to, for arguments of any    *)
(* finite size: sums over functions (SumFunction), sequences of sequences   *)
(* flattened (FlattenSeq) and sets listed (SetToSeq); and the way a         *)
(* recursion is reasoned about in these proofs, by the least natural number *)
(* that refutes what is claimed of it.                                      *)
(***************************************************************************)
EXTENDS Naturals, Functions, SequencesExt, FiniteSetTheorems, WellFoundedInduction, TLAPS

(* A non-empty set of natural numbers has a least element.                  *)
LEMMA LeastNatural ==
  ASSUME NEW T \in SUBSET Nat, T # {}
  PROVE  \E n \in T : \A m \in T : n <= m
  <1>1. \E n \in T : \A m \in T : <<m, n>> \notin OpToRel(<, Nat)
    BY NatLessThanWellFounded, WFMin, Zenon
  <1>2. PICK n \in T : \A m \in T : <<m, n>> \notin OpToRel(<, Nat) BY <1>1
  <1>3. ASSUME NEW m \in T PROVE n <= m
    <2>1. ~(m < n) BY <1>2 DEF OpToRel
    <2> QED BY <2>1
  <1> QED BY <1>3

-----------------------------------------------------------------------------
(* Sums.  SumFunction recurs over the subsets of a function's domain; that  *)
(* the recursion defines something, that it may take the indices in any     *)
(* order, and what follows of it for a change at one place, is proved by    *)
(* the size of the least subset refuting it.                                *)

(* The index a sum over s takes first.                                      *)
FirstOf(s) == CHOOSE x \in s : TRUE

(* h gives, for every set of indices in T, the sum of f over it.            *)
Sums(h, f, T) == \A s \in T : h[s] = IF s = {} THEN 0 ELSE f[FirstOf(s)] + h[s \ {FirstOf(s)}]

(* The subsets of D with n elements at most.                                *)
UpTo(D, n) == {s \in SUBSET D : Cardinality(s) <= n}

LEMMA SumIs ==
  ASSUME NEW D, NEW f \in [D -> Int]
  PROVE  SumFunction(f) =
         (CHOOSE h : h = [s \in SUBSET D |->
                            IF s = {} THEN 0 ELSE f[FirstOf(s)] + h[s \ {FirstOf(s)}]])[D]
  <1>1. DOMAIN f = D OBVIOUS
  <1> QED BY <1>1
     DEF SumFunction, SumFunctionOnSet, FoldFunctionOnSet, MapThenFoldSet, FirstOf

(* A set without one of its elements is one smaller.                        *)
LEMMA OneFewer ==
  ASSUME NEW D, IsFiniteSet(D), NEW s \in SUBSET D, NEW x \in s
  PROVE  /\ x \in D /\ s \ {x} \in SUBSET D
         /\ Cardinality(s) \in Nat /\ Cardinality(s) <= Cardinality(D)
         /\ Cardinality(s \ {x}) = Cardinality(s) - 1
         /\ Cardinality(s) # 0
  <1>1. IsFiniteSet(s) /\ Cardinality(s) <= Cardinality(D) BY FS_Subset
  <1>2. Cardinality(s \ {x}) = Cardinality(s) - 1 BY <1>1, FS_RemoveElement
  <1>3. Cardinality(s) \in Nat /\ Cardinality(s) # 0 BY <1>1, FS_CardinalityType, FS_EmptySet
  <1> QED BY <1>1, <1>2, <1>3

(* The set a sum goes on with is one smaller.                               *)
LEMMA FewerIndices ==
  ASSUME NEW D, IsFiniteSet(D), NEW s \in SUBSET D, s # {}
  PROVE  /\ FirstOf(s) \in s /\ FirstOf(s) \in D /\ s \ {FirstOf(s)} \in SUBSET D
         /\ Cardinality(s) \in Nat /\ Cardinality(s) <= Cardinality(D)
         /\ Cardinality(s \ {FirstOf(s)}) = Cardinality(s) - 1
         /\ Cardinality(s) # 0
  <1>1. FirstOf(s) \in s BY DEF FirstOf
  <1> QED BY <1>1, OneFewer

(* There are sums over the sets of every size.                              *)
LEMMA SumsExist ==
  ASSUME NEW D, IsFiniteSet(D), NEW f \in [D -> Int]
  PROVE  \E h \in [SUBSET D -> Int] : Sums(h, f, SUBSET D)
  <1> DEFINE N == Cardinality(D)
             Bad == {n \in 0..N : ~\E h \in [SUBSET D -> Int] : Sums(h, f, UpTo(D, n))}
  <1>1. N \in Nat BY FS_CardinalityType
  <1>2. UpTo(D, N) = SUBSET D
    <2>1. \A s \in SUBSET D : Cardinality(s) <= N BY FS_Subset
    <2> QED BY <2>1 DEF UpTo
  <1>3. SUFFICES ASSUME Bad # {} PROVE FALSE
    <2>1. N \in 0..N BY <1>1
    <2> HIDE DEF N
    <2>2. N \notin Bad => \E h \in [SUBSET D -> Int] : Sums(h, f, UpTo(D, N)) BY <2>1
    <2> HIDE DEF Bad
    <2> QED BY <1>2, <1>3, <2>2
  <1> HIDE DEF N
  <1>4. Bad \in SUBSET Nat BY <1>1
  <1> HIDE DEF Bad
  <1>5. PICK n \in Bad : \A m \in Bad : n <= m BY <1>3, <1>4, LeastNatural
  <1>6. n \in 0..N /\ ~\E h \in [SUBSET D -> Int] : Sums(h, f, UpTo(D, n)) BY <1>5 DEF Bad
  <1>7. CASE n = 0
    <2> DEFINE h == [s \in SUBSET D |-> 0]
    <2>1. h \in [SUBSET D -> Int] OBVIOUS
    <2>2. ASSUME NEW s \in UpTo(D, n) PROVE s = {} /\ h[s] = 0
      <3>1. s \in SUBSET D /\ Cardinality(s) <= 0 BY <1>7 DEF UpTo
      <3>2. IsFiniteSet(s) BY <3>1, FS_Subset
      <3>3. Cardinality(s) = 0 BY <3>1, <3>2, FS_CardinalityType
      <3> QED BY <3>1, <3>2, <3>3, FS_EmptySet
    <2> HIDE DEF h
    <2>3. Sums(h, f, UpTo(D, n)) BY <2>2 DEF Sums
    <2> QED BY <1>6, <2>1, <2>3
  <1>8. CASE n # 0
    <2>1. n - 1 \in 0..N /\ n - 1 \notin Bad BY <1>1, <1>5, <1>6, <1>8
    <2>2. PICK h \in [SUBSET D -> Int] : Sums(h, f, UpTo(D, n - 1)) BY <2>1 DEF Bad
    <2> DEFINE g == [s \in SUBSET D |->
                       IF s = {} THEN 0 ELSE f[FirstOf(s)] + h[s \ {FirstOf(s)}]]
    <2>3. g \in [SUBSET D -> Int]
      <3>1. ASSUME NEW s \in SUBSET D
            PROVE  (IF s = {} THEN 0 ELSE f[FirstOf(s)] + h[s \ {FirstOf(s)}]) \in Int
        <4>1. s # {} => f[FirstOf(s)] \in Int /\ h[s \ {FirstOf(s)}] \in Int
          BY FewerIndices
        <4> QED BY <4>1
      <3> QED BY <3>1
    <2>4. ASSUME NEW s \in UpTo(D, n - 1) PROVE g[s] = h[s] BY <2>2, <2>4 DEF UpTo, Sums
    <2>5. ASSUME NEW s \in UpTo(D, n)
          PROVE  g[s] = IF s = {} THEN 0 ELSE f[FirstOf(s)] + g[s \ {FirstOf(s)}]
      <3>1. s \in SUBSET D /\ Cardinality(s) <= n BY <2>5 DEF UpTo
      <3>2. CASE s = {} BY <3>2, <3>1
      <3>3. CASE s # {}
        <4>1. s \ {FirstOf(s)} \in UpTo(D, n - 1)
          BY <1>6, <3>1, <3>3, FewerIndices DEF UpTo
        <4> QED BY <3>1, <3>3, <4>1, <2>4
      <3> QED BY <3>2, <3>3
    <2> HIDE DEF g
    <2>6. Sums(g, f, UpTo(D, n)) BY <2>5 DEF Sums
    <2> QED BY <1>6, <2>3, <2>6
  <1> QED BY <1>7, <1>8

(* SumFunction is one of them.                                              *)
LEMMA FoldIsASum ==
  ASSUME NEW D, IsFiniteSet(D), NEW f \in [D -> Int]
  PROVE  \E h : Sums(h, f, SUBSET D) /\ SumFunction(f) = h[D]
  <1> DEFINE P(h) == h = [s \in SUBSET D |->
                            IF s = {} THEN 0 ELSE f[FirstOf(s)] + h[s \ {FirstOf(s)}]]
             F == CHOOSE h : P(h)
  <1>1. PICK h \in [SUBSET D -> Int] : Sums(h, f, SUBSET D) BY SumsExist
  <1>2. P(h) BY <1>1 DEF Sums
  <1>3. P(F)
    <2> HIDE DEF P
    <2> QED BY <1>2
  <1>4. SumFunction(f) = F[D] BY SumIs
  <1> HIDE DEF F
  <1>5. Sums(F, f, SUBSET D) BY <1>3 DEF Sums
  <1> QED BY <1>4, <1>5

(* h gives the sum of f over every set of indices, whichever it takes first. *)
Totals(h, f, D) == \A s \in SUBSET D : h[s] \in Int /\ \A y \in s : h[s] = f[y] + h[s \ {y}]

(* A sum may take any of its indices first.                                 *)
LEMMA SumTakes ==
  ASSUME NEW D, IsFiniteSet(D), NEW f \in [D -> Int], NEW h, Sums(h, f, SUBSET D)
  PROVE  Totals(h, f, D)
  <1> DEFINE Right(s) == h[s] \in Int /\ \A y \in s : h[s] = f[y] + h[s \ {y}]
             Bad == {n \in Nat : \E s \in SUBSET D : Cardinality(s) = n /\ ~Right(s)}
  <1>1. SUFFICES ASSUME Bad # {} PROVE FALSE
    <2>1. \A s \in SUBSET D : Cardinality(s) \in Nat BY FS_Subset, FS_CardinalityType
    <2> HIDE DEF Right
    <2>2. \A s \in SUBSET D : Right(s) BY <2>1
    <2> QED BY <2>2 DEF Right, Totals
  <1>2. Bad \in SUBSET Nat OBVIOUS
  <1> HIDE DEF Bad
  <1>3. PICK n \in Bad : \A m \in Bad : n <= m BY <1>1, <1>2, LeastNatural
  <1> HIDE DEF Right
  <1>4. PICK s \in SUBSET D : Cardinality(s) = n /\ ~Right(s) BY <1>3 DEF Bad
  <1>5. n \in Nat BY <1>2, <1>3
  <1>6. ASSUME NEW x \in s PROVE x \in D /\ s \ {x} \in SUBSET D /\ Right(s \ {x})
    <2>1. x \in D /\ s \ {x} \in SUBSET D /\ n # 0 /\ Cardinality(s \ {x}) = n - 1
      BY <1>4, OneFewer
    <2>2. n - 1 \in Nat /\ ~(n <= n - 1) BY <1>5, <2>1
    <2>3. n - 1 \notin Bad BY <1>3, <2>2
    <2> QED BY <2>1, <2>2, <2>3 DEF Bad
  <1> DEFINE z == FirstOf(s)
  <1>7. s # {}
    <2>1. h[{}] = 0 BY DEF Sums
    <2>2. Right({}) BY <2>1 DEF Right
    <2> QED BY <1>4, <2>2
  <1>8. z \in s /\ h[s] = f[z] + h[s \ {z}] BY <1>4, <1>7, FewerIndices DEF Sums
  <1> HIDE DEF z
  <1>9. f[z] \in Int /\ h[s \ {z}] \in Int BY <1>6, <1>8 DEF Right
  <1>10. ASSUME NEW y \in s, y # z PROVE h[s] = f[y] + h[s \ {y}]
    <2> DEFINE t == s \ {y, z}
    <2>1. (s \ {z}) \ {y} = t /\ (s \ {y}) \ {z} = t OBVIOUS
    <2>2. y \in s \ {z} /\ z \in s \ {y} BY <1>8, <1>10
    <2>3. h[s \ {z}] = f[y] + h[t] BY <1>6, <1>8, <2>1, <2>2 DEF Right
    <2>4. h[s \ {y}] = f[z] + h[t] BY <1>6, <2>1, <2>2 DEF Right
    <2>5. f[y] \in Int /\ h[t] \in Int
      <3>1. y \in D BY <1>6
      <3>2. t \in SUBSET D /\ Right(s \ {z}) BY <1>6, <1>8
      <3>3. h[t] \in Int
        <4>1. Cardinality(t) = n - 2 /\ n - 2 \in Nat
          <5>1. Cardinality(s \ {z}) = n - 1 /\ s \ {z} \in SUBSET D /\ n \in Nat
            BY <1>4, <1>8, OneFewer
          <5>2. /\ Cardinality((s \ {z}) \ {y}) = Cardinality(s \ {z}) - 1
                /\ Cardinality(s \ {z}) # 0
            BY <2>2, <5>1, OneFewer
          <5>3. Cardinality(s \ {z}) \in Nat BY <2>2, <5>1, OneFewer
          <5>4. Cardinality(t) = Cardinality(s \ {z}) - 1 BY <2>1, <5>2
          <5> DEFINE c == Cardinality(s \ {z})
          <5>5. c = n - 1 /\ c # 0 /\ c \in Nat /\ n \in Nat /\ Cardinality(t) = c - 1
            BY <5>1, <5>2, <5>3, <5>4
          <5> HIDE DEF t, c
          <5> QED BY <5>5
        <4>2. n - 2 \notin Bad BY <1>3, <1>5, <4>1
        <4> HIDE DEF t
        <4> QED BY <3>2, <4>1, <4>2 DEF Bad, Right
      <3> QED BY <3>1, <3>3
    <2> HIDE DEF t
    <2> QED BY <1>8, <1>9, <2>3, <2>4, <2>5
  <1>11. Right(s)
    <2>1. h[s] \in Int BY <1>8, <1>9
    <2>2. \A y \in s : h[s] = f[y] + h[s \ {y}] BY <1>8, <1>10
    <2> QED BY <2>1, <2>2 DEF Right
  <1> QED BY <1>4, <1>11

(* The sum of a part of a function is that of the function over this part.  *)
PartOf(g, f, E) == \A x \in E : g[x] = f[x]

LEMMA SumsAgree ==
  ASSUME NEW D, NEW f \in [D -> Int], NEW E \in SUBSET D, NEW g, NEW h, NEW k,
         IsFiniteSet(D), PartOf(g, f, E), Sums(h, f, SUBSET D), Sums(k, g, SUBSET E)
  PROVE  h[E] = k[E]
  <1> DEFINE Bad == {n \in Nat : \E s \in SUBSET E : Cardinality(s) = n /\ h[s] # k[s]}
  <1>1. SUFFICES ASSUME Bad # {} PROVE FALSE
    <2>1. Cardinality(E) \in Nat /\ E \in SUBSET E BY FS_Subset, FS_CardinalityType
    <2> QED BY <2>1
  <1>2. Bad \in SUBSET Nat OBVIOUS
  <1> HIDE DEF Bad
  <1>3. PICK n \in Bad : \A m \in Bad : n <= m BY <1>1, <1>2, LeastNatural
  <1>4. PICK s \in SUBSET E : Cardinality(s) = n /\ h[s] # k[s] BY <1>3 DEF Bad
  <1>5. s \in SUBSET D /\ s \in SUBSET E /\ n \in Nat BY <1>2, <1>3
  <1>6. s # {} BY <1>4 DEF Sums
  <1> DEFINE z == FirstOf(s)
  <1>7. z \in s /\ n # 0 /\ Cardinality(s \ {z}) = n - 1 BY <1>4, <1>5, <1>6, FewerIndices
  <1>8. h[s] = f[z] + h[s \ {z}] /\ k[s] = g[z] + k[s \ {z}] BY <1>5, <1>6 DEF Sums
  <1>10. f[z] = g[z] BY <1>7 DEF PartOf
  <1> HIDE DEF z
  <1>9. h[s \ {z}] = k[s \ {z}]
    <2>1. n - 1 \in Nat /\ ~(n <= n - 1) BY <1>5, <1>7
    <2>2. n - 1 \notin Bad BY <1>3, <2>1
    <2> QED BY <1>4, <1>7, <2>1, <2>2 DEF Bad
  <1> QED BY <1>4, <1>8, <1>9, <1>10

(* A sum is one of its terms and the sum of the others.                     *)
Without(f, c) == [x \in DOMAIN f \ {c} |-> f[x]]

LEMMA SumSplit ==
  ASSUME NEW D, IsFiniteSet(D), NEW c \in D, NEW f \in [D -> Int]
  PROVE  /\ Without(f, c) \in [D \ {c} -> Int]
         /\ SumFunction(f) \in Int /\ SumFunction(Without(f, c)) \in Int
         /\ SumFunction(f) = f[c] + SumFunction(Without(f, c))
  <1> DEFINE E == D \ {c}
             g == Without(f, c)
  <1>1. E \in SUBSET D /\ IsFiniteSet(E) BY FS_Subset
  <1>2. PICK h : Sums(h, f, SUBSET D) /\ SumFunction(f) = h[D] BY FoldIsASum
  <1>3. g \in [E -> Int] /\ PartOf(g, f, E) BY DEF Without, PartOf
  <1>4. Totals(h, f, D) BY <1>2, SumTakes
  <1>5. h[D] \in Int /\ h[E] \in Int /\ h[D] = f[c] + h[E] BY <1>1, <1>4 DEF Totals
  <1> HIDE DEF E, g
  <1>6. PICK k : Sums(k, g, SUBSET E) /\ SumFunction(g) = k[E] BY <1>1, <1>3, FoldIsASum
  <1>7. h[E] = k[E]
    BY <1>1, <1>2, <1>3, <1>6, SumsAgree
  <1> QED BY <1>2, <1>3, <1>5, <1>6, <1>7 DEF E, g

(* The empty sum.                                                           *)
LEMMA SumOfNothing ==
  ASSUME NEW f, DOMAIN f = {}, f = [x \in {} |-> 0]
  PROVE  SumFunction(f) = 0
  <1>1. f \in [{} -> Int] /\ IsFiniteSet({}) BY FS_EmptySet
  <1>2. PICK h : Sums(h, f, SUBSET {}) /\ SumFunction(f) = h[{}] BY <1>1, FoldIsASum
  <1> QED BY <1>2 DEF Sums

(* A bound on every term bounds the sum.                                    *)
LEMMA SumBound ==
  ASSUME NEW D, IsFiniteSet(D), NEW f \in [D -> Int], NEW a \in Int, NEW b \in Int,
         \A x \in D : a * f[x] <= b
  PROVE  /\ SumFunction(f) \in Int
         /\ a * SumFunction(f) <= Cardinality(D) * b
  <1>1. PICK h : Sums(h, f, SUBSET D) /\ SumFunction(f) = h[D] BY FoldIsASum
  <1>2. \A s \in SUBSET D : h[s] \in Int /\ \A y \in s : h[s] = f[y] + h[s \ {y}]
    BY <1>1, SumTakes DEF Totals
  <1> DEFINE Bad == {n \in Nat : \E s \in SUBSET D : Cardinality(s) = n /\ ~(a * h[s] <= n * b)}
  <1>3. SUFFICES ASSUME Bad # {} PROVE FALSE
    <2>1. Cardinality(D) \in Nat /\ D \in SUBSET D BY FS_CardinalityType
    <2>2. a * h[D] <= Cardinality(D) * b BY <1>3, <2>1
    <2> QED BY <1>1, <1>2, <2>2
  <1>4. Bad \in SUBSET Nat OBVIOUS
  <1> HIDE DEF Bad
  <1>5. PICK n \in Bad : \A m \in Bad : n <= m BY <1>3, <1>4, LeastNatural
  <1>6. PICK s \in SUBSET D : Cardinality(s) = n /\ ~(a * h[s] <= n * b) BY <1>5 DEF Bad
  <1>7. n \in Nat BY <1>4, <1>5
  <1>8. s # {}
    <2>1. SUFFICES ASSUME s = {} PROVE FALSE OBVIOUS
    <2>2. h[{}] = 0 BY <1>1 DEF Sums
    <2>3. n = 0 BY <1>6, <2>1, FS_EmptySet
    <2>4. a * 0 <= 0 * b OBVIOUS
    <2> QED BY <1>6, <2>1, <2>2, <2>3, <2>4
  <1>9. PICK z \in s : TRUE BY <1>8
  <1> DEFINE t == s \ {z}
  <1>10. z \in D /\ t \in SUBSET D /\ n # 0 /\ Cardinality(t) = n - 1
    BY <1>6, <1>9, OneFewer
  <1>11. h[s] = f[z] + h[t] BY <1>2, <1>9
  <1> HIDE DEF t
  <1>12. a * h[t] <= (n - 1) * b
    <2>1. n - 1 \in Nat /\ ~(n <= n - 1) BY <1>7, <1>10
    <2>2. n - 1 \notin Bad BY <1>5, <2>1
    <2> QED BY <1>10, <2>1, <2>2 DEF Bad
  <1>13. a * h[s] <= n * b
    <2>1. h[t] \in Int /\ f[z] \in Int BY <1>2, <1>10
    <2>2. a * (f[z] + h[t]) = a * f[z] + a * h[t] BY <2>1
    <2>3. (n - 1) * b + b = n * b BY <1>7
    <2>4. a * f[z] <= b BY <1>10
    <2>5. a * f[z] \in Int /\ a * h[t] \in Int /\ n * b \in Int /\ (n - 1) * b \in Int
      BY <1>7, <2>1
    <2> QED BY <1>11, <1>12, <2>2, <2>3, <2>4, <2>5
  <1> QED BY <1>6, <1>13

(* A sum of natural numbers is one.                                         *)
LEMMA SumType ==
  ASSUME NEW D, IsFiniteSet(D), NEW f \in [D -> Nat]
  PROVE  SumFunction(f) \in Nat
  <1>1. f \in [D -> Int] OBVIOUS
  <1>2. \A x \in D : (-1) * f[x] <= 0 OBVIOUS
  <1>3. Cardinality(D) * 0 = 0 BY FS_CardinalityType
  <1>4. SumFunction(f) \in Int /\ (-1) * SumFunction(f) <= 0 BY <1>1, <1>2, <1>3, SumBound
  <1> QED BY <1>4

(* Nothing sums to nothing.                                                 *)
LEMMA SumOfNone ==
  ASSUME NEW D, IsFiniteSet(D)
  PROVE  SumFunction([c \in D |-> 0]) = 0
  <1> DEFINE f == [c \in D |-> 0]
  <1>1. f \in [D -> Nat] /\ f \in [D -> Int] /\ \A x \in D : 1 * f[x] <= 0 OBVIOUS
  <1> HIDE DEF f
  <1>2. Cardinality(D) * 0 = 0 BY FS_CardinalityType
  <1>3. SumFunction(f) \in Nat BY <1>1, SumType
  <1>4. 1 * SumFunction(f) <= 0 BY <1>1, <1>2, SumBound
  <1> QED BY <1>3, <1>4 DEF f

(* A change at one index is the same change of the sum.                     *)
LEMMA SumChange ==
  ASSUME NEW D, IsFiniteSet(D), NEW c \in D, NEW f \in [D -> Nat], NEW g \in [D -> Nat],
         \A x \in D \ {c} : g[x] = f[x]
  PROVE  /\ SumFunction(f) \in Nat /\ SumFunction(g) \in Nat
         /\ SumFunction(g) + f[c] = SumFunction(f) + g[c]
  <1>1. Without(f, c) = Without(g, c)
    <2>1. DOMAIN f = D /\ DOMAIN g = D OBVIOUS
    <2> QED BY <2>1 DEF Without
  <1>2. f \in [D -> Int] /\ g \in [D -> Int] OBVIOUS
  <1>3. SumFunction(f) = f[c] + SumFunction(Without(f, c))
        /\ SumFunction(Without(f, c)) \in Int
    BY <1>2, SumSplit
  <1>4. SumFunction(g) = g[c] + SumFunction(Without(g, c)) BY <1>2, SumSplit
  <1>5. SumFunction(f) \in Nat /\ SumFunction(g) \in Nat /\ f[c] \in Nat /\ g[c] \in Nat
    BY SumType
  <1> QED BY <1>1, <1>3, <1>4, <1>5

(* The steps from g[0] to g[m] sum to the way.                              *)
LEMMA SumTelescopes ==
  ASSUME NEW m \in Nat, NEW f \in [1..m -> Int], NEW g \in [0..m -> Int],
         \A i \in 1..m : f[i] = g[i] - g[i - 1]
  PROVE  SumFunction(f) = g[m] - g[0]
  <1> DEFINE Upto(n) == [i \in 1..n |-> f[i]]
             Bad == {n \in 0..m : SumFunction(Upto(n)) # g[n] - g[0]}
  <1>1. SUFFICES ASSUME Bad # {} PROVE FALSE
    <2>1. Upto(m) = f OBVIOUS
    <2>2. m \in 0..m OBVIOUS
    <2> HIDE DEF Upto
    <2> QED BY <1>1, <2>1, <2>2
  <1>2. Bad \in SUBSET Nat OBVIOUS
  <1> HIDE DEF Bad
  <1>3. PICK n \in Bad : \A k \in Bad : n <= k BY <1>1, <1>2, LeastNatural
  <1>4. n \in 0..m /\ SumFunction(Upto(n)) # g[n] - g[0] BY <1>3 DEF Bad
  <1>5. n # 0
    <2>1. SUFFICES ASSUME n = 0 PROVE FALSE OBVIOUS
    <2>2. 1..0 = {} OBVIOUS
    <2>3. Upto(0) = [x \in {} |-> 0] /\ DOMAIN Upto(0) = {} BY <2>2
    <2> HIDE DEF Upto
    <2>4. SumFunction(Upto(0)) = 0 BY <2>3, SumOfNothing
    <2>5. g[0] \in Int OBVIOUS
    <2> QED BY <1>4, <2>1, <2>4, <2>5
  <1>6. SumFunction(Upto(n)) = f[n] + SumFunction(Upto(n - 1))
    <2>0. n \in Int /\ 1 <= n /\ n <= m BY <1>4, <1>5
    <2> DEFINE F == Upto(n)
               G == Upto(n - 1)
               E == 1..n
    <2>1. IsFiniteSet(E) BY <2>0, FS_Interval
    <2>2. n \in E /\ \A i \in E : i \in 1..m BY <2>0
    <2>3. F \in [E -> Int] /\ F[n] = f[n] BY <2>2
    <2>4. E \ {n} = 1..(n - 1)
      <3>1. \A x \in E \ {n} : x \in 1..(n - 1) BY <2>0
      <3>2. \A x \in 1..(n - 1) : x \in E \ {n} BY <2>0
      <3> HIDE DEF E
      <3> QED BY <3>1, <3>2
    <2>5. DOMAIN F = E /\ \A x \in E : F[x] = f[x] OBVIOUS
    <2>6. Without(F, n) = G BY <2>4, <2>5 DEF Without
    <2> HIDE DEF Upto, F, G, E
    <2>7. SumFunction(F) = F[n] + SumFunction(Without(F, n)) BY <2>1, <2>2, <2>3, SumSplit
    <2> QED BY <2>3, <2>6, <2>7 DEF F, G
  <1>7. SumFunction(Upto(n - 1)) = g[n - 1] - g[0]
    <2>1. n - 1 \in 0..m /\ ~(n <= n - 1) BY <1>4, <1>5
    <2>2. n - 1 \notin Bad BY <1>3, <2>1
    <2> HIDE DEF Upto
    <2> QED BY <2>1, <2>2 DEF Bad
  <1>8. f[n] = g[n] - g[n - 1] /\ g[n] \in Int /\ g[n - 1] \in Int /\ g[0] \in Int
    BY <1>4, <1>5
  <1> HIDE DEF Upto
  <1> QED BY <1>4, <1>6, <1>7, <1>8

-----------------------------------------------------------------------------
(* Flattening.                                                              *)

(* f lists what the first 1, 2, ... sequences of s amount to.               *)
FlattensTo(f, s) ==
  f = [i \in 1..Len(s) |-> IF i = 1 THEN s[i] ELSE f[i - 1] \o s[i]]

(* The first n sequences of s can be flattened.                             *)
Flattens(f, s, n) ==
  \A i \in 1..n : f[i] = IF i = 1 THEN s[i] ELSE f[i - 1] \o s[i]

LEMMA FlattenExists ==
  ASSUME NEW S, NEW s \in Seq(Seq(S)), NEW n \in 0..Len(s)
  PROVE  \E f \in [1..n -> Seq(S)] : Flattens(f, s, n)
  <1> DEFINE Bad == {k \in 0..Len(s) : ~\E f \in [1..k -> Seq(S)] : Flattens(f, s, k)}
  <1>1. SUFFICES ASSUME Bad # {} PROVE FALSE OBVIOUS
  <1>2. Len(s) \in Nat /\ \A i \in 1..Len(s) : s[i] \in Seq(S) OBVIOUS
  <1>3. Bad \in SUBSET Nat BY <1>2
  <1> HIDE DEF Bad
  <1>4. PICK k \in Bad : \A m \in Bad : k <= m BY <1>1, <1>3, LeastNatural
  <1>5. k \in 0..Len(s) /\ ~\E f \in [1..k -> Seq(S)] : Flattens(f, s, k) BY <1>4 DEF Bad
  <1>6. k # 0
    <2>1. [i \in 1..0 |-> <<>>] \in [1..0 -> Seq(S)] OBVIOUS
    <2>2. Flattens([i \in 1..0 |-> <<>>], s, 0) BY DEF Flattens
    <2> QED BY <2>1, <2>2, <1>5
  <1>7. k - 1 \in 0..Len(s) /\ k - 1 \notin Bad BY <1>2, <1>4, <1>5, <1>6
  <1>8. PICK f \in [1..(k - 1) -> Seq(S)] : Flattens(f, s, k - 1) BY <1>7 DEF Bad
  <1> DEFINE x == IF k = 1 THEN s[k] ELSE f[k - 1] \o s[k]
             g == [i \in 1..k |-> IF i = k THEN x ELSE f[i]]
  <1>9. x \in Seq(S)
    <2>1. s[k] \in Seq(S) BY <1>2, <1>5, <1>6
    <2>2. k # 1 => f[k - 1] \in Seq(S) BY <1>5, <1>6, <1>8
    <2> QED BY <2>1, <2>2
  <1>10. g \in [1..k -> Seq(S)] BY <1>5, <1>6, <1>8, <1>9
  <1>11. Flattens(g, s, k)
    <2>1. ASSUME NEW i \in 1..k
          PROVE  g[i] = IF i = 1 THEN s[i] ELSE g[i - 1] \o s[i]
      <3>1. CASE i = k
        <4>1. k # 1 => g[k - 1] = f[k - 1] BY <1>5, <1>6
        <4> QED BY <3>1, <4>1
      <3>2. CASE i # k
        <4>1. i \in 1..(k - 1) BY <3>2, <1>5
        <4>2. g[i] = f[i] BY <3>2
        <4>3. i # 1 => g[i - 1] = f[i - 1] BY <4>1, <1>5
        <4> QED BY <4>1, <4>2, <4>3, <1>8 DEF Flattens
      <3> QED BY <3>1, <3>2
    <2> HIDE DEF g
    <2> QED BY <2>1 DEF Flattens
  <1> QED BY <1>5, <1>10, <1>11

(* ... and in one way only.                                                 *)
LEMMA FlattenUnique ==
  ASSUME NEW s, NEW n \in Nat, NEW f, NEW g, Flattens(f, s, n), Flattens(g, s, n)
  PROVE  \A i \in 1..n : f[i] = g[i]
  <1> DEFINE Bad == {i \in 1..n : f[i] # g[i]}
  <1>1. SUFFICES ASSUME Bad # {} PROVE FALSE OBVIOUS
  <1>2. Bad \in SUBSET Nat OBVIOUS
  <1> HIDE DEF Bad
  <1>3. PICK k \in Bad : \A m \in Bad : k <= m BY <1>1, <1>2, LeastNatural
  <1>4. k \in 1..n /\ f[k] # g[k] BY <1>3 DEF Bad
  <1>5. k # 1 BY <1>4 DEF Flattens
  <1>6. k - 1 \in 1..n /\ f[k - 1] = g[k - 1]
    <2>1. k - 1 \in 1..n /\ k - 1 \notin Bad BY <1>3, <1>4, <1>5
    <2> QED BY <2>1 DEF Bad
  <1> QED BY <1>4, <1>5, <1>6 DEF Flattens

(* FlattenSeq is the last of what the prefixes amount to.                   *)
LEMMA FlattenIs ==
  ASSUME NEW S, NEW s \in Seq(Seq(S)), s # <<>>,
         NEW f \in [1..Len(s) -> Seq(S)], Flattens(f, s, Len(s))
  PROVE  FlattenSeq(s) = f[Len(s)]
  <1> DEFINE F == CHOOSE g : FlattensTo(g, s)
  <1>1. Len(s) \in Nat \ {0} OBVIOUS
  <1>2. FlattensTo(f, s) BY DEF FlattensTo, Flattens
  <1>3. FlattensTo(F, s) BY <1>2
  <1>4. Flattens(F, s, Len(s))
    <2> HIDE DEF F
    <2> QED BY <1>3 DEF FlattensTo, Flattens
  <1>5. FlattenSeq(s) = F[Len(s)]
    BY <1>1 DEF FlattenSeq, FlattensTo
  <1> HIDE DEF F
  <1> QED BY <1>1, <1>4, <1>5, FlattenUnique

(* Flattening one sequence more.                                            *)
LEMMA FlattenEmpty == FlattenSeq(<<>>) = <<>>
  BY DEF FlattenSeq

LEMMA FlattenType ==
  ASSUME NEW S, NEW s \in Seq(Seq(S))
  PROVE  FlattenSeq(s) \in Seq(S)
  <1>1. CASE s = <<>>
    <2>1. FlattenSeq(s) = <<>> BY <1>1, FlattenEmpty
    <2> QED BY <2>1
  <1>2. CASE s # <<>>
    <2>1. Len(s) \in 0..Len(s) /\ Len(s) \in 1..Len(s) BY <1>2
    <2>2. PICK f \in [1..Len(s) -> Seq(S)] : Flattens(f, s, Len(s)) BY <2>1, FlattenExists
    <2> QED BY <1>2, <2>1, <2>2, FlattenIs
  <1> QED BY <1>1, <1>2

LEMMA FlattenAppend ==
  ASSUME NEW S, NEW s \in Seq(Seq(S)), NEW x \in Seq(S)
  PROVE  FlattenSeq(Append(s, x)) = FlattenSeq(s) \o x
  <1> DEFINE t == Append(s, x)
             n == Len(s)
  <1>1. /\ n \in Nat /\ t \in Seq(Seq(S)) /\ Len(t) = n + 1 /\ t # <<>>
        /\ t[n + 1] = x /\ \A i \in 1..n : t[i] = s[i]
        /\ n + 1 \in 1..Len(t) /\ \A i \in 1..n : i \in 1..Len(t)
    <2>1. n \in Nat /\ t \in Seq(Seq(S)) /\ Len(t) = n + 1 OBVIOUS
    <2>2. t[n + 1] = x /\ \A i \in 1..n : t[i] = s[i] OBVIOUS
    <2> HIDE DEF n, t
    <2>3. t # <<>> BY <2>1
    <2>4. n + 1 \in 1..Len(t) /\ \A i \in 1..n : i \in 1..Len(t) BY <2>1
    <2> QED BY <2>1, <2>2, <2>3, <2>4
  <1> HIDE DEF n, t
  <1>2. Len(t) \in 0..Len(t) BY <1>1
  <1>3. PICK g \in [1..Len(t) -> Seq(S)] : Flattens(g, t, Len(t)) BY <1>1, <1>2, FlattenExists
  <1>4. FlattenSeq(t) = g[n + 1] BY <1>1, <1>3, FlattenIs
  <1>5. CASE s = <<>>
    <2>1. n = 0 BY <1>5 DEF n
    <2>2. g[1] = x BY <1>1, <1>3, <2>1 DEF Flattens
    <2> QED BY <1>4, <1>5, <2>1, <2>2, FlattenEmpty DEF t
  <1>6. CASE s # <<>>
    <2>1. n # 0 BY <1>6 DEF n
    <2> DEFINE f == [i \in 1..n |-> g[i]]
    <2>2. f \in [1..n -> Seq(S)] BY <1>1, <1>3
    <2>3. Flattens(f, s, n)
      <3>1. ASSUME NEW i \in 1..n
            PROVE  f[i] = IF i = 1 THEN s[i] ELSE f[i - 1] \o s[i]
        <4>1. g[i] = IF i = 1 THEN t[i] ELSE g[i - 1] \o t[i] BY <1>1, <1>3 DEF Flattens
        <4>2. i # 1 => f[i - 1] = g[i - 1] BY <1>1
        <4> QED BY <1>1, <4>1, <4>2
      <3> HIDE DEF f
      <3> QED BY <3>1 DEF Flattens
    <2>4. FlattenSeq(s) = f[n] BY <1>6, <2>2, <2>3, FlattenIs DEF n
    <2>5. f[n] = g[n] BY <1>1, <2>1
    <2>6. g[n + 1] = g[n] \o t[n + 1]
      <3>1. ASSUME NEW k \in 1..Len(t), k # 1, k - 1 = n PROVE g[k] = g[n] \o t[k]
        BY <1>3, <3>1 DEF Flattens
      <3>2. PICK k : k = n + 1 OBVIOUS
      <3>3. k \in 1..Len(t) /\ k # 1 /\ k - 1 = n BY <1>1, <2>1, <3>2
      <3>4. g[k] = g[n] \o t[k] BY <3>1, <3>3
      <3> QED BY <3>2, <3>4
    <2> QED BY <1>1, <1>4, <2>4, <2>5, <2>6 DEF t
  <1> QED BY <1>5, <1>6

(* The elements of the sequences flattened are those of the flat one.       *)
LEMMA FlattenKeeps ==
  ASSUME NEW S, NEW s \in Seq(Seq(S)), NEW i \in 1..Len(s), NEW k \in 1..Len(s[i])
  PROVE  \E m \in 1..Len(FlattenSeq(s)) : FlattenSeq(s)[m] = s[i][k]
  <1> DEFINE x == s[i][k]
             Has(t) == \E m \in 1..Len(t) : t[m] = x
  <1>1. s # <<>> /\ Len(s) \in Nat /\ Len(s) \in 0..Len(s) OBVIOUS
  <1>2. PICK f \in [1..Len(s) -> Seq(S)] : Flattens(f, s, Len(s)) BY <1>1, FlattenExists
  <1>3. \A n \in 1..Len(s) : s[n] \in Seq(S) OBVIOUS
  <1>4. ASSUME NEW t \in Seq(S), NEW u \in Seq(S)
        PROVE  /\ Has(t) => Has(t \o u)
               /\ Has(u) => Has(t \o u)
    <2>1. ASSUME NEW m \in 1..Len(t), t[m] = x PROVE Has(t \o u)
      <3>1. m \in 1..Len(t \o u) /\ (t \o u)[m] = t[m] OBVIOUS
      <3> QED BY <2>1, <3>1
    <2>2. ASSUME NEW m \in 1..Len(u), u[m] = x PROVE Has(t \o u)
      <3>1. Len(t) + m \in 1..Len(t \o u) /\ (t \o u)[Len(t) + m] = u[m] OBVIOUS
      <3> QED BY <2>2, <3>1
    <2> QED BY <2>1, <2>2
  <1>5. Has(s[i]) OBVIOUS
  <1> HIDE DEF Has
  <1>6. Has(f[i])
    <2>1. CASE i = 1 BY <1>2, <1>5, <2>1 DEF Flattens
    <2>2. CASE i # 1
      <3>1. f[i] = f[i - 1] \o s[i] BY <1>2, <2>2 DEF Flattens
      <3>2. i - 1 \in 1..Len(s) BY <1>1, <2>2
      <3> QED BY <1>2, <1>3, <1>4, <1>5, <3>1, <3>2
    <2> QED BY <2>1, <2>2
  <1> DEFINE Bad == {n \in i..Len(s) : ~Has(f[n])}
  <1>7. Bad = {}
    <2>1. SUFFICES ASSUME Bad # {} PROVE FALSE OBVIOUS
    <2>2. Bad \in SUBSET Nat OBVIOUS
    <2> HIDE DEF Bad
    <2>3. PICK n \in Bad : \A m \in Bad : n <= m BY <2>1, <2>2, LeastNatural
    <2>4. n \in i..Len(s) /\ ~Has(f[n]) BY <2>3 DEF Bad
    <2>5. n # i BY <1>6, <2>4
    <2>6. n - 1 \in i..Len(s) /\ n \in 1..Len(s) /\ n # 1 /\ n - 1 \in 1..Len(s) BY <1>1, <2>4, <2>5
    <2>7. n - 1 \notin Bad BY <2>2, <2>3, <2>6
    <2>8. Has(f[n - 1]) BY <2>6, <2>7 DEF Bad
    <2>9. f[n] = f[n - 1] \o s[n] BY <1>2, <2>6 DEF Flattens
    <2> QED BY <1>2, <1>3, <1>4, <2>4, <2>6, <2>8, <2>9
  <1>8. Has(f[Len(s)])
    <2>1. Len(s) \in i..Len(s) BY <1>1
    <2> QED BY <1>7, <2>1
  <1>9. FlattenSeq(s) = f[Len(s)] BY <1>1, <1>2, FlattenIs
  <1> QED BY <1>8, <1>9 DEF Has

-----------------------------------------------------------------------------
(* Rankings.                                                                *)

(* B, a set of pairs, puts members of D in front of others so that those    *)
(* neither of which is in front of the other are as good.                   *)
IsPreference(B, D) ==
  /\ \A i, j \in D : <<i, j>> \in B => <<j, i>> \notin B
  /\ \A i, j, k \in D : <<i, k>> \in B => <<i, j>> \in B \/ <<j, k>> \in B

(* Numbers in front of i: those preferred to it, and smaller ones that are  *)
(* as good.                                                                 *)
InFront(B, D, i) == {j \in D : <<j, i>> \in B \/ (<<i, j>> \notin B /\ j < i)}

(* Whoever is in front of another has fewer in front of it.                 *)
LEMMA FewerInFront ==
  ASSUME NEW D \in SUBSET Int, NEW B, IsFiniteSet(D), IsPreference(B, D),
         NEW i \in D, NEW j \in InFront(B, D, i)
  PROVE  Cardinality(InFront(B, D, j)) < Cardinality(InFront(B, D, i))
  <1>1. j \in D /\ (<<j, i>> \in B \/ (<<i, j>> \notin B /\ j < i)) BY DEF InFront
  <1>2. InFront(B, D, j) \subseteq InFront(B, D, i)
    <2>1. SUFFICES ASSUME NEW k \in InFront(B, D, j) PROVE k \in InFront(B, D, i) OBVIOUS
    <2>2. k \in D /\ (<<k, j>> \in B \/ (<<j, k>> \notin B /\ k < j)) BY DEF InFront
    <2>3. CASE <<k, i>> \in B BY <2>2, <2>3 DEF InFront
    <2>4. CASE <<k, i>> \notin B
      <3>1. <<k, j>> \in B => <<i, j>> \in B BY <1>1, <2>2, <2>4 DEF IsPreference
      <3>2. <<j, i>> \in B => <<j, k>> \in B BY <1>1, <2>2, <2>4 DEF IsPreference
      <3>3. <<i, j>> \in B => <<j, i>> \notin B BY <1>1 DEF IsPreference
      <3>4. <<k, j>> \notin B /\ <<j, k>> \notin B /\ <<j, i>> \notin B /\ <<i, j>> \notin B
        BY <1>1, <2>2, <3>1, <3>2, <3>3
      <3>5. k < j /\ j < i BY <1>1, <2>2, <3>4
      <3>6. <<i, k>> \notin B BY <1>1, <2>2, <3>4 DEF IsPreference
      <3>7. k < i BY <1>1, <2>2, <3>5
      <3> QED BY <2>2, <3>6, <3>7 DEF InFront
    <2> QED BY <2>3, <2>4
  <1>3. j \notin InFront(B, D, j) BY <1>1 DEF InFront, IsPreference
  <1>4. InFront(B, D, i) \subseteq D BY DEF InFront
  <1>5. IsFiniteSet(InFront(B, D, i)) BY <1>4, FS_Subset
  <1>6. /\ Cardinality(InFront(B, D, j)) <= Cardinality(InFront(B, D, i))
        /\ Cardinality(InFront(B, D, j)) = Cardinality(InFront(B, D, i))
             => InFront(B, D, j) = InFront(B, D, i)
    BY <1>2, <1>5, FS_Subset
  <1>7. IsFiniteSet(InFront(B, D, j)) BY <1>2, <1>5, FS_Subset
  <1>8. Cardinality(InFront(B, D, j)) \in Nat /\ Cardinality(InFront(B, D, i)) \in Nat
    BY <1>5, <1>7, FS_CardinalityType
  <1> QED BY <1>3, <1>6, <1>8

(* Every place is somebody's.                                               *)
LEMMA PlacesAreTaken ==
  ASSUME NEW D \in SUBSET Int, NEW B, IsFiniteSet(D), IsPreference(B, D)
  PROVE  \A k \in 1..Cardinality(D) : \E i \in D : Cardinality(InFront(B, D, i)) + 1 = k
  <1> DEFINE n == Cardinality(D)
             f == [i \in D |-> Cardinality(InFront(B, D, i)) + 1]
  <1>1. n \in Nat /\ IsFiniteSet(1..n) /\ Cardinality(1..n) = n
    BY FS_CardinalityType, FS_Interval
  <1>2. ASSUME NEW i \in D PROVE f[i] \in 1..n
    <2>1. InFront(B, D, i) \subseteq D /\ i \notin InFront(B, D, i)
      BY DEF InFront, IsPreference
    <2>2. IsFiniteSet(InFront(B, D, i)) /\ Cardinality(InFront(B, D, i)) <= n
          /\ (Cardinality(InFront(B, D, i)) = n => InFront(B, D, i) = D)
      BY <2>1, FS_Subset
    <2>3. Cardinality(InFront(B, D, i)) \in Nat BY <2>2, FS_CardinalityType
    <2>4. Cardinality(InFront(B, D, i)) # n BY <2>1, <2>2
    <2> HIDE DEF n
    <2> QED BY <1>1, <2>2, <2>3, <2>4
  <1>3. ASSUME NEW i \in D, NEW j \in D, i # j PROVE f[i] # f[j]
    <2>1. i \in InFront(B, D, j) \/ j \in InFront(B, D, i)
      <3>1. i < j \/ j < i BY <1>3
      <3> QED BY <3>1 DEF InFront
    <2>2. /\ f[i] = Cardinality(InFront(B, D, i)) + 1 /\ f[i] \in 1..n
          /\ f[j] = Cardinality(InFront(B, D, j)) + 1 /\ f[j] \in 1..n
      BY <1>2
    <2>3. \/ Cardinality(InFront(B, D, i)) < Cardinality(InFront(B, D, j))
          \/ Cardinality(InFront(B, D, j)) < Cardinality(InFront(B, D, i))
      BY <2>1, FewerInFront
    <2>4. Cardinality(InFront(B, D, i)) \in Nat /\ Cardinality(InFront(B, D, j)) \in Nat
      <3>1. IsFiniteSet(InFront(B, D, i)) /\ IsFiniteSet(InFront(B, D, j))
        BY FS_Subset DEF InFront
      <3> QED BY <3>1, FS_CardinalityType
    <2> HIDE DEF f
    <2> QED BY <2>2, <2>3, <2>4
  <1>4. f \in Injection(D, 1..n)
    <2>1. f \in [D -> 1..n] BY <1>2
    <2> HIDE DEF f
    <2> QED BY <2>1, <1>3 DEF Injection, IsInjective
  <1> HIDE DEF n
  <1>5. f \in Surjection(D, 1..n) BY <1>1, <1>4, FS_Injection DEF n
  <1>6. \A k \in 1..n : \E i \in D : f[i] = k
    <2> HIDE DEF f
    <2> QED BY <1>5 DEF Surjection
  <1> QED BY <1>6 DEF n

-----------------------------------------------------------------------------
(* SetToSeq lists a finite set.                                             *)
LEMMA SetListed ==
  ASSUME NEW S, IsFiniteSet(S)
  PROVE  /\ SetToSeq(S) \in Seq(S)
         /\ \A x \in S : \E k \in 1..Len(SetToSeq(S)) : SetToSeq(S)[k] = x
  <1> DEFINE n == Cardinality(S)
             g == SetToSeq(S)
  <1>1. n \in Nat BY FS_CardinalityType
  <1>2. PICK f : f \in Bijection(1..n, S) BY FS_CardinalityType DEF ExistsBijection
  <1>3. f \in [1..n -> S] /\ IsInjective(f)
    BY <1>2 DEF Bijection, Injection, IsInjective
  <1>4. g \in [1..n -> S] /\ IsInjective(g) BY <1>3 DEF SetToSeq
  <1> HIDE DEF g, n
  <1>5. g \in Seq(S) /\ Len(g) = n BY <1>1, <1>4
  <1>6. g \in Injection(1..n, S) BY <1>4 DEF Injection, IsInjective
  <1>7. IsFiniteSet(1..n) /\ Cardinality(1..n) = n
    BY <1>1, FS_Interval
  <1>8. g \in Surjection(1..n, S) BY <1>6, <1>7, FS_Injection DEF n
  <1> QED BY <1>5, <1>8 DEF g, Surjection
=============================================================================
