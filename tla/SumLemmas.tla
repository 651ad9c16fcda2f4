------------------------------ MODULE SumLemmas -------------------------------
(***************************************************************************)
(* What the models' sums, least elements and extremes of windows compute,  *)
(* for every sequence and finite set: the facts that the proofs about the  *)
(* engines and the validation run share.  Induction is by the least        *)
(* counterexample, a set of numbers instead of a predicate.                *)
(***************************************************************************)
EXTENDS Integers, SequencesExt, FiniteSetsExt, SequenceTheorems, FiniteSetTheorems, TLAPS

--------------------------------------------------------------------------------
(* Induction over the naturals.                                            *)

\* A set of naturals that is not empty has a least element.
LEMMA NatLeast ==
  ASSUME NEW T \in SUBSET Nat, T # {}
  PROVE  \E m \in T : \A k \in T : m <= k
<1> DEFINE R == {p \in Nat \X Nat : p[1] < p[2]}
<1>1. IsWellFoundedOn(R, Nat)
  BY NatLessThanWellFounded DEF OpToRel
<1>2. PICK m \in T : \A k \in T : <<k, m>> \notin R
  <2> HIDE DEF R
  <2>1. QED
    BY <1>1, WFMin
<1>3. ASSUME NEW k \in T PROVE m <= k
  <2>1. m \in Nat /\ k \in Nat
    OBVIOUS
  <2>2. ~(k < m)
    BY <1>2, <2>1
  <2>3. QED
    BY <2>1, <2>2
<1>4. QED
  BY <1>3

\* A set with zero and with every successor holds all naturals.
LEMMA NatAll ==
  ASSUME NEW P, 0 \in P, \A n \in Nat : n \in P => n + 1 \in P
  PROVE  Nat \subseteq P
<1>1. SUFFICES ASSUME Nat \ P # {} PROVE FALSE
  OBVIOUS
<1>2. PICK m \in Nat \ P : \A k \in Nat \ P : m <= k
  BY <1>1, NatLeast
<1>3. m # 0 /\ m - 1 \in Nat /\ m - 1 \notin Nat \ P
  BY <1>2
<1>4. QED
  BY <1>2, <1>3

\* Min is the least element.
LEMMA LeastExists ==
  ASSUME NEW hits \in SUBSET Nat, hits # {}
  PROVE  Min(hits) \in hits /\ \A x \in hits : Min(hits) <= x
<1>1. PICK m \in hits : \A x \in hits : m <= x
  BY NatLeast
<1>2. QED
  BY <1>1 DEF Min

\* Of a window that is not empty, Max and Min are its extremes.
LEMMA WindowExtremes ==
  ASSUME NEW seq \in Seq(Int), seq # <<>>
  PROVE  /\ Max(ToSet(seq)) \in ToSet(seq) /\ \A x \in ToSet(seq) : Max(ToSet(seq)) >= x
         /\ Min(ToSet(seq)) \in ToSet(seq) /\ \A x \in ToSet(seq) : Min(ToSet(seq)) <= x
<1> DEFINE n == Len(seq)
           Has == {k \in Nat : k + 1 <= n =>
                     /\ \E i \in 1..(k + 1) : \A j \in 1..(k + 1) : seq[j] <= seq[i]
                     /\ \E i \in 1..(k + 1) : \A j \in 1..(k + 1) : seq[j] >= seq[i]}
<1>1. n \in Nat /\ n >= 1 /\ \A i \in 1..n : seq[i] \in Int
  BY EmptySeq, LenProperties
<1>2. 0 \in Has
  BY <1>1
<1>3. ASSUME NEW k \in Nat, k \in Has PROVE k + 1 \in Has
  <2> SUFFICES ASSUME k + 2 <= n
               PROVE  /\ \E i \in 1..(k + 2) : \A j \in 1..(k + 2) : seq[j] <= seq[i]
                      /\ \E i \in 1..(k + 2) : \A j \in 1..(k + 2) : seq[j] >= seq[i]
    OBVIOUS
  <2>1. PICK a \in 1..(k + 1) : \A j \in 1..(k + 1) : seq[j] <= seq[a]
    BY <1>3
  <2>2. PICK b \in 1..(k + 1) : \A j \in 1..(k + 1) : seq[j] >= seq[b]
    BY <1>3
  <2>3. \A j \in 1..(k + 2) : j = k + 2 \/ j \in 1..(k + 1)
    OBVIOUS
  <2>4. seq[k + 2] \in Int /\ seq[a] \in Int /\ seq[b] \in Int
        /\ \A j \in 1..(k + 2) : seq[j] \in Int
    BY <1>1
  <2>5. \E i \in {a, k + 2} : \A j \in 1..(k + 2) : seq[j] <= seq[i]
    BY <2>1, <2>3, <2>4
  <2>6. \E i \in {b, k + 2} : \A j \in 1..(k + 2) : seq[j] >= seq[i]
    BY <2>2, <2>3, <2>4
  <2>7. a \in 1..(k + 2) /\ b \in 1..(k + 2) /\ k + 2 \in 1..(k + 2)
    OBVIOUS
  <2>8. QED
    BY <2>5, <2>6, <2>7
<1>4. n - 1 \in Has
  <2>1. n - 1 \in Nat
    BY <1>1
  <2> HIDE DEF Has, n
  <2>2. Nat \subseteq Has
    BY <1>2, <1>3, NatAll
  <2>3. QED
    BY <2>1, <2>2
<1>5. PICK a \in 1..n, b \in 1..n :
        \A j \in 1..n : seq[j] <= seq[a] /\ seq[j] >= seq[b]
  BY <1>1, <1>4
<1>6. ToSet(seq) = {seq[i] : i \in 1..n}
  BY <1>1 DEF ToSet
<1>7. /\ seq[a] \in ToSet(seq) /\ \A x \in ToSet(seq) : seq[a] >= x
      /\ seq[b] \in ToSet(seq) /\ \A x \in ToSet(seq) : seq[b] <= x
  BY <1>1, <1>5, <1>6
<1>8. QED
  BY <1>7 DEF Max, Min

--------------------------------------------------------------------------------
(* Folds of finite sets.                                                   *)

Pick(s) == CHOOSE x \in s : TRUE

\* The function by which the folds of the library sum f over the subsets of S.
IsFold(F, f, S) ==
  F = [s \in SUBSET S |-> IF s = {} THEN 0 ELSE f[Pick(s)] + F[s \ {Pick(s)}]]

LEMMA PickFacts ==
  ASSUME NEW S, IsFiniteSet(S)
  PROVE  \A s \in SUBSET S :
           /\ IsFiniteSet(s) /\ Cardinality(s) \in Nat /\ Cardinality(s) <= Cardinality(S)
           /\ Cardinality(s) <= 0 => s = {}
           /\ s # {} => /\ Pick(s) \in s /\ Pick(s) \in S
                        /\ s \ {Pick(s)} \in SUBSET S
                        /\ Cardinality(s \ {Pick(s)}) = Cardinality(s) - 1
<1>1. \A s \in SUBSET S : /\ IsFiniteSet(s) /\ Cardinality(s) \in Nat
                          /\ Cardinality(s) <= Cardinality(S)
                          /\ Cardinality(s) <= 0 => s = {}
  BY FS_Subset, FS_CardinalityType, FS_EmptySet
<1>2. \A s \in SUBSET S : s # {} => Pick(s) \in s
  BY DEF Pick
<1>3. QED
  BY <1>1, <1>2, FS_RemoveElement

LEMMA FoldExists ==
  ASSUME NEW S, IsFiniteSet(S), NEW f \in [S -> Int]
  PROVE  \E F \in [SUBSET S -> Int] : IsFold(F, f, S)
<1> DEFINE Step(F, s) == IF s = {} THEN 0 ELSE f[Pick(s)] + F[s \ {Pick(s)}]
           Good(F, k) == \A s \in SUBSET S : Cardinality(s) <= k => F[s] = Step(F, s)
           Size == {k \in Nat : \E F \in [SUBSET S -> Int] : Good(F, k)}
<1>0. \A s \in SUBSET S :
        /\ IsFiniteSet(s) /\ Cardinality(s) \in Nat /\ Cardinality(s) <= Cardinality(S)
        /\ Cardinality(s) <= 0 => s = {}
        /\ s # {} => /\ Pick(s) \in s /\ Pick(s) \in S
                     /\ s \ {Pick(s)} \in SUBSET S
                     /\ Cardinality(s \ {Pick(s)}) = Cardinality(s) - 1
  BY PickFacts
<1>1. 0 \in Size
  <2> DEFINE F == [s \in SUBSET S |-> 0]
  <2>1. Good(F, 0)
    <3>1. ASSUME NEW s \in SUBSET S, Cardinality(s) <= 0 PROVE F[s] = Step(F, s)
      BY <1>0, <3>1
    <3>2. QED
      BY <3>1
  <2>2. F \in [SUBSET S -> Int]
    OBVIOUS
  <2> HIDE DEF Good, F
  <2>3. QED
    BY <2>1, <2>2
<1>2. ASSUME NEW k \in Nat, k \in Size PROVE k + 1 \in Size
  <2>1. PICK F \in [SUBSET S -> Int] : Good(F, k)
    BY <1>2
  <2> DEFINE G == [s \in SUBSET S |-> Step(F, s)]
  <2>2. G \in [SUBSET S -> Int]
    <3>1. ASSUME NEW s \in SUBSET S PROVE Step(F, s) \in Int
      <4>1. CASE s = {}
        BY <4>1
      <4>2. CASE s # {}
        <5>1. f[Pick(s)] \in Int /\ F[s \ {Pick(s)}] \in Int
          BY <4>2, <1>0
        <5>2. QED
          BY <4>2, <5>1
      <4>3. QED
        BY <4>1, <4>2
    <3> HIDE DEF Step
    <3>2. QED
      BY <3>1
  <2>3. \A s \in SUBSET S : Cardinality(s) <= k => G[s] = F[s]
    BY <2>1
  <2>4. ASSUME NEW s \in SUBSET S, Cardinality(s) <= k + 1 PROVE G[s] = Step(G, s)
    <3>1. CASE s = {}
      BY <3>1
    <3>2. CASE s # {}
      <4>1. s \ {Pick(s)} \in SUBSET S /\ Cardinality(s \ {Pick(s)}) <= k
        BY <2>4, <3>2, <1>0
      <4>2. G[s \ {Pick(s)}] = F[s \ {Pick(s)}]
        BY <2>3, <4>1
      <4>3. QED
        BY <3>2, <4>2
    <3>3. QED
      BY <3>1, <3>2
  <2>5. Good(G, k + 1)
    BY <2>4
  <2> HIDE DEF Good, G
  <2>6. QED
    BY <2>2, <2>5
<1>3. Cardinality(S) \in Size
  <2> HIDE DEF Size
  <2>1. Cardinality(S) \in Nat
    BY FS_CardinalityType
  <2>2. QED
    BY <1>1, <1>2, <2>1, NatAll
<1>4. PICK F \in [SUBSET S -> Int] : Good(F, Cardinality(S))
  BY <1>3
<1>5. F = [s \in SUBSET S |-> Step(F, s)]
  BY <1>4, <1>0
<1>6. QED
  BY <1>5 DEF IsFold

\* The fold that the library takes is one, and its values are integers.
LEMMA FoldIsFold ==
  ASSUME NEW S, IsFiniteSet(S), NEW f \in [S -> Int]
  PROVE  /\ IsFold((CHOOSE F : IsFold(F, f, S)), f, S)
         /\ \A F : IsFold(F, f, S) => F \in [SUBSET S -> Int]
<1>0. \A s \in SUBSET S :
        /\ IsFiniteSet(s) /\ Cardinality(s) \in Nat /\ Cardinality(s) <= Cardinality(S)
        /\ Cardinality(s) <= 0 => s = {}
        /\ s # {} => /\ Pick(s) \in s /\ Pick(s) \in S
                     /\ s \ {Pick(s)} \in SUBSET S
                     /\ Cardinality(s \ {Pick(s)}) = Cardinality(s) - 1
  BY PickFacts
<1>1. PICK G \in [SUBSET S -> Int] : IsFold(G, f, S)
  BY FoldExists
<1>2. IsFold((CHOOSE F : IsFold(F, f, S)), f, S)
  BY <1>1
<1>3. ASSUME NEW F, IsFold(F, f, S) PROVE F = G
  <2> DEFINE Same(k) == \A s \in SUBSET S : Cardinality(s) <= k => F[s] = G[s]
             Size == {k \in Nat : Same(k)}
  <2>1. \A s \in SUBSET S : /\ F[s] = IF s = {} THEN 0 ELSE f[Pick(s)] + F[s \ {Pick(s)}]
                            /\ G[s] = IF s = {} THEN 0 ELSE f[Pick(s)] + G[s \ {Pick(s)}]
    BY <1>1, <1>3 DEF IsFold
  <2>2. 0 \in Size
    <3>1. F[{}] = G[{}]
      BY <2>1
    <3>2. QED
      BY <1>0, <3>1
  <2>3. ASSUME NEW k \in Nat, k \in Size PROVE k + 1 \in Size
    <3>1. ASSUME NEW s \in SUBSET S, Cardinality(s) <= k + 1 PROVE F[s] = G[s]
      <4>1. CASE s = {}
        BY <2>1, <4>1
      <4>2. CASE s # {}
        <5>1. s \ {Pick(s)} \in SUBSET S /\ Cardinality(s \ {Pick(s)}) <= k
          BY <3>1, <4>2, <1>0
        <5>2. F[s \ {Pick(s)}] = G[s \ {Pick(s)}]
          BY <2>3, <5>1
        <5>3. QED
          BY <2>1, <4>2, <5>2
      <4>3. QED
        BY <4>1, <4>2
    <3>2. QED
      BY <3>1
  <2>4. Cardinality(S) \in Size
    <3> HIDE DEF Size
    <3>1. Cardinality(S) \in Nat
      BY FS_CardinalityType
    <3>2. QED
      BY <2>2, <2>3, <3>1, NatAll
  <2>5. \A s \in SUBSET S : F[s] = G[s]
    BY <2>4, <1>0
  <2>6. F = [s \in SUBSET S |-> F[s]] /\ G = [s \in SUBSET S |-> G[s]]
    BY <1>1, <1>3 DEF IsFold
  <2>7. QED
    BY <2>5, <2>6
<1>4. QED
  BY <1>1, <1>2, <1>3

AnyOrder(F, f, S) == \A T \in SUBSET S : \A x \in T : F[T] = f[x] + F[T \ {x}]

\* Any element may be taken out first.
LEMMA FoldAnyOrder ==
  ASSUME NEW S, IsFiniteSet(S), NEW f \in [S -> Int], NEW F, IsFold(F, f, S)
  PROVE  AnyOrder(F, f, S)
<1> DEFINE Removes(k) == \A U \in SUBSET S : \A y \in U :
                       Cardinality(U) <= k => F[U] = f[y] + F[U \ {y}]
           Size == {k \in Nat : Removes(k)}
<1>0. \A s \in SUBSET S :
        /\ IsFiniteSet(s) /\ Cardinality(s) \in Nat /\ Cardinality(s) <= Cardinality(S)
        /\ Cardinality(s) <= 0 => s = {}
        /\ s # {} => /\ Pick(s) \in s /\ Pick(s) \in S
                     /\ s \ {Pick(s)} \in SUBSET S
                     /\ Cardinality(s \ {Pick(s)}) = Cardinality(s) - 1
  BY PickFacts
<1>1. F \in [SUBSET S -> Int]
  BY FoldIsFold
<1>2. \A U \in SUBSET S : F[U] = IF U = {} THEN 0 ELSE f[Pick(U)] + F[U \ {Pick(U)}]
  BY DEF IsFold
<1>3. 0 \in Size
  BY <1>0
<1>4. ASSUME NEW k \in Nat, k \in Size PROVE k + 1 \in Size
  <2> SUFFICES ASSUME NEW U \in SUBSET S, NEW y \in U, Cardinality(U) <= k + 1
               PROVE  F[U] = f[y] + F[U \ {y}]
    OBVIOUS
  <2> DEFINE z == Pick(U)
  <2>1. /\ z \in U /\ F[U] = f[z] + F[U \ {z}]
        /\ Cardinality(U \ {z}) <= k /\ Cardinality(U \ {y}) <= k
    <3>1. Cardinality(U) \in Nat /\ IsFiniteSet(U) /\ z \in U
      BY <1>0
    <3>2. Cardinality(U \ {z}) = Cardinality(U) - 1 /\ Cardinality(U \ {y}) = Cardinality(U) - 1
      BY <3>1, FS_RemoveElement
    <3>3. QED
      BY <1>2, <3>1, <3>2
  <2> HIDE DEF z
  <2>2. CASE y = z
    BY <2>1, <2>2
  <2>3. CASE y # z
    <3>1. F[U \ {z}] = f[y] + F[(U \ {z}) \ {y}]
      BY <1>4, <2>1, <2>3
    <3>2. F[U \ {y}] = f[z] + F[(U \ {y}) \ {z}]
      BY <1>4, <2>1, <2>3
    <3>3. (U \ {z}) \ {y} = (U \ {y}) \ {z} /\ (U \ {z}) \ {y} \in SUBSET S
      OBVIOUS
    <3>4. f[y] \in Int /\ f[z] \in Int /\ F[(U \ {z}) \ {y}] \in Int
      BY <1>1, <2>1, <3>3
    <3>5. F[U] = f[z] + (f[y] + F[(U \ {z}) \ {y}])
      BY <2>1, <3>1
    <3>6. F[U \ {y}] = f[z] + F[(U \ {z}) \ {y}]
      BY <3>2, <3>3
    <3> DEFINE rest == F[(U \ {z}) \ {y}]
    <3> HIDE DEF rest
    <3>7. rest \in Int /\ F[U] = f[z] + (f[y] + rest) /\ F[U \ {y}] = f[z] + rest
      BY <3>4, <3>5, <3>6 DEF rest
    <3>8. QED
      BY <3>4, <3>7
  <2>4. QED
    BY <2>2, <2>3
<1>5. Nat \subseteq Size
  <2> HIDE DEF Size
  <2>1. QED
    BY <1>3, <1>4, NatAll
<1>6. ASSUME NEW T \in SUBSET S, NEW x \in T PROVE F[T] = f[x] + F[T \ {x}]
  <2>1. Cardinality(T) \in Nat
    BY <1>0
  <2>2. Removes(Cardinality(T))
    BY <1>5, <2>1
  <2>3. QED
    BY <2>1, <2>2
<1>7. QED
  BY <1>6 DEF AnyOrder

--------------------------------------------------------------------------------
(* Sums of sequences.                                                      *)

SeqSum(seq) == FoldSeq(+, 0, seq)

\* p[k] is the sum of the first k elements.
PrefixSums(seq, p) ==
  /\ p \in [0..Len(seq) -> Int]
  /\ p[0] = 0
  /\ \A k \in 1..Len(seq) : p[k] = p[k - 1] + seq[k]

\* A fold over an interval adds its numbers one after the other.
LEMMA FoldOfInterval ==
  ASSUME NEW n \in Nat, NEW f \in [1..n -> Int], NEW F, IsFold(F, f, 1..n)
  PROVE  /\ F[{}] = 0 /\ \A k \in 0..n : F[1..k] \in Int
         /\ \A k \in 1..n : F[1..k] = F[1..(k - 1)] + f[k]
<1> DEFINE D == 1..n
<1>1. IsFiniteSet(D) /\ f \in [D -> Int] /\ IsFold(F, f, D)
  BY FS_Interval
<1>2. \A k \in 0..n : 1..k \in SUBSET D
  OBVIOUS
<1>3. \A k \in 1..n : k \in 1..k /\ (1..k) \ {k} = 1..(k - 1) /\ k - 1 \in 0..n /\ k \in 0..n
  OBVIOUS
<1>4. \A k \in 1..n : f[k] \in Int
  OBVIOUS
<1> HIDE DEF D
<1>5. F \in [SUBSET D -> Int]
  BY <1>1, FoldIsFold
<1>6. \A T \in SUBSET D : \A x \in T : F[T] = f[x] + F[T \ {x}]
  <2>1. AnyOrder(F, f, D)
    BY <1>1, FoldAnyOrder
  <2>2. QED
    BY <2>1 DEF AnyOrder
<1>7. F[{}] = 0
  BY <1>1 DEF IsFold
<1>8. \A k \in 0..n : F[1..k] \in Int
  BY <1>2, <1>5
<1>9. ASSUME NEW k \in 1..n PROVE F[1..k] = F[1..(k - 1)] + f[k]
  <2> DEFINE T == 1..k
             before == F[1..(k - 1)]
  <2>1. T \in SUBSET D /\ k \in T /\ T \ {k} = 1..(k - 1)
    BY <1>2, <1>3
  <2>2. before \in Int /\ f[k] \in Int
    BY <1>3, <1>4, <1>8
  <2> HIDE DEF T
  <2>3. F[T] = f[k] + F[T \ {k}]
    BY <1>6, <2>1
  <2>4. F[T] = f[k] + before
    BY <2>1, <2>3
  <2> HIDE DEF before
  <2>5. F[T] = before + f[k]
    BY <2>2, <2>4
  <2>6. QED
    BY <2>5 DEF T, before
<1>10. QED
  BY <1>7, <1>8, <1>9

\* The sum of the library is the last prefix sum, whatever order it was taken in.
LEMMA SumOfPrefixes ==
  ASSUME NEW seq \in Seq(Int)
  PROVE  \E p : PrefixSums(seq, p) /\ SeqSum(seq) = p[Len(seq)]
<1> DEFINE n == Len(seq)
           F == CHOOSE G : IsFold(G, seq, DOMAIN seq)
           p == [k \in 0..n |-> F[1..k]]
<1>1. n \in Nat /\ DOMAIN seq = 1..n /\ seq \in [1..n -> Int]
  BY LenProperties
<1>2. SeqSum(seq) = F[1..n]
  <2>1. SeqSum(seq) = F[DOMAIN seq]
    BY DEF SeqSum, FoldSeq, FoldFunction, FoldFunctionOnSet, MapThenFoldSet, IsFold, Pick
  <2>2. QED
    BY <1>1, <2>1
<1>3. IsFold(F, seq, 1..n)
  <2>1. IsFiniteSet(1..n)
    BY <1>1, FS_Interval
  <2>2. IsFold((CHOOSE G : IsFold(G, seq, 1..n)), seq, 1..n)
    BY <1>1, <2>1, FoldIsFold
  <2>3. QED
    BY <1>1, <2>2
<1> HIDE DEF F, n
<1>4. /\ F[{}] = 0 /\ \A k \in 0..n : F[1..k] \in Int
      /\ \A k \in 1..n : F[1..k] = F[1..(k - 1)] + seq[k]
  BY <1>1, <1>3, FoldOfInterval
<1>5. p \in [0..n -> Int]
  BY <1>4
<1>6. p[0] = 0 /\ p[n] = F[1..n]
  <2>1. 1..0 = {} /\ 0 \in 0..n /\ n \in 0..n
    BY <1>1
  <2>2. QED
    BY <1>4, <2>1
<1>7. \A k \in 1..n : p[k] = p[k - 1] + seq[k]
  <2>1. \A k \in 1..n : k \in 0..n /\ k - 1 \in 0..n
    BY <1>1
  <2>2. QED
    BY <1>4, <2>1
<1> HIDE DEF p
<1>8. QED
  BY <1>2, <1>5, <1>6, <1>7 DEF PrefixSums, n

\* There is only one function of prefix sums.
LEMMA PrefixesAgree ==
  ASSUME NEW s \in Seq(Int), NEW t \in Seq(Int), NEW p, NEW q,
         PrefixSums(s, p), PrefixSums(t, q), Len(s) <= Len(t),
         \A k \in 1..Len(s) : s[k] = t[k]
  PROVE  \A k \in 0..Len(s) : p[k] = q[k]
<1> DEFINE Same == {k \in Nat : k <= Len(s) => p[k] = q[k]}
<1>1. Len(s) \in Nat /\ Len(t) \in Nat
  BY LenProperties
<1>2. 0 \in Same
  BY DEF PrefixSums
<1>3. ASSUME NEW k \in Nat, k \in Same PROVE k + 1 \in Same
  <2> SUFFICES ASSUME k + 1 <= Len(s) PROVE p[k + 1] = q[k + 1]
    OBVIOUS
  <2>1. k + 1 \in 1..Len(s) /\ k + 1 \in 1..Len(t) /\ (k + 1) - 1 = k
    BY <1>1
  <2>2. p[k + 1] = p[k] + s[k + 1] /\ q[k + 1] = q[k] + t[k + 1]
    BY <2>1 DEF PrefixSums
  <2>3. p[k] = q[k]
    BY <1>1, <1>3
  <2>4. QED
    BY <2>1, <2>2, <2>3
<1>4. Nat \subseteq Same
  <2> HIDE DEF Same
  <2>1. QED
    BY <1>2, <1>3, NatAll
<1>5. QED
  BY <1>1, <1>4

\* The sum of nothing is zero, and an element appended is an element added.
LEMMA SumFacts ==
  /\ SeqSum(<<>>) = 0
  /\ \A s \in Seq(Int) : SeqSum(s) \in Int
  /\ \A s \in Seq(Int), x \in Int : SeqSum(Append(s, x)) = SeqSum(s) + x
<1>1. SeqSum(<<>>) = 0
  <2>1. <<>> \in Seq(Int) /\ Len(<<>>) = 0
    OBVIOUS
  <2>2. PICK p : PrefixSums(<<>>, p) /\ SeqSum(<<>>) = p[Len(<<>>)]
    BY <2>1, SumOfPrefixes
  <2>3. QED
    BY <2>1, <2>2 DEF PrefixSums
<1>2. ASSUME NEW s \in Seq(Int) PROVE SeqSum(s) \in Int
  <2>1. PICK p : PrefixSums(s, p) /\ SeqSum(s) = p[Len(s)]
    BY SumOfPrefixes
  <2>2. Len(s) \in 0..Len(s)
    BY LenProperties
  <2>3. QED
    BY <2>1, <2>2 DEF PrefixSums
<1>3. ASSUME NEW s \in Seq(Int), NEW x \in Int PROVE SeqSum(Append(s, x)) = SeqSum(s) + x
  <2> DEFINE t == Append(s, x)
             n == Len(s)
  <2>1. /\ t \in Seq(Int) /\ Len(t) = n + 1 /\ t[n + 1] = x /\ n \in Nat
        /\ \A k \in 1..n : s[k] = t[k]
    BY AppendProperties, LenProperties
  <2>2. PICK p : PrefixSums(s, p) /\ SeqSum(s) = p[n]
    BY SumOfPrefixes
  <2> HIDE DEF t
  <2>3. PICK q : PrefixSums(t, q) /\ SeqSum(t) = q[Len(t)]
    BY <2>1, SumOfPrefixes
  <2>4. p[n] = q[n]
    BY <2>1, <2>2, <2>3, PrefixesAgree
  <2>5. q[n + 1] = q[(n + 1) - 1] + t[n + 1]
    <3>1. \A k \in 1..Len(t) : q[k] = q[k - 1] + t[k]
      BY <2>3 DEF PrefixSums
    <3>2. n + 1 \in 1..Len(t)
      BY <2>1
    <3>3. QED
      BY <3>1, <3>2
  <2>6. (n + 1) - 1 = n
    BY <2>1
  <2>7. QED
    BY <2>1, <2>2, <2>3, <2>4, <2>5, <2>6 DEF t
<1>4. QED
  BY <1>1, <1>2, <1>3

\* The mean lies between the least and the greatest element.
LEMMA SumBounds ==
  ASSUME NEW s \in Seq(Int), NEW c \in Int
  PROVE  /\ (\A k \in 1..Len(s) : s[k] <= c) => SeqSum(s) <= Len(s) * c
         /\ (\A k \in 1..Len(s) : s[k] >= c) => SeqSum(s) >= Len(s) * c
         /\ s # <<>> /\ (\A k \in 1..Len(s) : s[k] < c) => SeqSum(s) < Len(s) * c
<1> DEFINE n == Len(s)
<1>1. PICK p : PrefixSums(s, p) /\ SeqSum(s) = p[n]
  BY SumOfPrefixes
<1>2. /\ n \in Nat /\ \A k \in 1..n : s[k] \in Int /\ p[k] = p[k - 1] + s[k]
      /\ p[0] = 0 /\ \A k \in 0..n : p[k] \in Int
  BY <1>1, LenProperties DEF PrefixSums
<1> HIDE DEF n
<1>3. ASSUME NEW k \in Nat PROVE k * c \in Int /\ (k + 1) * c = k * c + c
  OBVIOUS
<1>4. ASSUME \A k \in 1..n : s[k] <= c PROVE p[n] <= n * c
  <2> DEFINE Low == {k \in Nat : k <= n => p[k] <= k * c}
  <2>1. 0 \in Low
    BY <1>2
  <2>2. ASSUME NEW k \in Nat, k \in Low PROVE k + 1 \in Low
    <3> SUFFICES ASSUME k + 1 <= n PROVE p[k + 1] <= (k + 1) * c
      OBVIOUS
    <3>1. k + 1 \in 1..n /\ k \in 0..n /\ (k + 1) - 1 = k
      BY <1>2
    <3>2. p[k + 1] = p[k] + s[k + 1] /\ s[k + 1] <= c /\ s[k + 1] \in Int /\ p[k] \in Int
      BY <1>2, <1>4, <3>1
    <3>3. p[k] <= k * c
      BY <1>2, <2>2
    <3>4. QED
      BY <1>3, <3>2, <3>3
  <2> HIDE DEF Low
  <2>3. Nat \subseteq Low
    BY <2>1, <2>2, NatAll
  <2>4. QED
    BY <1>2, <2>3 DEF Low
<1>5. ASSUME \A k \in 1..n : s[k] >= c PROVE p[n] >= n * c
  <2> DEFINE High == {k \in Nat : k <= n => p[k] >= k * c}
  <2>1. 0 \in High
    BY <1>2
  <2>2. ASSUME NEW k \in Nat, k \in High PROVE k + 1 \in High
    <3> SUFFICES ASSUME k + 1 <= n PROVE p[k + 1] >= (k + 1) * c
      OBVIOUS
    <3>1. k + 1 \in 1..n /\ k \in 0..n /\ (k + 1) - 1 = k
      BY <1>2
    <3>2. p[k + 1] = p[k] + s[k + 1] /\ s[k + 1] >= c /\ s[k + 1] \in Int /\ p[k] \in Int
      BY <1>2, <1>5, <3>1
    <3>3. p[k] >= k * c
      BY <1>2, <2>2
    <3>4. QED
      BY <1>3, <3>2, <3>3
  <2> HIDE DEF High
  <2>3. Nat \subseteq High
    BY <2>1, <2>2, NatAll
  <2>4. QED
    BY <1>2, <2>3 DEF High
<1>6. ASSUME s # <<>>, \A k \in 1..n : s[k] < c PROVE p[n] < n * c
  <2> DEFINE Below == {k \in Nat : k + 1 <= n => p[k + 1] < (k + 1) * c}
  <2>1. 0 \in Below
    <3> SUFFICES ASSUME 1 <= n PROVE p[1] < 1 * c
      OBVIOUS
    <3>1. 1 \in 1..n /\ p[1] = p[0] + s[1] /\ s[1] < c /\ s[1] \in Int
      BY <1>2, <1>6
    <3>2. QED
      BY <1>2, <3>1
  <2>2. ASSUME NEW k \in Nat, k \in Below PROVE k + 1 \in Below
    <3> SUFFICES ASSUME k + 2 <= n PROVE p[k + 2] < (k + 2) * c
      OBVIOUS
    <3>1. k + 2 \in 1..n /\ k + 1 \in 0..n /\ (k + 2) - 1 = k + 1
      BY <1>2
    <3>2. p[k + 2] = p[k + 1] + s[k + 2] /\ s[k + 2] < c /\ s[k + 2] \in Int /\ p[k + 1] \in Int
      BY <1>2, <1>6, <3>1
    <3>3. p[k + 1] < (k + 1) * c
      BY <1>2, <2>2
    <3>4. (k + 2) * c = (k + 1) * c + c /\ (k + 1) * c \in Int
      OBVIOUS
    <3>5. QED
      BY <3>2, <3>3, <3>4
  <2> HIDE DEF Below
  <2>3. Nat \subseteq Below
    BY <2>1, <2>2, NatAll
  <2>4. n # 0
    BY <1>6, EmptySeq DEF n
  <2>5. n - 1 \in Below /\ (n - 1) + 1 = n
    BY <1>2, <2>3, <2>4
  <2>6. QED
    BY <2>5 DEF Below
<1>7. QED
  BY <1>1, <1>4, <1>5, <1>6 DEF n

\* A window of naturals that sums to zero holds nothing but zeros.
LEMMA SumOfNaturals ==
  ASSUME NEW s \in Seq(Nat)
  PROVE  SeqSum(s) \in Nat /\ \A k \in 1..Len(s) : s[k] <= SeqSum(s)
<1> DEFINE n == Len(s)
<1>1. s \in Seq(Int) /\ n \in Nat /\ \A k \in 1..n : s[k] \in Nat
  <2>1. \A k \in 1..n : s[k] \in Nat
    OBVIOUS
  <2>2. s \in Seq(Int)
    BY <2>1, IsASeq
  <2>3. QED
    BY <2>1, <2>2, LenProperties
<1>2. PICK p : PrefixSums(s, p) /\ SeqSum(s) = p[n]
  BY <1>1, SumOfPrefixes
<1>3. /\ \A k \in 1..n : p[k] = p[k - 1] + s[k]
      /\ p[0] = 0 /\ \A k \in 0..n : p[k] \in Int
  BY <1>2 DEF PrefixSums
<1> HIDE DEF n
<1> DEFINE Grows == {k \in Nat : k <= n => p[k] >= 0 /\ \A j \in 1..k : s[j] <= p[k]}
<1>4. 0 \in Grows
  BY <1>3
<1>5. ASSUME NEW k \in Nat, k \in Grows PROVE k + 1 \in Grows
  <2> SUFFICES ASSUME k + 1 <= n
               PROVE  p[k + 1] >= 0 /\ \A j \in 1..(k + 1) : s[j] <= p[k + 1]
    OBVIOUS
  <2>1. k + 1 \in 1..n /\ k \in 0..n /\ (k + 1) - 1 = k
    BY <1>1
  <2>2. p[k + 1] = p[k] + s[k + 1] /\ s[k + 1] \in Nat /\ p[k] \in Int
    BY <1>1, <1>3, <2>1
  <2>3. p[k] >= 0 /\ \A j \in 1..k : s[j] <= p[k]
    BY <1>1, <1>5
  <2>4. p[k] <= p[k + 1] /\ s[k + 1] <= p[k + 1] /\ p[k + 1] \in Nat
    BY <2>2, <2>3
  <2>5. ASSUME NEW j \in 1..(k + 1) PROVE s[j] <= p[k + 1]
    <3>1. CASE j = k + 1
      BY <2>4, <3>1
    <3>2. CASE j \in 1..k
      <4>1. s[j] <= p[k] /\ s[j] \in Nat
        BY <1>1, <2>1, <2>3, <3>2
      <4>2. QED
        BY <2>2, <2>4, <4>1
    <3>3. QED
      BY <3>1, <3>2
  <2>6. QED
    BY <2>4, <2>5
<1>6. Nat \subseteq Grows
  <2> HIDE DEF Grows
  <2>1. QED
    BY <1>4, <1>5, NatAll
<1>7. p[n] >= 0 /\ \A j \in 1..n : s[j] <= p[n]
  BY <1>1, <1>6
<1>8. QED
  BY <1>1, <1>2, <1>3, <1>7 DEF n

\* A sequence that is another one scaled, and one more element.
LEMMA ScaledSum ==
  ASSUME NEW s \in Seq(Int), NEW t \in Seq(Int), NEW c \in Int, Len(t) = Len(s) + 1,
         \A k \in 1..Len(s) : t[k] = c * s[k]
  PROVE  SeqSum(t) = c * SeqSum(s) + t[Len(t)]
<1> DEFINE n == Len(s)
<1>1. n \in Nat /\ Len(t) = n + 1 /\ \A k \in 1..n : s[k] \in Int
  BY LenProperties
<1>2. PICK p : PrefixSums(s, p) /\ SeqSum(s) = p[n]
  BY SumOfPrefixes
<1>3. PICK q : PrefixSums(t, q) /\ SeqSum(t) = q[Len(t)]
  BY SumOfPrefixes
<1>4. /\ p[0] = 0 /\ \A k \in 0..n : p[k] \in Int
      /\ \A k \in 1..n : p[k] = p[k - 1] + s[k]
  BY <1>2 DEF PrefixSums
<1>5. q[0] = 0 /\ \A k \in 1..(n + 1) : q[k] = q[k - 1] + t[k]
  BY <1>1, <1>3 DEF PrefixSums
<1> HIDE DEF n
<1> DEFINE Scaled == {k \in Nat : k <= n => q[k] = c * p[k]}
<1>6. 0 \in Scaled
  BY <1>4, <1>5
<1>7. ASSUME NEW k \in Nat, k \in Scaled PROVE k + 1 \in Scaled
  <2> SUFFICES ASSUME k + 1 <= n PROVE q[k + 1] = c * p[k + 1]
    OBVIOUS
  <2>1. k + 1 \in 1..n /\ k + 1 \in 1..(n + 1) /\ k \in 0..n /\ (k + 1) - 1 = k
    BY <1>1
  <2>2. p[k + 1] = p[k] + s[k + 1] /\ q[k + 1] = q[k] + t[k + 1]
    BY <1>4, <1>5, <2>1
  <2>3. t[k + 1] = c * s[k + 1] /\ q[k] = c * p[k]
    BY <1>1, <1>7, <2>1 DEF n
  <2>4. p[k] \in Int /\ s[k + 1] \in Int
    BY <1>1, <1>4, <2>1
  <2>5. c * (p[k] + s[k + 1]) = c * p[k] + c * s[k + 1]
    BY <2>4
  <2>6. QED
    BY <2>2, <2>3, <2>5
<1>8. Nat \subseteq Scaled
  <2> HIDE DEF Scaled
  <2>1. QED
    BY <1>6, <1>7, NatAll
<1>9. q[n] = c * p[n]
  BY <1>1, <1>8
<1>10. q[n + 1] = q[n] + t[n + 1]
  <2>1. n + 1 \in 1..(n + 1) /\ (n + 1) - 1 = n
    BY <1>1
  <2>2. QED
    BY <1>5, <2>1
<1>11. QED
  BY <1>1, <1>2, <1>3, <1>9, <1>10 DEF n

================================================================================
