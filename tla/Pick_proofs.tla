---------------------------- MODULE Pick_proofs ----------------------------
(***************************************************************************)
(* What Picked and Firsts return, for every sequence and every set of its  *)
(* positions, and what FlattenSeq returns, step by step.                   *)
(***************************************************************************)
EXTENDS Pick, SequencesExt, FiniteSetTheorems, TLAPS

\* What being a sequence over T says of the elements.  (The provers need it for
\* sets T of records.)
LEMMA SequenceElements ==
  ASSUME NEW T, NEW s \in Seq(T)
  PROVE  /\ Len(s) \in Nat /\ DOMAIN s = 1 .. Len(s)
         /\ \A k \in DOMAIN s : s[k] \in T
  OBVIOUS

LEMMA FunctionIsSequence ==
  ASSUME NEW T, NEW n \in Nat, NEW f, f = [k \in 1 .. n |-> f[k]], \A k \in 1 .. n : f[k] \in T
  PROVE  f \in Seq(T) /\ Len(f) = n
  OBVIOUS

\* A set of positions is finite.
LEMMA PositionsFinite ==
  ASSUME NEW n \in Nat, NEW P \in SUBSET (1 .. n)
  PROVE  IsFiniteSet(P) /\ Cardinality(P) \in Nat /\ Cardinality(P) <= n
  <1>1. IsFiniteSet(1 .. n) /\ Cardinality(1 .. n) = n
    <2>1. IsFiniteSet(1 .. n) /\ Cardinality(1 .. n) = IF 1 > n THEN 0 ELSE n - 1 + 1
      BY FS_Interval
    <2> QED
      BY <2>1
  <1>2. IsFiniteSet(P) /\ Cardinality(P) <= Cardinality(1 .. n)
    BY <1>1, FS_Subset
  <1> QED
    BY <1>1, <1>2, FS_CardinalityType

\* The number of positions below grows strictly along P, and stays below its size.
LEMMA BelowGrows ==
  ASSUME NEW n \in Nat, NEW P \in SUBSET (1 .. n), NEW i \in P
  PROVE  /\ IsFiniteSet(Below(P, i))
         /\ Cardinality(Below(P, i)) \in 0 .. Cardinality(P) - 1
         /\ \A j \in P : i < j => Cardinality(Below(P, i)) < Cardinality(Below(P, j))
  <1>1. ASSUME NEW S \in SUBSET P
        PROVE  /\ IsFiniteSet(S) /\ Cardinality(S) \in Nat
               /\ \A T \in SUBSET S : \A x \in S \ T : Cardinality(T) < Cardinality(S)
    <2>1. IsFiniteSet(S) /\ Cardinality(S) \in Nat
      BY PositionsFinite
    <2>2. ASSUME NEW T \in SUBSET S, NEW x \in S \ T
          PROVE  Cardinality(T) < Cardinality(S)
      <3>1. IsFiniteSet(T) /\ Cardinality(T) <= Cardinality(S) /\ Cardinality(T) # Cardinality(S)
        BY <2>1, FS_Subset
      <3>2. Cardinality(T) \in Nat
        BY <3>1, FS_CardinalityType
      <3> QED
        BY <2>1, <3>1, <3>2
    <2> QED
      BY <2>1, <2>2
  <1>2. Below(P, i) \in SUBSET P /\ i \in P \ Below(P, i)
    BY DEF Below
  <1>3. IsFiniteSet(Below(P, i)) /\ Cardinality(Below(P, i)) \in Nat
    BY <1>1, <1>2
  <1>4. Cardinality(Below(P, i)) < Cardinality(P)
    BY <1>1, <1>2
  <1>5. ASSUME NEW j \in P, i < j
        PROVE  Cardinality(Below(P, i)) < Cardinality(Below(P, j))
    <2>1. Below(P, i) \in SUBSET Below(P, j) /\ i \in Below(P, j) \ Below(P, i)
      <3>1. i \in Nat /\ j \in Nat /\ P \subseteq Nat
        OBVIOUS
      <3>2. \A m \in P : m < i => m < j
        BY <1>5, <3>1
      <3>3. ~(i < i)
        BY <3>1
      <3> QED
        BY <1>5, <3>2, <3>3 DEF Below
    <2>2. Below(P, j) \in SUBSET P
      BY DEF Below
    <2> QED
      BY <1>1, <2>1, <2>2
  <1>6. Cardinality(P) \in Nat
    BY <1>1
  <1> QED
    BY <1>3, <1>4, <1>5, <1>6

\* Every number below the size of P is the number of positions below just one.
LEMMA RanksAreABijection ==
  ASSUME NEW n \in Nat, NEW P \in SUBSET (1 .. n), NEW k \in 1 .. Cardinality(P)
  PROVE  \E i \in P : /\ Cardinality(Below(P, i)) = k - 1
                     /\ \A j \in P : Cardinality(Below(P, j)) = k - 1 => j = i
  <1> DEFINE rank == [i \in P |-> Cardinality(Below(P, i))]
             Ranks == 0 .. Cardinality(P) - 1
  <1>1. IsFiniteSet(P) /\ Cardinality(P) \in Nat
    BY PositionsFinite
  <1>2. IsFiniteSet(Ranks) /\ Cardinality(Ranks) = Cardinality(P)
    <2>1. 0 \in Int /\ Cardinality(P) - 1 \in Int
      BY <1>1
    <2>2. /\ IsFiniteSet(Ranks)
          /\ Cardinality(Ranks) =
                IF 0 > Cardinality(P) - 1 THEN 0 ELSE Cardinality(P) - 1 - 0 + 1
      BY <2>1, FS_Interval
    <2> QED
      BY <1>1, <2>2
  <1>3. rank \in [P -> Ranks]
    BY BelowGrows
  <1>4. \A i, j \in P : rank[i] = rank[j] => i = j
    <2> SUFFICES ASSUME NEW i \in P, NEW j \in P, i < j PROVE rank[i] < rank[j]
      BY <1>3
    <2> QED
      BY BelowGrows
  <1>5. rank \in Injection(P, Ranks)
    BY <1>3, <1>4 DEF Injection, IsInjective
  <1>6. rank \in Surjection(P, Ranks)
    BY <1>1, <1>2, <1>5, FS_Injection
  <1>7. k - 1 \in Ranks
    BY <1>1
  <1>8. PICK i \in P : rank[i] = k - 1
    BY <1>6, <1>7 DEF Surjection
  <1> QED
    BY <1>4, <1>8

\* A set of positions that is not empty has a least one.
LEMMA LeastPosition ==
  ASSUME NEW n \in Nat, NEW P \in SUBSET (1 .. n), P # {}
  PROVE  /\ 1 \in 1 .. Cardinality(P)
         /\ \A i \in P : Cardinality(Below(P, i)) = 0 => \A j \in P : i <= j
         /\ \E i \in P : Cardinality(Below(P, i)) = 0
  <1>1. IsFiniteSet(P) /\ Cardinality(P) \in Nat /\ Cardinality(P) # 0
    BY PositionsFinite, FS_EmptySet
  <1>2. 1 \in 1 .. Cardinality(P)
    BY <1>1
  <1>3. \E i \in P : Cardinality(Below(P, i)) = 1 - 1
    BY <1>2, RanksAreABijection
  <1>4. ASSUME NEW i \in P, Cardinality(Below(P, i)) = 0, NEW j \in P
        PROVE  i <= j
    <2>1. Below(P, i) = {}
      BY <1>4, BelowGrows, FS_EmptySet
    <2>2. ~(j < i)
      BY <2>1 DEF Below
    <2> QED
      BY <2>2
  <1> QED
    BY <1>2, <1>3, <1>4

\* And it has a greatest.
LEMMA GreatestPosition ==
  ASSUME NEW n \in Nat, NEW P \in SUBSET (1 .. n), P # {}
  PROVE  \E i \in P : \A j \in P : i >= j
  <1> DEFINE Q == {m \in 1 .. n : \A j \in P : j <= m}
  <1>1. Q \in SUBSET (1 .. n) /\ Q # {}
    <2>1. PICK x \in P : TRUE
      OBVIOUS
    <2>2. n \in 1 .. n /\ \A j \in P : j <= n
      BY <2>1
    <2> QED
      BY <2>2
  <1>2. \E i \in Q : \A j \in Q : i <= j
    <2> HIDE DEF Q
    <2> QED
      BY <1>1, LeastPosition
  <1>3. PICK i \in Q : \A j \in Q : i <= j
    BY <1>2
  <1>4. i \in 1 .. n /\ \A j \in P : j \in 1 .. n /\ j <= i
    BY <1>3
  <1>5. i \in P
    <2> SUFFICES ASSUME i \notin P PROVE FALSE
      OBVIOUS
    <2>1. \A j \in P : j <= i - 1
      BY <1>4
    <2>2. i - 1 \in 1 .. n
      <3>1. PICK j \in P : TRUE
        OBVIOUS
      <3>2. j \in 1 .. n /\ j <= i - 1
        BY <1>4, <2>1, <3>1
      <3> QED
        BY <1>4, <3>2
    <2>3. i - 1 \in Q
      BY <2>1, <2>2
    <2> QED
      BY <1>3, <1>4, <2>3
  <1> QED
    BY <1>4, <1>5

\* Induction over positions.
LEMMA PositionInduction ==
  ASSUME NEW n \in Nat, NEW K, n > 0 => 1 \in K,
         \A m \in 1 .. n - 1 : m \in K => m + 1 \in K
  PROVE  \A m \in 1 .. n : m \in K
  <1> DEFINE B == {m \in 1 .. n : m \notin K}
  <1> SUFFICES ASSUME B # {} PROVE FALSE
    OBVIOUS
  <1>1. B \in SUBSET (1 .. n)
    OBVIOUS
  <1> HIDE DEF B
  <1>2. PICK i \in B : \A j \in B : i <= j
    BY <1>1, LeastPosition
  <1>3. i \in 1 .. n /\ i \notin K
    BY DEF B
  <1>4. i - 1 \in 1 .. n - 1 /\ (i - 1) + 1 = i
    BY <1>3
  <1>5. i - 1 \in K
    <2>1. i - 1 \in 1 .. n /\ ~(i <= i - 1)
      BY <1>3, <1>4
    <2> QED
      BY <1>2, <2>1 DEF B
  <1> QED
    BY <1>3, <1>4, <1>5

\* Induction over numbers of positions.
LEMMA CountInduction ==
  ASSUME NEW n \in Nat, NEW K, 0 \in K,
         \A m \in 0 .. n - 1 : m \in K => m + 1 \in K
  PROVE  \A m \in 0 .. n : m \in K
  <1> DEFINE J == {m \in 1 .. n + 1 : m - 1 \in K}
  <1>1. n + 1 \in Nat /\ (n + 1 > 0 => 1 \in J)
    <2>1. 1 \in 1 .. n + 1 /\ 1 - 1 = 0
      OBVIOUS
    <2> QED
      BY <2>1
  <1>2. ASSUME NEW m \in 1 .. (n + 1) - 1, m \in J PROVE m + 1 \in J
    <2>1. m - 1 \in 0 .. n - 1 /\ (m - 1) + 1 = m /\ (m + 1) - 1 = m /\ m + 1 \in 1 .. n + 1
      OBVIOUS
    <2>2. m - 1 \in K
      BY <1>2
    <2>3. (m - 1) + 1 \in K
      BY <2>1, <2>2
    <2> QED
      BY <2>1, <2>3
  <1>3. \A m \in 1 .. n + 1 : m \in J
    <2> HIDE DEF J
    <2> QED
      BY <1>1, <1>2, PositionInduction
  <1>4. ASSUME NEW m \in 0 .. n PROVE m \in K
    <2>1. m + 1 \in 1 .. n + 1 /\ (m + 1) - 1 = m
      OBVIOUS
    <2> QED
      BY <1>3, <2>1
  <1> QED
    BY <1>4

\* How many elements of S come before x in the order R.
RankIn(S, R, x) == Cardinality({y \in S : <<y, x>> \in R})

\* R is a strict total order on S.
Orders(R, S) ==
    /\ \A x \in S : <<x, x>> \notin R
    /\ \A x, y, z \in S : <<x, y>> \in R /\ <<y, z>> \in R => <<x, z>> \in R
    /\ \A x, y \in S : x = y \/ <<x, y>> \in R \/ <<y, x>> \in R

\* In a strict total order each number below the size of a finite set is the rank
\* of just one of its elements.
LEMMA OrderRanks ==
  ASSUME NEW S, IsFiniteSet(S), NEW R, Orders(R, S)
  PROVE  /\ \A x, y \in S : <<x, y>> \in R => RankIn(S, R, x) < RankIn(S, R, y)
         /\ \A x \in S : RankIn(S, R, x) \in 0 .. Cardinality(S) - 1
         /\ \A k \in 1 .. Cardinality(S) : \E x \in S :
               /\ RankIn(S, R, x) = k - 1
               /\ \A y \in S : RankIn(S, R, y) = k - 1 => y = x
  <1> DEFINE Prior(x) == {y \in S : <<y, x>> \in R}
             Rank(x) == Cardinality(Prior(x))
             Ranks == 0 .. Cardinality(S) - 1
             rank == [x \in S |-> Rank(x)]
  <1>1. ASSUME NEW B \in SUBSET S, NEW A \in SUBSET B, NEW x \in B \ A
        PROVE  Cardinality(A) < Cardinality(B) /\ Cardinality(A) \in Nat
    <2>1. IsFiniteSet(B)
      BY FS_Subset
    <2>2. IsFiniteSet(A) /\ Cardinality(A) <= Cardinality(B) /\ Cardinality(A) # Cardinality(B)
      BY <2>1, FS_Subset
    <2>3. Cardinality(A) \in Nat /\ Cardinality(B) \in Nat
      BY <2>1, <2>2, FS_CardinalityType
    <2> QED
      BY <2>2, <2>3
  <1>2. Cardinality(S) \in Nat
    BY FS_CardinalityType
  <1>3. ASSUME NEW x \in S PROVE Rank(x) \in Ranks
    <2>1. Prior(x) \in SUBSET S /\ x \in S \ Prior(x)
      BY DEF Orders
    <2> HIDE DEF Prior
    <2>2. Rank(x) < Cardinality(S) /\ Rank(x) \in Nat
      BY <1>1, <2>1
    <2> QED
      BY <1>2, <2>2
  <1>4. ASSUME NEW x \in S, NEW y \in S, <<x, y>> \in R PROVE Rank(x) < Rank(y)
    <2>1. Prior(y) \in SUBSET S /\ Prior(x) \in SUBSET Prior(y) /\ x \in Prior(y) \ Prior(x)
      BY <1>4 DEF Orders
    <2> HIDE DEF Prior
    <2> QED
      BY <1>1, <2>1
  <1>5. IsFiniteSet(Ranks) /\ Cardinality(Ranks) = Cardinality(S)
    <2>1. 0 \in Int /\ Cardinality(S) - 1 \in Int
      BY <1>2
    <2>2. /\ IsFiniteSet(Ranks)
          /\ Cardinality(Ranks) =
                IF 0 > Cardinality(S) - 1 THEN 0 ELSE Cardinality(S) - 1 - 0 + 1
      BY <2>1, FS_Interval
    <2> QED
      BY <1>2, <2>2
  <1> HIDE DEF Rank
  <1>6. rank \in [S -> Ranks]
    BY <1>3
  <1>7. \A x, y \in S : rank[x] = rank[y] => x = y
    <2> SUFFICES ASSUME NEW x \in S, NEW y \in S, x # y PROVE rank[x] # rank[y]
      OBVIOUS
    <2>1. rank[x] \in Int /\ rank[y] \in Int
      BY <1>6
    <2>2. rank[x] < rank[y] \/ rank[y] < rank[x]
      BY <1>4 DEF Orders
    <2> QED
      BY <2>1, <2>2
  <1>8. rank \in Injection(S, Ranks)
    BY <1>6, <1>7 DEF Injection, IsInjective
  <1>9. rank \in Surjection(S, Ranks)
    BY <1>5, <1>8, FS_Injection
  <1>10. ASSUME NEW k \in 1 .. Cardinality(S)
         PROVE  \E x \in S : Rank(x) = k - 1 /\ \A y \in S : Rank(y) = k - 1 => y = x
    <2>1. k - 1 \in Ranks
      BY <1>2
    <2>2. PICK x \in S : rank[x] = k - 1
      BY <1>9, <2>1 DEF Surjection
    <2> QED
      BY <1>7, <2>2
  <1>11. \A x \in S : RankIn(S, R, x) = Rank(x)
    BY DEF RankIn, Rank
  <1> HIDE DEF Ranks
  <1>12. \A x \in S : RankIn(S, R, x) \in 0 .. Cardinality(S) - 1
    BY <1>3, <1>11 DEF Ranks
  <1> QED
    BY <1>4, <1>10, <1>11, <1>12

\* r holds the elements of s in the order R of their positions, and loses none.
Sorts(s, r, R) ==
    \E from \in [1 .. Len(s) -> 1 .. Len(s)] :
        /\ \A k \in 1 .. Len(s) : r[k] = s[from[k]]
        /\ \A i \in 1 .. Len(s) : \E k \in 1 .. Len(s) : from[k] = i
        /\ \A k, l \in 1 .. Len(s) : k < l =>
              from[k] # from[l] /\ <<from[k], from[l]>> \in R

\* So does a sequence that takes them by the ranks of their positions.
LEMMA RankedSorts ==
  ASSUME NEW T, NEW s \in Seq(T), NEW R, Orders(R, DOMAIN s),
         NEW r, r = [k \in DOMAIN s |-> s[CHOOSE i \in DOMAIN s : RankIn(DOMAIN s, R, i) = k - 1]]
  PROVE  r \in Seq(T) /\ Len(r) = Len(s) /\ Sorts(s, r, R)
  <1> DEFINE n == Len(s)
             D == 1 .. n
             Rank(i) == RankIn(D, R, i)
             from == [k \in D |-> CHOOSE i \in D : Rank(i) = k - 1]
  <1>1. n \in Nat /\ DOMAIN s = D /\ IsFiniteSet(D) /\ Cardinality(D) = n
    <2>1. n \in Nat /\ DOMAIN s = D
      OBVIOUS
    <2>2. IsFiniteSet(D) /\ Cardinality(D) = IF 1 > n THEN 0 ELSE n - 1 + 1
      BY <2>1, FS_Interval, SMTT(40)
    <2> QED
      BY <2>1, <2>2
  <1>2. Orders(R, D)
    BY <1>1
  <1>3. r = [k \in D |-> s[from[k]]]
    BY <1>1
  <1> HIDE DEF D, n
  <1>4. \A x, y \in D : <<x, y>> \in R => Rank(x) < Rank(y)
    BY <1>1, <1>2, OrderRanks
  <1>5. \A x \in D : Rank(x) \in 0 .. Cardinality(D) - 1
    BY <1>1, <1>2, OrderRanks
  <1>6. \A k \in 1 .. Cardinality(D) : \E x \in D :
           Rank(x) = k - 1 /\ \A y \in D : Rank(y) = k - 1 => y = x
    <2>1. \A k \in 1 .. Cardinality(D) : \E x \in D :
             RankIn(D, R, x) = k - 1 /\ \A y \in D : RankIn(D, R, y) = k - 1 => y = x
      <3>1. IsFiniteSet(D) /\ Orders(R, D)
        BY <1>1, <1>2
      <3> QED
        BY <3>1, OrderRanks
    <2> QED
      BY <2>1
  <1> HIDE DEF Rank
  <1>7. \A k \in D : from[k] \in D /\ Rank(from[k]) = k - 1
    <2> TAKE k \in D
    <2>1. k \in 1 .. Cardinality(D)
      BY <1>1 DEF D
    <2>2. \E i \in D : Rank(i) = k - 1
      BY <1>6, <2>1
    <2> QED
      BY <2>2
  <1>8. from \in [D -> D]
    BY <1>7
  <1>9. ASSUME NEW i \in D PROVE \E k \in D : from[k] = i
    <2>1. Rank(i) \in 0 .. n - 1
      BY <1>1, <1>5
    <2>2. Rank(i) + 1 \in D /\ (Rank(i) + 1) - 1 = Rank(i)
      BY <1>1, <2>1 DEF D
    <2> DEFINE k == Rank(i) + 1
    <2>3. k \in 1 .. Cardinality(D) /\ k \in D /\ Rank(i) = k - 1
      BY <1>1, <2>2 DEF D
    <2> HIDE DEF k
    <2>4. PICK x \in D : Rank(x) = k - 1 /\ \A y \in D : Rank(y) = k - 1 => y = x
      BY <1>6, <2>3
    <2>5. from[k] = i
      BY <1>7, <2>3, <2>4
    <2> QED
      BY <2>3, <2>5
  <1>10. ASSUME NEW k \in D, NEW l \in D, k < l
         PROVE  from[k] # from[l] /\ <<from[k], from[l]>> \in R
    <2>1. from[k] \in D /\ from[l] \in D /\ Rank(from[k]) = k - 1 /\ Rank(from[l]) = l - 1
      BY <1>7
    <2>2. k \in Int /\ l \in Int
      BY <1>1 DEF D
    <2> HIDE DEF from
    <2>3. ~(Rank(from[l]) < Rank(from[k])) /\ Rank(from[k]) # Rank(from[l])
      BY <1>10, <2>1, <2>2
    <2>4. from[k] # from[l] /\ <<from[l], from[k]>> \notin R
      BY <1>4, <2>1, <2>3
    <2> QED
      BY <1>2, <2>1, <2>4 DEF Orders
  <1> HIDE DEF from
  <1>11. r \in Seq(T) /\ Len(r) = n
    <2>1. \A k \in D : s[from[k]] \in T
      BY <1>1, <1>8
    <2>2. r = [k \in 1 .. n |-> r[k]] /\ \A k \in 1 .. n : r[k] \in T
      BY <1>3, <2>1 DEF D
    <2> QED
      BY <1>1, <2>2, FunctionIsSequence, SMTT(40)
  <1>12. \A k \in D : r[k] = s[from[k]]
    BY <1>3
  <1> QED
    BY <1>8, <1>9, <1>10, <1>11, <1>12 DEF D, n, Sorts

\* Picked(s, P) has one element per position of P; its k-th is s at the position
\* with k - 1 others below.
THEOREM PickedElements ==
  ASSUME NEW T, NEW s \in Seq(T), NEW P \in SUBSET (DOMAIN s)
  PROVE  /\ Picked(s, P) \in Seq(T)
         /\ Len(Picked(s, P)) = Cardinality(P)
         /\ \A k \in 1 .. Cardinality(P) :
               \E i \in P : Cardinality(Below(P, i)) = k - 1 /\ Picked(s, P)[k] = s[i]
         /\ \A i \in P :
               /\ Cardinality(Below(P, i)) + 1 \in 1 .. Cardinality(P)
               /\ Picked(s, P)[Cardinality(Below(P, i)) + 1] = s[i]
  <1>1. Len(s) \in Nat /\ P \in SUBSET (1 .. Len(s))
    OBVIOUS
  <1>2. Cardinality(P) \in Nat
    BY <1>1, PositionsFinite
  <1>3. ASSUME NEW k \in 1 .. Cardinality(P)
        PROVE  \E i \in P : Cardinality(Below(P, i)) = k - 1 /\ Picked(s, P)[k] = s[i]
    BY <1>1, RanksAreABijection DEF Picked
  <1>4. ASSUME NEW i \in P
        PROVE  /\ Cardinality(Below(P, i)) + 1 \in 1 .. Cardinality(P)
               /\ Picked(s, P)[Cardinality(Below(P, i)) + 1] = s[i]
    <2> DEFINE k == Cardinality(Below(P, i)) + 1
    <2>0. Cardinality(Below(P, i)) \in 0 .. Cardinality(P) - 1
      BY <1>1, BelowGrows
    <2>1. k \in 1 .. Cardinality(P) /\ Cardinality(Below(P, i)) = k - 1
      BY <1>2, <2>0
    <2>2. PICK m \in P : /\ Cardinality(Below(P, m)) = k - 1
                        /\ \A j \in P : Cardinality(Below(P, j)) = k - 1 => j = m
      BY <1>1, <2>1, RanksAreABijection
    <2>3. i = m
      BY <2>1, <2>2
    <2>4. (CHOOSE j \in P : Cardinality(Below(P, j)) = k - 1) = i
      BY <2>2, <2>3
    <2> QED
      BY <2>1, <2>4 DEF Picked
  <1>5. \A k \in 1 .. Cardinality(P) : Picked(s, P)[k] \in T
    BY <1>3
  <1>6. Picked(s, P) \in [1 .. Cardinality(P) -> T]
    BY <1>5 DEF Picked
  <1>7. Picked(s, P) \in Seq(T) /\ Len(Picked(s, P)) = Cardinality(P)
    BY <1>2, <1>6
  <1> QED
    BY <1>3, <1>4, <1>7

\* Where the k-th element picked comes from.
From(P, k) == CHOOSE i \in P : Cardinality(Below(P, i)) = k - 1

LEMMA FromFacts ==
  ASSUME NEW T, NEW s \in Seq(T), NEW P \in SUBSET (DOMAIN s)
  PROVE  /\ Cardinality(P) \in Nat
         /\ \A k \in 1 .. Cardinality(P) :
               From(P, k) \in P /\ Picked(s, P)[k] = s[From(P, k)]
         /\ \A k, l \in 1 .. Cardinality(P) : k < l => From(P, k) < From(P, l)
         /\ \A i \in P : \E k \in 1 .. Cardinality(P) : From(P, k) = i
  <1> DEFINE n == Len(s)
             N == Cardinality(P)
  <1>1. n \in Nat /\ P \in SUBSET (1 .. n)
    OBVIOUS
  <1>2. N \in Nat
    BY <1>1, PositionsFinite
  <1> HIDE DEF n
  <1>3. ASSUME NEW k \in 1 .. N
        PROVE  From(P, k) \in P /\ Cardinality(Below(P, From(P, k))) = k - 1
    <2>1. \E i \in P : Cardinality(Below(P, i)) = k - 1
      BY <1>1, RanksAreABijection
    <2> QED
      BY <2>1 DEF From
  <1>4. ASSUME NEW k \in 1 .. N PROVE Picked(s, P)[k] = s[From(P, k)]
    BY DEF Picked, From
  <1>5. ASSUME NEW k \in 1 .. N, NEW l \in 1 .. N, k < l
        PROVE  From(P, k) < From(P, l)
    <2>1. /\ From(P, k) \in P /\ Cardinality(Below(P, From(P, k))) = k - 1
          /\ From(P, l) \in P /\ Cardinality(Below(P, From(P, l))) = l - 1
      BY <1>3
    <2>2. From(P, k) \in Nat /\ From(P, l) \in Nat
      BY <1>1, <2>1
    <2>3. From(P, k) # From(P, l)
      BY <1>2, <1>5, <2>1
    <2>4. ~(From(P, l) < From(P, k))
      <3>1. From(P, l) < From(P, k) =>
               Cardinality(Below(P, From(P, l))) < Cardinality(Below(P, From(P, k)))
        BY <1>1, <2>1, BelowGrows
      <3> QED
        BY <1>2, <1>5, <2>1, <3>1
    <2> QED
      BY <2>2, <2>3, <2>4
  <1>6. ASSUME NEW i \in P PROVE \E k \in 1 .. N : From(P, k) = i
    <2> DEFINE k == Cardinality(Below(P, i)) + 1
    <2>1. Cardinality(Below(P, i)) \in 0 .. N - 1
      BY <1>1, BelowGrows
    <2>2. k \in 1 .. N /\ Cardinality(Below(P, i)) = k - 1
      BY <1>2, <2>1
    <2> HIDE DEF k
    <2>3. \E j \in P : /\ Cardinality(Below(P, j)) = k - 1
                       /\ \A m \in P : Cardinality(Below(P, m)) = k - 1 => m = j
      BY <1>1, <2>2, RanksAreABijection
    <2>4. From(P, k) = i
      BY <2>2, <2>3 DEF From
    <2> QED
      BY <2>2, <2>4
  <1> QED
    BY <1>2, <1>3, <1>4, <1>5, <1>6

\* The first element picked is the one at the least position.
THEOREM FirstPicked ==
  ASSUME NEW T, NEW s \in Seq(T), NEW P \in SUBSET (DOMAIN s), P # {}
  PROVE  \E i \in P : Picked(s, P)[1] = s[i] /\ \A j \in P : i <= j
  <1>1. Len(s) \in Nat /\ P \in SUBSET (1 .. Len(s))
    OBVIOUS
  <1>2. 1 \in 1 .. Cardinality(P)
    BY <1>1, LeastPosition
  <1>3. PICK i \in P : Cardinality(Below(P, i)) = 1 - 1 /\ Picked(s, P)[1] = s[i]
    BY <1>2, PickedElements
  <1>4. Cardinality(Below(P, i)) = 0
    BY <1>3
  <1>5. \A j \in P : i <= j
    BY <1>1, <1>4, LeastPosition
  <1> QED
    BY <1>3, <1>5

\* The loop of a dedupe: no element twice, and none lost.
THEOREM FirstsAreDistinct ==
  ASSUME NEW T, NEW s \in Seq(T), NEW P \in SUBSET (DOMAIN s)
  PROVE  /\ \A k, l \in 1 .. Cardinality(Firsts(s, P)) :
               Picked(s, Firsts(s, P))[k] = Picked(s, Firsts(s, P))[l] => k = l
         /\ \A i \in P : \E k \in 1 .. Cardinality(Firsts(s, P)) :
               Picked(s, Firsts(s, P))[k] = s[i]
  <1> DEFINE F == Firsts(s, P)
  <1>1. F \in SUBSET (DOMAIN s)
    BY DEF Firsts
  <1>2. ASSUME NEW k \in 1 .. Cardinality(F), NEW l \in 1 .. Cardinality(F),
               Picked(s, F)[k] = Picked(s, F)[l]
        PROVE  k = l
    <2>1. PICK i \in F : Cardinality(Below(F, i)) = k - 1 /\ Picked(s, F)[k] = s[i]
      BY <1>1, PickedElements
    <2>2. PICK j \in F : Cardinality(Below(F, j)) = l - 1 /\ Picked(s, F)[l] = s[j]
      BY <1>1, PickedElements
    <2>3. i <= j /\ j <= i /\ i \in Nat /\ j \in Nat
      BY <1>1, <1>2, <2>1, <2>2 DEF Firsts
    <2>4. i = j
      BY <2>3
    <2>5. k - 1 = l - 1
      BY <2>1, <2>2, <2>4
    <2>6. Cardinality(F) \in Nat
      BY <1>1, PositionsFinite, SMTT(40)
    <2> QED
      BY <2>5, <2>6
  <1>3. ASSUME NEW i \in P
        PROVE  \E k \in 1 .. Cardinality(F) : Picked(s, F)[k] = s[i]
    <2> DEFINE Same == {j \in P : s[j] = s[i]}
    <2>1. Len(s) \in Nat /\ Same \in SUBSET (1 .. Len(s)) /\ i \in Same
      OBVIOUS
    <2>2. PICK m \in Same : \A j \in Same : m <= j
      <3> HIDE DEF Same
      <3> QED
        BY <2>1, LeastPosition
    <2>3. \A j \in P : s[j] = s[m] => m <= j
      BY <2>1, <2>2
    <2>4. m \in F
      BY <2>3 DEF Firsts
    <2> QED
      BY <1>1, <2>4, PickedElements
  <1> QED
    BY <1>2, <1>3

-----------------------------------------------------------------------------
(* FlattenSeq, which is defined by recursion.                              *)

\* The recursion of FlattenSeq is well founded.
LEMMA FlattenUnfolds ==
  ASSUME NEW seqs, Len(seqs) \in Nat \ {0}
  PROVE  \E f : /\ FlattenSeq(seqs) = f[Len(seqs)]
                /\ f[1] = seqs[1]
                /\ \A m \in 1 .. Len(seqs) - 1 : f[m + 1] = f[m] \o seqs[m + 1]
  <1> DEFINE L == Len(seqs)
             Solves(g, m) == g = [i \in 1 .. m |-> IF i = 1 THEN seqs[i] ELSE g[i - 1] \o seqs[i]]
             K == {m \in 1 .. L : \E g : Solves(g, m)}
             flatten[i \in 1 .. Len(seqs)] == IF i = 1 THEN seqs[i] ELSE flatten[i - 1] \o seqs[i]
  <1>1. 1 \in K
    <2> DEFINE g == [i \in 1 .. 1 |-> seqs[i]]
    <2>1. Solves(g, 1)
      OBVIOUS
    <2>2. 1 \in 1 .. L
      OBVIOUS
    <2> HIDE DEF g, Solves
    <2> QED
      BY <2>1, <2>2
  <1>2. ASSUME NEW m \in 1 .. L - 1, m \in K PROVE m + 1 \in K
    <2>1. PICK g : Solves(g, m)
      BY <1>2
    <2> DEFINE h == [i \in 1 .. m + 1 |-> IF i = m + 1 THEN g[m] \o seqs[m + 1] ELSE g[i]]
    <2>2. ASSUME NEW i \in 1 .. m + 1
          PROVE  h[i] = IF i = 1 THEN seqs[i] ELSE h[i - 1] \o seqs[i]
      <3>1. CASE i = m + 1
        <4>1. m \in 1 .. m + 1 /\ i - 1 = m /\ i # 1 /\ m # m + 1
          BY <3>1
        <4>2. h[i] = g[m] \o seqs[m + 1] /\ h[m] = g[m]
          BY <3>1, <4>1
        <4> HIDE DEF h
        <4> QED
          BY <3>1, <4>1, <4>2
      <3>2. CASE i # m + 1
        <4>1. i \in 1 .. m /\ (i # 1 => i - 1 \in 1 .. m)
          BY <3>2
        <4>2. h[i] = g[i] /\ (i # 1 => h[i - 1] = g[i - 1])
          BY <4>1
        <4> HIDE DEF h
        <4>3. g[i] = IF i = 1 THEN seqs[i] ELSE g[i - 1] \o seqs[i]
          BY <2>1, <4>1
        <4> QED
          BY <4>2, <4>3
      <3> QED
        BY <3>1, <3>2
    <2>3. Solves(h, m + 1)
      <3>1. h = [i \in 1 .. m + 1 |-> h[i]]
        OBVIOUS
      <3> HIDE DEF h
      <3> QED
        BY <2>2, <3>1
    <2>4. m + 1 \in 1 .. L
      OBVIOUS
    <2> HIDE DEF h, Solves
    <2> QED
      BY <2>3, <2>4
  <1>3. L \in K
    <2>1. L \in Nat /\ L \in 1 .. L
      OBVIOUS
    <2> HIDE DEF K, L
    <2> QED
      BY <1>1, <1>2, <2>1, PositionInduction
  <1>4. Solves(flatten, L)
    BY <1>3
  <1>5. FlattenSeq(seqs) = flatten[L]
    BY DEF FlattenSeq
  <1> HIDE DEF flatten
  <1>6. flatten[1] = seqs[1]
    BY <1>4
  <1>7. \A m \in 1 .. L - 1 : flatten[m + 1] = flatten[m] \o seqs[m + 1]
    <2> TAKE m \in 1 .. L - 1
    <2>1. m + 1 \in 1 .. L /\ m + 1 # 1 /\ (m + 1) - 1 = m
      OBVIOUS
    <2> QED
      BY <1>4, <2>1
  <1> QED
    BY <1>5, <1>6, <1>7


\* The first n parts glued together.
Glued(parts, n) == FlattenSeq([k \in 1 .. n |-> parts[k]])

LEMMA GluedUnfolds ==
  ASSUME NEW parts, NEW n \in Nat
  PROVE  /\ Glued(parts, 0) = <<>>
         /\ Glued(parts, 1) = parts[1]
         /\ n > 0 => Glued(parts, n + 1) = Glued(parts, n) \o parts[n + 1]
  <1>1. ASSUME NEW m \in Nat \ {0}
        PROVE  \E f : /\ Glued(parts, m) = f[m]
                      /\ f[1] = parts[1]
                      /\ \A k \in 1 .. m - 1 : f[k + 1] = f[k] \o parts[k + 1]
    <2> DEFINE seqs == [k \in 1 .. m |-> parts[k]]
    <2>1. Len(seqs) = m /\ 1 \in 1 .. m
      OBVIOUS
    <2>2. seqs[1] = parts[1] /\ \A k \in 1 .. m - 1 : seqs[k + 1] = parts[k + 1]
      BY <2>1
    <2>3. Glued(parts, m) = FlattenSeq(seqs)
      BY DEF Glued
    <2> HIDE DEF seqs
    <2>4. PICK f : /\ FlattenSeq(seqs) = f[Len(seqs)]
                   /\ f[1] = seqs[1]
                   /\ \A k \in 1 .. Len(seqs) - 1 : f[k + 1] = f[k] \o seqs[k + 1]
      BY <2>1, FlattenUnfolds
    <2> QED
      BY <2>1, <2>2, <2>3, <2>4
  <1>2. Glued(parts, 0) = <<>>
    <2> DEFINE seqs == [k \in 1 .. 0 |-> parts[k]]
    <2>1. seqs = <<>> /\ Len(seqs) = 0
      OBVIOUS
    <2> HIDE DEF seqs
    <2>2. FlattenSeq(seqs) = <<>>
      BY <2>1 DEF FlattenSeq
    <2> QED
      BY <2>2 DEF Glued, seqs
  <1>3. Glued(parts, 1) = parts[1]
    <2>1. 1 \in Nat \ {0}
      OBVIOUS
    <2> QED
      BY <1>1, <2>1
  <1>4. ASSUME n > 0 PROVE Glued(parts, n + 1) = Glued(parts, n) \o parts[n + 1]
    <2>1. n \in Nat \ {0} /\ n + 1 \in Nat \ {0} /\ (n + 1) - 1 = n /\ n \in 1 .. n
      BY <1>4
    <2>2. PICK f : /\ Glued(parts, n) = f[n]
                   /\ f[1] = parts[1]
                   /\ \A k \in 1 .. n - 1 : f[k + 1] = f[k] \o parts[k + 1]
      BY <1>1, <2>1
    <2>3. PICK g : /\ Glued(parts, n + 1) = g[n + 1]
                   /\ g[1] = parts[1]
                   /\ \A k \in 1 .. n : g[k + 1] = g[k] \o parts[k + 1]
      <3>1. PICK g : /\ Glued(parts, n + 1) = g[n + 1]
                     /\ g[1] = parts[1]
                     /\ \A k \in 1 .. (n + 1) - 1 : g[k + 1] = g[k] \o parts[k + 1]
        BY <1>1, <2>1
      <3> QED
        BY <2>1, <3>1
    <2> DEFINE K == {m \in 1 .. n : f[m] = g[m]}
    <2>4. 1 \in K
      BY <2>1, <2>2, <2>3
    <2>5. ASSUME NEW m \in 1 .. n - 1, m \in K PROVE m + 1 \in K
      <3>1. m \in 1 .. n /\ m + 1 \in 1 .. n
        OBVIOUS
      <3>2. f[m] = g[m]
        BY <2>5
      <3> QED
        BY <2>2, <2>3, <3>1, <3>2
    <2>6. n \in K
      <3> HIDE DEF K
      <3> QED
        BY <2>1, <2>4, <2>5, PositionInduction
    <2> QED
      BY <2>1, <2>2, <2>3, <2>6
  <1> QED
    BY <1>2, <1>3, <1>4

\* The same, without the special case.
LEMMA GluedNext ==
  ASSUME NEW T, NEW parts, NEW n \in Nat, \A k \in 1 .. n + 1 : parts[k] \in Seq(T)
  PROVE  Glued(parts, n + 1) = Glued(parts, n) \o parts[n + 1]
  <1>1. CASE n = 0
    <2>1. parts[1] \in Seq(T)
      BY <1>1
    <2>2. <<>> \o parts[1] = parts[1]
      BY <2>1
    <2> QED
      BY <1>1, <2>2, GluedUnfolds, SMTT(40)
  <1>2. CASE n > 0
    BY <1>2, GluedUnfolds
  <1> QED
    BY <1>1, <1>2

LEMMA GluedType ==
  ASSUME NEW T, NEW parts, NEW n \in Nat, \A k \in 1 .. n : parts[k] \in Seq(T)
  PROVE  \A m \in 0 .. n : Glued(parts, m) \in Seq(T)
  <1> DEFINE K == {m \in 0 .. n : Glued(parts, m) \in Seq(T)}
  <1>1. 0 \in K
    <2>1. <<>> \in Seq(T) /\ 0 \in 0 .. n
      OBVIOUS
    <2> QED
      BY <2>1, GluedUnfolds
  <1>2. ASSUME NEW m \in 0 .. n - 1, m \in K PROVE m + 1 \in K
    <2>1. m \in Nat /\ m + 1 \in 0 .. n /\ \A k \in 1 .. m + 1 : k \in 1 .. n
      OBVIOUS
    <2>2. Glued(parts, m + 1) = Glued(parts, m) \o parts[m + 1]
      BY <2>1, GluedNext
    <2>3. Glued(parts, m) \in Seq(T) /\ parts[m + 1] \in Seq(T)
      BY <1>2, <2>1
    <2>4. Glued(parts, m) \o parts[m + 1] \in Seq(T)
      BY <2>3
    <2> QED
      BY <2>1, <2>2, <2>4
  <1>3. \A m \in 0 .. n : m \in K
    <2> HIDE DEF K
    <2> QED
      BY <1>1, <1>2, CountInduction
  <1> QED
    BY <1>3

\* All of them glued together.
LEMMA FlattenIsGlued ==
  ASSUME NEW seqs, NEW n, seqs = [k \in 1 .. n |-> seqs[k]]
  PROVE  FlattenSeq(seqs) = Glued(seqs, n)
  BY DEF Glued

\* One more position, behind the others.
LEMMA PickedNext ==
  ASSUME NEW T, NEW s \in Seq(T), NEW m \in 0 .. Len(s) - 1, NEW P \in SUBSET (1 .. m)
  PROVE  Picked(s, P \cup {m + 1}) = Picked(s, P) \o << s[m + 1] >>
  <1> DEFINE R == P \cup {m + 1}
             N == Cardinality(P)
  <1>1. m \in Nat /\ m + 1 \in DOMAIN s /\ R \in SUBSET (DOMAIN s) /\ P \in SUBSET (DOMAIN s)
    OBVIOUS
  <1>2. IsFiniteSet(P) /\ N \in Nat
    BY <1>1, PositionsFinite
  <1>3. m + 1 \notin P
    BY <1>1
  <1>4. Cardinality(R) = N + 1
    BY <1>2, <1>3, FS_AddElement
  <1>5. Below(R, m + 1) = P /\ \A i \in P : Below(R, i) = Below(P, i)
    <2>1. \A i \in P : i \in Int /\ i < m + 1
      BY <1>1
    <2>2. ~(m + 1 < m + 1) /\ \A i \in P : ~(m + 1 < i)
      BY <1>1, <2>1
    <2> QED
      BY <2>1, <2>2 DEF Below
  <1> HIDE DEF R, N
  <1>6. /\ Picked(s, P) \in Seq(T) /\ Len(Picked(s, P)) = N
        /\ \A k \in 1 .. N : \E i \in P : Cardinality(Below(P, i)) = k - 1 /\ Picked(s, P)[k] = s[i]
    BY <1>1, PickedElements DEF N
  <1>7. /\ Picked(s, R) \in Seq(T) /\ Len(Picked(s, R)) = N + 1
        /\ \A i \in R : Picked(s, R)[Cardinality(Below(R, i)) + 1] = s[i]
    BY <1>1, <1>4, PickedElements
  <1>8. \A k \in 1 .. N : Picked(s, R)[k] = Picked(s, P)[k]
    <2> TAKE k \in 1 .. N
    <2>1. PICK i \in P : Cardinality(Below(P, i)) = k - 1 /\ Picked(s, P)[k] = s[i]
      BY <1>6
    <2>2. i \in R /\ Cardinality(Below(R, i)) + 1 = k
      <3>1. i \in R /\ Cardinality(Below(R, i)) = k - 1
        BY <1>5, <2>1 DEF R
      <3>2. (k - 1) + 1 = k
        BY <1>2
      <3> QED
        BY <3>1, <3>2
    <2> QED
      BY <1>7, <2>1, <2>2
  <1>9. Picked(s, R)[N + 1] = s[m + 1]
    <2>1. m + 1 \in R /\ Cardinality(Below(R, m + 1)) = N
      BY <1>5 DEF R, N
    <2> QED
      BY <1>7, <2>1
  <1> DEFINE a == Picked(s, R)
             b == Picked(s, P)
             x == s[m + 1]
  <1>10. x \in T
    BY <1>1
  <1> HIDE DEF a, b, x
  <1>11. a = b \o <<x>>
    <2>1. a \in Seq(T) /\ b \in Seq(T) /\ Len(a) = N + 1 /\ Len(b) = N
      BY <1>6, <1>7 DEF a, b
    <2>2. \A k \in 1 .. N : a[k] = b[k]
      BY <1>8 DEF a, b
    <2>3. a[N + 1] = x
      BY <1>9 DEF a, x
    <2> QED
      BY <1>2, <1>10, <2>1, <2>2, <2>3
  <1> QED
    BY <1>11 DEF a, b, x, R

\* A loop that appends one element or none is a picking loop.
LEMMA FlattenPicks ==
  ASSUME NEW T, NEW s \in Seq(T), NEW P \in SUBSET (DOMAIN s), NEW parts,
         parts = [k \in 1 .. Len(s) |-> IF k \in P THEN <<s[k]>> ELSE <<>>]
  PROVE  FlattenSeq(parts) = Picked(s, P)
  <1> DEFINE n == Len(s)
             Upto(m) == {i \in P : i <= m}
             K == {m \in 0 .. n : Glued(parts, m) = Picked(s, Upto(m))}
  <1>1. n \in Nat /\ DOMAIN s = 1 .. n
    OBVIOUS
  <1>2. \A k \in 1 .. n : parts[k] = (IF k \in P THEN <<s[k]>> ELSE <<>>) /\ parts[k] \in Seq(T)
    OBVIOUS
  <1>3. parts = [k \in 1 .. n |-> parts[k]]
    OBVIOUS
  <1> HIDE DEF n
  <1>4. 0 \in K
    <2>1. Upto(0) = {} /\ 0 \in 0 .. n
      BY <1>1
    <2>2. Picked(s, {}) = <<>>
      <3>1. Cardinality({}) = 0
        BY FS_EmptySet
      <3> QED
        BY <3>1 DEF Picked
    <2> QED
      BY <2>1, <2>2, GluedUnfolds
  <1>5. ASSUME NEW m \in 0 .. n - 1, m \in K PROVE m + 1 \in K
    <2>1. /\ m \in Nat /\ m + 1 \in 0 .. n /\ m + 1 \in 1 .. n
          /\ \A k \in 1 .. m + 1 : k \in 1 .. n
      BY <1>1
    <2>2. Glued(parts, m + 1) = Glued(parts, m) \o parts[m + 1]
      BY <1>2, <2>1, GluedNext
    <2>3. Glued(parts, m) = Picked(s, Upto(m))
      BY <1>5
    <2>4. Upto(m) \in SUBSET (1 .. m) /\ Upto(m) \in SUBSET (DOMAIN s)
      BY <1>1
    <2>5. CASE m + 1 \in P
      <3>1. Upto(m + 1) = Upto(m) \cup {m + 1}
        BY <1>1, <2>5
      <3>2. parts[m + 1] = <<s[m + 1]>>
        BY <1>2, <2>1, <2>5
      <3> HIDE DEF Upto
      <3>3. Picked(s, Upto(m) \cup {m + 1}) = Picked(s, Upto(m)) \o <<s[m + 1]>>
        BY <2>4, PickedNext DEF n
      <3> QED
        BY <2>1, <2>2, <2>3, <3>1, <3>2, <3>3
    <2>6. CASE m + 1 \notin P
      <3>1. Upto(m + 1) = Upto(m)
        BY <1>1, <2>6
      <3>2. parts[m + 1] = <<>>
        BY <1>2, <2>1, <2>6
      <3> HIDE DEF Upto
      <3>3. Picked(s, Upto(m)) \in Seq(T)
        BY <2>4, PickedElements
      <3>4. Picked(s, Upto(m)) \o <<>> = Picked(s, Upto(m))
        BY <3>3
      <3> QED
        BY <2>1, <2>2, <2>3, <3>1, <3>2, <3>4
    <2> QED
      BY <2>5, <2>6
  <1>6. n \in K
    <2>1. n \in 0 .. n
      BY <1>1
    <2> HIDE DEF K
    <2> QED
      BY <1>1, <1>4, <1>5, <2>1, CountInduction
  <1>7. Upto(n) = P
    BY <1>1
  <1> QED
    BY <1>3, <1>6, <1>7, FlattenIsGlued

\* The positions that hold an element of G.
Where(s, G) == {k \in DOMAIN s : s[k] \in G}

LEMMA WhereNext ==
  ASSUME NEW T, NEW u \in Seq(T), NEW x \in T, NEW G
  PROVE  Picked(u \o <<x>>, Where(u \o <<x>>, G)) =
            IF x \in G THEN Picked(u, Where(u, G)) \o <<x>> ELSE Picked(u, Where(u, G))
  <1> DEFINE w == u \o <<x>>
             n == Len(u)
             R == Where(u, G)
  <1>1. /\ w \in Seq(T) /\ n \in Nat /\ Len(w) = n + 1 /\ DOMAIN u = 1 .. n /\ DOMAIN w = 1 .. n + 1
        /\ w[n + 1] = x /\ \A k \in 1 .. n : w[k] = u[k]
    OBVIOUS
  <1> HIDE DEF w, n
  <1>2. R \in SUBSET (1 .. n)
    BY <1>1 DEF Where
  <1>3. Where(w, G) = IF x \in G THEN R \cup {n + 1} ELSE R
    <2>1. \A k \in 1 .. n + 1 : k \in 1 .. n \/ k = n + 1
      BY <1>1
    <2>2. \A k \in 1 .. n : k \in 1 .. n + 1 /\ k # n + 1
      BY <1>1
    <2>3. n + 1 \in 1 .. n + 1
      BY <1>1
    <2> QED
      BY <1>1, <2>1, <2>2, <2>3 DEF Where
  <1> HIDE DEF R
  <1>4. Picked(w, R) = Picked(u, R)
    <2>1. \A k \in 1 .. Cardinality(R) :
             (CHOOSE i \in R : Cardinality(Below(R, i)) = k - 1) \in 1 .. n
      <3> TAKE k \in 1 .. Cardinality(R)
      <3>1. \E i \in R : Cardinality(Below(R, i)) = k - 1
        BY <1>1, <1>2, RanksAreABijection
      <3> QED
        BY <1>2, <3>1
    <2> QED
      BY <1>1, <2>1 DEF Picked
  <1>5. Picked(w, R \cup {n + 1}) = Picked(w, R) \o <<x>>
    <2>1. n \in 0 .. Len(w) - 1
      BY <1>1
    <2> QED
      BY <1>1, <1>2, <2>1, PickedNext
  <1>6. Picked(w, Where(w, G)) = IF x \in G THEN Picked(u, R) \o <<x>> ELSE Picked(u, R)
    BY <1>3, <1>4, <1>5
  <1> QED
    BY <1>6 DEF w, R

\* The positions of P that hold one.
Among(s, P, G) == {i \in P : s[i] \in G}

\* Picking the good ones from what was picked is picking the good ones.
LEMMA PickedTwice ==
  ASSUME NEW T, NEW s \in Seq(T), NEW P \in SUBSET (DOMAIN s), NEW G
  PROVE  Picked(Picked(s, P), Where(Picked(s, P), G)) = Picked(s, Among(s, P, G))
  <1> DEFINE n == Len(s)
             Upto(A, m) == {i \in A : i <= m}
             Q == Among(s, P, G)
             Left(m) == Picked(Picked(s, Upto(P, m)), Where(Picked(s, Upto(P, m)), G))
             K == {m \in 0 .. n : Left(m) = Picked(s, Upto(Q, m))}
  <1>1. n \in Nat /\ DOMAIN s = 1 .. n /\ Q \in SUBSET (1 .. n) /\ P \in SUBSET (1 .. n)
    BY DEF Among
  <1>2. Picked(s, {}) = <<>> /\ Where(<<>>, G) = {} /\ Picked(<<>>, {}) = <<>>
    <2>1. Cardinality({}) = 0
      BY FS_EmptySet
    <2>2. Where(<<>>, G) = {}
      BY DEF Where
    <2> QED
      BY <2>1, <2>2 DEF Picked
  <1>3. \A i \in P : i \in Q <=> s[i] \in G
    BY DEF Among
  <1>4. Q \in SUBSET P
    BY DEF Among
  <1> HIDE DEF n, Q
  <1>5. ASSUME NEW A \in SUBSET (1 .. n), NEW m \in 0 .. n
        PROVE  /\ Upto(A, m) \in SUBSET (1 .. m) /\ Upto(A, m) \in SUBSET (1 .. n)
               /\ m + 1 \in A => Upto(A, m + 1) = Upto(A, m) \cup {m + 1}
               /\ m + 1 \notin A => Upto(A, m + 1) = Upto(A, m)
               /\ m = 0 => Upto(A, m) = {}
               /\ m = n => Upto(A, m) = A
    <2>1. \A i \in A : i \in 1 .. n
      OBVIOUS
    <2>2. m \in Int /\ n \in Nat
      BY <1>1
    <2>3. \A i \in A : i <= m => i \in 1 .. m
      BY <2>1, <2>2
    <2>4. \A i \in A : i <= m + 1 <=> (i <= m \/ i = m + 1)
      BY <2>1, <2>2
    <2>5. m = 0 => \A i \in A : ~(i <= m)
      BY <2>1
    <2>6. m = n => \A i \in A : i <= m
      BY <2>1, <2>2
    <2> QED
      BY <2>1, <2>3, <2>4, <2>5, <2>6
  <1>6. 0 \in K
    <2>1. Upto(P, 0) = {} /\ Upto(Q, 0) = {} /\ 0 \in 0 .. n
      BY <1>1, <1>5
    <2> QED
      BY <1>2, <2>1
  <1>7. ASSUME NEW m \in 0 .. n - 1, m \in K PROVE m + 1 \in K
    <2>1. m \in Nat /\ m + 1 \in 0 .. n /\ m + 1 \in 1 .. n /\ m \in 0 .. Len(s) - 1
      BY <1>1 DEF n
    <2>2. \A A \in SUBSET (1 .. n) :
             /\ Upto(A, m) \in SUBSET (1 .. m) /\ Upto(A, m) \in SUBSET (DOMAIN s)
             /\ m + 1 \in A => Upto(A, m + 1) = Upto(A, m) \cup {m + 1}
             /\ m + 1 \notin A => Upto(A, m + 1) = Upto(A, m)
      BY <1>1, <1>5, <2>1
    <2> HIDE DEF Upto
    <2>3. Left(m) = Picked(s, Upto(Q, m))
      BY <1>7
    <2>4. CASE m + 1 \notin P
      <3>1. Upto(P, m + 1) = Upto(P, m) /\ Upto(Q, m + 1) = Upto(Q, m)
        BY <1>1, <1>4, <2>2, <2>4
      <3> QED
        BY <2>1, <2>3, <3>1
    <2>5. CASE m + 1 \in P
      <3> DEFINE u == Picked(s, Upto(P, m))
                 x == s[m + 1]
      <3>1. x \in T /\ u \in Seq(T)
        BY <1>1, <2>1, <2>2, PickedElements
      <3>2. Picked(s, Upto(P, m + 1)) = u \o <<x>>
        BY <1>1, <2>1, <2>2, <2>5, PickedNext
      <3>3. Picked(s, Upto(Q, m + 1)) =
               IF x \in G THEN Picked(s, Upto(Q, m)) \o <<x>> ELSE Picked(s, Upto(Q, m))
        <4>1. m + 1 \in Q <=> x \in G
          BY <1>3, <2>5
        <4>2. m + 1 \in Q => Picked(s, Upto(Q, m + 1)) = Picked(s, Upto(Q, m)) \o <<x>>
          BY <1>1, <2>1, <2>2, PickedNext
        <4>3. m + 1 \notin Q => Upto(Q, m + 1) = Upto(Q, m)
          BY <1>1, <2>2
        <4> QED
          BY <4>1, <4>2, <4>3
      <3>4. Left(m + 1) = Picked(u \o <<x>>, Where(u \o <<x>>, G))
        BY <3>2
      <3>5. Left(m) = Picked(u, Where(u, G))
        OBVIOUS
      <3> HIDE DEF u, x, Left
      <3>6. Left(m + 1) = IF x \in G THEN Left(m) \o <<x>> ELSE Left(m)
        BY <3>1, <3>4, <3>5, WhereNext
      <3> QED
        BY <2>1, <2>3, <3>3, <3>6
    <2> QED
      BY <2>4, <2>5
  <1>8. n \in K
    <2>1. n \in 0 .. n
      BY <1>1
    <2> HIDE DEF K
    <2> QED
      BY <1>1, <1>6, <1>7, <2>1, CountInduction
  <1>9. Upto(P, n) = P /\ Upto(Q, n) = Q
    <2>1. n \in 0 .. n
      BY <1>1
    <2> QED
      BY <1>1, <1>5, <2>1
  <1> QED
    BY <1>8, <1>9 DEF Q
-----------------------------------------------------------------------------
(* FoldLeft, which is defined by recursion on sets of positions.           *)

\* The recursion, for an operation F of one argument after the other.
FoldSolves(g, F, base, v, n) ==
    g = [S \in SUBSET (1 .. n) |->
            IF S = {} THEN base ELSE F[g[S \ {Max(S)}]][v[Max(S)]]]

\* The last of some positions.
LEMMA MaxIsLast ==
  ASSUME NEW n \in Nat, NEW S \in SUBSET (1 .. n), S # {}
  PROVE  /\ Max(S) \in S /\ Max(S) \in 1 .. n
         /\ n \in S => Max(S) = n
  <1>1. PICK x \in S : \A y \in S : x >= y
    BY GreatestPosition
  <1>2. Max(S) \in S /\ \A y \in S : Max(S) >= y
    BY <1>1 DEF Max
  <1>3. Max(S) \in 1 .. n
    BY <1>2
  <1>4. ASSUME n \in S PROVE Max(S) = n
    <2>1. Max(S) >= n
      BY <1>2, <1>4
    <2> QED
      BY <1>3, <2>1
  <1> QED
    BY <1>2, <1>3, <1>4

\* It is well founded.
Operation(F, St, C) == F \in [St -> [C -> St]]
HasFold(F, St, base, v, n) ==
    \E g \in [SUBSET (1 .. n) -> St] : FoldSolves(g, F, base, v, n)

LEMMA FoldSolvable ==
  ASSUME NEW St, NEW C, NEW F, Operation(F, St, C), NEW base \in St,
         NEW v, NEW n \in Nat, \A k \in 1 .. n : v[k] \in C
  PROVE  HasFold(F, St, base, v, n)
  <1> DEFINE K == {m \in 0 .. n : \E g \in [SUBSET (1 .. m) -> St] : FoldSolves(g, F, base, v, m)}
  <1>1. 0 \in K
    <2> DEFINE g == [S \in SUBSET (1 .. 0) |-> base]
    <2>1. \A S \in SUBSET (1 .. 0) : S = {}
      OBVIOUS
    <2>2. FoldSolves(g, F, base, v, 0)
      BY <2>1 DEF FoldSolves
    <2>3. g \in [SUBSET (1 .. 0) -> St] /\ 0 \in 0 .. n
      OBVIOUS
    <2> HIDE DEF g
    <2> QED
      BY <2>2, <2>3
  <1>2. ASSUME NEW e \in 0 .. n - 1, e \in K PROVE e + 1 \in K
    <2>1. e \in Nat /\ e + 1 \in 0 .. n /\ e + 1 \in 1 .. n /\ e + 1 \in Nat
      OBVIOUS
    <2>2. PICK g \in [SUBSET (1 .. e) -> St] : FoldSolves(g, F, base, v, e)
      BY <1>2
    <2> DEFINE h == [S \in SUBSET (1 .. e + 1) |->
                        IF e + 1 \in S THEN F[g[S \ {e + 1}]][v[e + 1]] ELSE g[S]]
    <2>3. ASSUME NEW S \in SUBSET (1 .. e + 1)
          PROVE  /\ h[S] = IF S = {} THEN base ELSE F[h[S \ {Max(S)}]][v[Max(S)]]
                 /\ h[S] \in St
      <3>1. CASE e + 1 \in S
        <4>1. Max(S) = e + 1 /\ S # {}
          BY <2>1, <3>1, MaxIsLast
        <4>2. h[S] = F[g[S \ {e + 1}]][v[e + 1]]
          BY <3>1
        <4>3. S \ {e + 1} \in SUBSET (1 .. e + 1) /\ e + 1 \notin S \ {e + 1}
          OBVIOUS
        <4>4. h[S \ {e + 1}] = g[S \ {e + 1}]
          BY <4>3
        <4>5. S \ {e + 1} \in SUBSET (1 .. e)
          <5>1. \A i \in 1 .. e + 1 : i # e + 1 => i \in 1 .. e
            BY <2>1
          <5> QED
            BY <5>1
        <4>6. g[S \ {e + 1}] \in St /\ v[e + 1] \in C
          BY <2>1, <4>5
        <4>7. F[g[S \ {e + 1}]][v[e + 1]] \in St
          BY <4>6 DEF Operation
        <4> HIDE DEF h
        <4> QED
          BY <4>1, <4>2, <4>4, <4>7
      <3>2. CASE e + 1 \notin S
        <4>1. S \in SUBSET (1 .. e)
          <5>1. \A i \in 1 .. e + 1 : i # e + 1 => i \in 1 .. e
            BY <2>1
          <5> QED
            BY <3>2, <5>1
        <4>2. h[S] = g[S]
          BY <3>2
        <4>3. g[S] = IF S = {} THEN base ELSE F[g[S \ {Max(S)}]][v[Max(S)]]
          BY <2>2, <4>1 DEF FoldSolves
        <4>4. h[S \ {Max(S)}] = g[S \ {Max(S)}]
          <5>1. S \ {Max(S)} \in SUBSET (1 .. e + 1) /\ e + 1 \notin S \ {Max(S)}
            BY <3>2
          <5> QED
            BY <5>1
        <4>5. g[S] \in St
          BY <2>2, <4>1
        <4> HIDE DEF h
        <4> QED
          BY <4>2, <4>3, <4>4, <4>5
      <3> QED
        BY <3>1, <3>2
    <2>4. h = [S \in SUBSET (1 .. e + 1) |-> h[S]]
      OBVIOUS
    <2> HIDE DEF h
    <2>5. FoldSolves(h, F, base, v, e + 1)
      BY <2>3, <2>4 DEF FoldSolves
    <2>6. h \in [SUBSET (1 .. e + 1) -> St]
      BY <2>3, <2>4
    <2> QED
      BY <2>1, <2>5, <2>6
  <1>3. n \in K
    <2>1. n \in 0 .. n
      OBVIOUS
    <2> HIDE DEF K
    <2> QED
      BY <1>1, <1>2, <2>1, CountInduction
  <1> QED
    BY <1>3 DEF HasFold

\* The sets of the first positions are taken one after the other.
LEMMA Segments ==
  ASSUME NEW n \in Nat, NEW k \in 1 .. n
  PROVE  /\ 1 .. k \in SUBSET (1 .. n) /\ 1 .. k # {}
         /\ Max(1 .. k) = k /\ (1 .. k) \ {k} = 1 .. k - 1
  <1>1. k \in Nat /\ 1 .. k \in SUBSET (1 .. k) /\ k \in 1 .. k
    OBVIOUS
  <1>2. Max(1 .. k) = k
    BY <1>1, MaxIsLast
  <1>3. 1 .. k \in SUBSET (1 .. n) /\ 1 .. k # {} /\ (1 .. k) \ {k} = 1 .. k - 1
    BY <1>1
  <1> QED
    BY <1>2, <1>3
=============================================================================
