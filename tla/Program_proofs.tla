--------------------------- MODULE Program_proofs ---------------------------
(***************************************************************************)
(* Proofs about a whole call of mailsec-probe: what becomes of the domains *)
(* it is given, for every list of arguments and every input file, and what *)
(* its statistics say of the reports.                                      *)
(***************************************************************************)
EXTENDS Program, Scan_proofs

-----------------------------------------------------------------------------
(* Picking from what was picked.                                           *)

\* What is picked at fewer positions is found, in the same order, in what is
\* picked at more, and the rest of that is from the positions left out.
Embeds(g, m, n) ==
    /\ g \in [1 .. m -> 1 .. n]
    /\ \A k, l \in 1 .. m : k < l => g[k] < g[l]

Nested(s, P, Q) ==
    \E g :
        /\ Embeds(g, Cardinality(P), Cardinality(Q))
        /\ \A k \in 1 .. Cardinality(P) : Picked(s, Q)[g[k]] = Picked(s, P)[k]
        /\ \A j \in 1 .. Cardinality(Q) :
              \/ \E k \in 1 .. Cardinality(P) : g[k] = j
              \/ \E i \in Q \ P : Picked(s, Q)[j] = s[i]

LEMMA PickedNested ==
  ASSUME NEW T, NEW s \in Seq(T), NEW Q \in SUBSET (DOMAIN s), NEW P \in SUBSET Q
  PROVE  Nested(s, P, Q)
  <1> DEFINE M == Cardinality(P)
             N == Cardinality(Q)
             g == [k \in 1 .. M |-> CHOOSE j \in 1 .. N : From(Q, j) = From(P, k)]
  <1>1. /\ N \in Nat
        /\ \A j \in 1 .. N : From(Q, j) \in Q /\ Picked(s, Q)[j] = s[From(Q, j)]
        /\ \A j, l \in 1 .. N : j < l => From(Q, j) < From(Q, l)
        /\ \A i \in Q : \E j \in 1 .. N : From(Q, j) = i
    BY FromFacts
  <1>2. /\ M \in Nat
        /\ \A k \in 1 .. M : From(P, k) \in P /\ Picked(s, P)[k] = s[From(P, k)]
        /\ \A k, l \in 1 .. M : k < l => From(P, k) < From(P, l)
        /\ \A i \in P : \E k \in 1 .. M : From(P, k) = i
    <2>1. P \in SUBSET (DOMAIN s)
      OBVIOUS
    <2> QED
      BY <2>1, FromFacts
  <1>3. \A i \in Q : i \in Nat
    OBVIOUS
  <1> HIDE DEF M, N
  <1>4. \A k \in 1 .. M : g[k] \in 1 .. N /\ From(Q, g[k]) = From(P, k)
    <2> TAKE k \in 1 .. M
    <2>1. \E j \in 1 .. N : From(Q, j) = From(P, k)
      BY <1>1, <1>2
    <2> QED
      BY <2>1
  <1>5. g \in [1 .. M -> 1 .. N]
    BY <1>4
  <1> HIDE DEF g
  <1>6. ASSUME NEW k \in 1 .. M, NEW l \in 1 .. M, k < l PROVE g[k] < g[l]
    <2>1. From(Q, g[k]) < From(Q, g[l])
      BY <1>2, <1>4, <1>6
    <2>2. g[k] \in 1 .. N /\ g[l] \in 1 .. N
      BY <1>4
    <2>3. From(Q, g[k]) \in Nat /\ From(Q, g[l]) \in Nat
      BY <1>1, <1>3, <2>2
    <2>4. g[k] # g[l] /\ ~(g[l] < g[k])
      BY <1>1, <2>1, <2>2, <2>3, SMTT(40)
    <2>5. \A a, b \in 1 .. N : a # b /\ ~(b < a) => a < b
      BY <1>1
    <2> QED
      BY <2>2, <2>4, <2>5
  <1>7. \A k \in 1 .. M : Picked(s, Q)[g[k]] = Picked(s, P)[k]
    BY <1>1, <1>2, <1>4
  <1>8. ASSUME NEW j \in 1 .. N
        PROVE  \/ \E k \in 1 .. M : g[k] = j
               \/ \E i \in Q \ P : Picked(s, Q)[j] = s[i]
    <2>1. CASE From(Q, j) \in P
      <3>1. PICK k \in 1 .. M : From(P, k) = From(Q, j)
        BY <1>2, <2>1
      <3>2. From(Q, g[k]) = From(Q, j) /\ g[k] \in 1 .. N
        BY <1>4, <3>1
      <3>3. From(Q, j) \in Nat
        BY <1>1, <1>3
      <3>4. ~(g[k] < j) /\ ~(j < g[k])
        BY <1>1, <3>2, <3>3
      <3>5. \A a, b \in 1 .. N : ~(a < b) /\ ~(b < a) => a = b
        BY <1>1
      <3>6. g[k] = j
        BY <3>2, <3>4, <3>5
      <3> QED
        BY <3>6
    <2>2. CASE From(Q, j) \notin P
      BY <1>1, <2>2
    <2> QED
      BY <2>1, <2>2
  <1> QED
    BY <1>5, <1>6, <1>7, <1>8 DEF Nested, Embeds, M, N

-----------------------------------------------------------------------------
(* Reading and merging.  D stands for the spellings, `all' for what is     *)
(* merged and `said' for what was typed, blanks included.                  *)

All(a, f) == a \o readDomainsFile(f)
Said(a, f) == a \o Picked(f, {k \in DOMAIN f : f[k] \notin Comment})

\* One list after the other.
LEMMA Joined ==
  ASSUME NEW D, NEW a \in Seq(D), NEW b \in Seq(D)
  PROVE  /\ a \o b \in Seq(D) /\ Len(a \o b) = Len(a) + Len(b)
         /\ \A k \in 1 .. Len(a) + Len(b) :
               (a \o b)[k] = IF k <= Len(a) THEN a[k] ELSE b[k - Len(a)]
  OBVIOUS

\* That one list stands in another, in the same order, and nothing is left out
\* but blanks.
StandsIn(all, said) ==
    \E h :
        /\ Embeds(h, Len(all), Len(said))
        /\ \A k \in 1 .. Len(all) : said[h[k]] = all[k]
        /\ \A j \in 1 .. Len(said) :
              \/ \E k \in 1 .. Len(all) : h[k] = j
              \/ normal[said[j]] = NoName

\* What is merged stands in what was typed.
LEMMA AllIsSaid ==
  ASSUME NEW D, NEW a \in Seq(D), NEW f \in Seq(D)
  PROVE  /\ All(a, f) \in Seq(D) /\ Said(a, f) \in Seq(D)
         /\ StandsIn(All(a, f), Said(a, f))
  <1> DEFINE P == {k \in DOMAIN f : normal[f[k]] # NoName /\ f[k] \notin Comment}
             Q == {k \in DOMAIN f : f[k] \notin Comment}
             p == Picked(f, P)
             q == Picked(f, Q)
             A == Len(a)
             M == Cardinality(P)
             N == Cardinality(Q)
  <1>1. Q \in SUBSET (DOMAIN f) /\ P \in SUBSET Q /\ P \in SUBSET (DOMAIN f)
    OBVIOUS
  <1>2. \A i \in Q \ P : normal[f[i]] = NoName
    OBVIOUS
  <1>3. All(a, f) = a \o p /\ Said(a, f) = a \o q
    BY DEF All, Said, readDomainsFile
  <1> HIDE DEF P, Q
  <1>4. p \in Seq(D) /\ Len(p) = M /\ q \in Seq(D) /\ Len(q) = N
    BY <1>1, PickedElements
  <1>5. PICK g : /\ Embeds(g, M, N)
                 /\ \A k \in 1 .. M : q[g[k]] = p[k]
                 /\ \A j \in 1 .. N : \/ \E k \in 1 .. M : g[k] = j
                                      \/ \E i \in Q \ P : q[j] = f[i]
    <2>1. Nested(f, P, Q)
      BY <1>1, PickedNested
    <2> QED
      BY <2>1 DEF Nested
  <1> HIDE DEF p, q, M, N
  <1> DEFINE all == a \o p
             said == a \o q
             h == [k \in 1 .. A + M |-> IF k <= A THEN k ELSE A + g[k - A]]
  <1>6. A \in Nat /\ M \in Nat /\ N \in Nat
    BY <1>4
  <1>7. /\ all \in Seq(D) /\ Len(all) = A + M
        /\ said \in Seq(D) /\ Len(said) = A + N
    BY <1>4, Joined
  <1>8. \A k \in 1 .. A + M : all[k] = IF k <= A THEN a[k] ELSE p[k - A]
    BY <1>4, Joined
  <1>9. \A k \in 1 .. A + N : said[k] = IF k <= A THEN a[k] ELSE q[k - A]
    BY <1>4, Joined
  <1> HIDE DEF all, said, A
  <1>10. \A k \in 1 .. M : g[k] \in 1 .. N
    BY <1>5 DEF Embeds
  <1>11. \A k, l \in 1 .. M : k < l => g[k] < g[l]
    BY <1>5 DEF Embeds
  <1>12. ASSUME NEW k \in 1 .. A + M
         PROVE  /\ h[k] \in 1 .. A + N /\ said[h[k]] = all[k]
                /\ k <= A => h[k] = k
                /\ k > A => k - A \in 1 .. M /\ h[k] = A + g[k - A]
    <2>1. CASE k <= A
      <3>1. h[k] = k /\ k \in 1 .. A + N
        BY <1>6, <2>1
      <3> QED
        BY <1>6, <1>8, <1>9, <2>1, <3>1
    <2>2. CASE k > A
      <3>1. k - A \in 1 .. M /\ h[k] = A + g[k - A]
        BY <1>6, <2>2
      <3>2. g[k - A] \in 1 .. N /\ q[g[k - A]] = p[k - A]
        BY <1>5, <1>10, <3>1
      <3>3. /\ A + g[k - A] \in 1 .. A + N
            /\ ~(A + g[k - A] <= A)
            /\ (A + g[k - A]) - A = g[k - A]
        BY <1>6, <3>2, SMTT(40)
      <3>4. said[h[k]] = q[g[k - A]]
        BY <1>9, <3>1, <3>3
      <3>5. all[k] = p[k - A]
        BY <1>6, <1>8, <2>2
      <3> QED
        BY <1>6, <2>2, <3>1, <3>2, <3>3, <3>4, <3>5
    <2> QED
      BY <1>6, <2>1, <2>2
  <1>13. h \in [1 .. A + M -> 1 .. A + N]
    BY <1>12
  <1> HIDE DEF h
  <1>14. ASSUME NEW k \in 1 .. A + M, NEW l \in 1 .. A + M, k < l PROVE h[k] < h[l]
    <2>1. CASE l <= A
      <3>1. k <= A
        BY <1>6, <1>14, <2>1
      <3> QED
        BY <1>12, <1>14, <2>1, <3>1
    <2>2. CASE l > A /\ k <= A
      <3>1. h[l] = A + g[l - A] /\ g[l - A] \in 1 .. N /\ h[k] = k
        BY <1>10, <1>12, <2>2
      <3> QED
        BY <1>6, <2>2, <3>1
    <2>3. CASE l > A /\ k > A
      <3>1. /\ h[l] = A + g[l - A] /\ l - A \in 1 .. M
            /\ h[k] = A + g[k - A] /\ k - A \in 1 .. M
        BY <1>12, <2>3
      <3>2. k - A < l - A
        BY <1>6, <1>14
      <3>3. g[k - A] < g[l - A] /\ g[k - A] \in Int /\ g[l - A] \in Int
        BY <1>10, <1>11, <3>1, <3>2
      <3> QED
        BY <1>6, <3>1, <3>3
    <2> QED
      BY <1>6, <2>1, <2>2, <2>3
  <1>15. ASSUME NEW j \in 1 .. A + N
         PROVE  (\E k \in 1 .. A + M : h[k] = j) \/ normal[said[j]] = NoName
    <2>1. CASE j <= A
      <3>1. j \in 1 .. A + M /\ h[j] = j
        BY <1>6, <1>12, <2>1
      <3> QED
        BY <3>1
    <2>2. CASE j > A
      <3>1. j - A \in 1 .. N /\ said[j] = q[j - A]
        BY <1>6, <1>9, <2>2
      <3>2. CASE \E m \in 1 .. M : g[m] = j - A
        <4>1. PICK m \in 1 .. M : g[m] = j - A
          BY <3>2
        <4>2. A + m \in 1 .. A + M /\ A + m > A /\ (A + m) - A = m
          BY <1>6
        <4>3. h[A + m] = A + g[m]
          BY <1>12, <4>2
        <4>4. A + g[m] = j
          BY <1>6, <4>1
        <4> QED
          BY <4>2, <4>3, <4>4
      <3>3. CASE \E i \in Q \ P : q[j - A] = f[i]
        BY <1>2, <3>1, <3>3
      <3> QED
        BY <1>5, <3>1, <3>2, <3>3
    <2> QED
      BY <1>6, <2>1, <2>2
  <1>16. Embeds(h, A + M, A + N)
    BY <1>13, <1>14 DEF Embeds
  <1>17. All(a, f) = all /\ Said(a, f) = said
    BY <1>3 DEF all, said
  <1> QED
    <2>1. \A k \in 1 .. A + M : said[h[k]] = all[k]
      BY <1>12
    <2> QED
      BY <1>7, <1>15, <1>16, <1>17, <2>1, SMTT(40) DEF StandsIn

\* Of the names of a list of spellings each is there once, at the place of its
\* first mention.
Merges(all, merged) ==
    /\ \E T : merged \in Seq(T)
    /\ \A k, l \in DOMAIN merged : merged[k] = merged[l] => k = l
    /\ \A i \in DOMAIN all :
          normal[all[i]] # NoName => \E k \in DOMAIN merged : merged[k] = normal[all[i]]
    /\ \E o :
          /\ \A k \in DOMAIN merged :
                /\ o[k] \in DOMAIN all
                /\ merged[k] = normal[all[o[k]]] /\ merged[k] # NoName
                /\ \A i \in DOMAIN all : normal[all[i]] = merged[k] => o[k] <= i
          /\ \A k, l \in DOMAIN merged : k < l => o[k] < o[l]

LEMMA MergeFacts ==
  ASSUME NEW D, NEW a \in Seq(D), NEW b \in Seq(D)
  PROVE  Merges(a \o b, mergeDomains(a, b))
  <1> DEFINE all == a \o b
             merged == mergeDomains(a, b)
             name == [k \in DOMAIN all |-> normal[all[k]]]
             solid == {k \in DOMAIN all : name[k] # NoName}
             F == Firsts(name, solid)
             T == {name[k] : k \in DOMAIN all}
             n == Len(all)
  <1>1. n \in Nat /\ DOMAIN all = 1 .. n
    BY Joined
  <1> HIDE DEF n
  <1>2. name \in Seq(T) /\ DOMAIN name = 1 .. n
    <2>1. name \in [1 .. n -> T]
      BY <1>1
    <2> HIDE DEF name, T
    <2> QED
      BY <1>1, <2>1
  <1>3. \A k \in 1 .. n : name[k] = normal[all[k]]
    BY <1>1
  <1>4. solid \in SUBSET (DOMAIN name) /\ \A k \in 1 .. n : k \in solid <=> name[k] # NoName
    BY <1>1
  <1>5. merged = Picked(name, F)
    BY DEF mergeDomains
  <1> HIDE DEF all, merged, name, solid, T
  <1>6. F \in SUBSET (DOMAIN name)
    BY <1>4 DEF Firsts
  <1>7. merged \in Seq(T) /\ Len(merged) = Cardinality(F)
    BY <1>2, <1>5, <1>6, PickedElements
  <1>8. Len(merged) \in Nat /\ DOMAIN merged = 1 .. Len(merged)
    BY <1>7
  <1>9. /\ \A k, l \in 1 .. Cardinality(F) : merged[k] = merged[l] => k = l
        /\ \A i \in solid : \E k \in 1 .. Cardinality(F) : merged[k] = name[i]
    <2>1. \A k, l \in 1 .. Cardinality(F) : Picked(name, F)[k] = Picked(name, F)[l] => k = l
      BY <1>2, <1>4, FirstsAreDistinct
    <2>2. \A i \in solid : \E k \in 1 .. Cardinality(F) : Picked(name, F)[k] = name[i]
      BY <1>2, <1>4, FirstsAreDistinct
    <2> HIDE DEF F
    <2> QED
      BY <1>5, <2>1, <2>2
  <1> DEFINE o == [k \in 1 .. Cardinality(F) |-> From(F, k)]
  <1>10. /\ \A k \in 1 .. Cardinality(F) : From(F, k) \in F /\ merged[k] = name[From(F, k)]
         /\ \A k, l \in 1 .. Cardinality(F) : k < l => From(F, k) < From(F, l)
    <2> HIDE DEF F
    <2>1. \A k \in 1 .. Cardinality(F) : From(F, k) \in F /\ Picked(name, F)[k] = name[From(F, k)]
      BY <1>2, <1>6, FromFacts
    <2>2. \A k, l \in 1 .. Cardinality(F) : k < l => From(F, k) < From(F, l)
      BY <1>2, <1>6, FromFacts
    <2> QED
      BY <1>5, <2>1, <2>2
  <1>11. ASSUME NEW k \in 1 .. Cardinality(F)
         PROVE  /\ o[k] \in 1 .. n
                /\ merged[k] = normal[all[o[k]]] /\ merged[k] # NoName
                /\ \A i \in 1 .. n : normal[all[i]] = merged[k] => o[k] <= i
    <2>1. o[k] = From(F, k)
      OBVIOUS
    <2>2. o[k] \in F /\ merged[k] = name[o[k]]
      BY <1>10, <2>1
    <2> HIDE DEF o
    <2>3. o[k] \in solid /\ \A j \in solid : name[j] = name[o[k]] => o[k] <= j
      BY <2>2 DEF Firsts
    <2>4. o[k] \in 1 .. n
      BY <1>2, <1>4, <2>3
    <2>5. merged[k] # NoName
      BY <1>4, <2>2, <2>3, <2>4
    <2>6. ASSUME NEW i \in 1 .. n, normal[all[i]] = merged[k] PROVE o[k] <= i
      <3>1. name[i] = merged[k]
        BY <1>3, <2>6
      <3>2. i \in solid
        BY <1>4, <2>5, <3>1
      <3> QED
        BY <2>2, <2>3, <3>1, <3>2
    <2> QED
      BY <1>3, <2>2, <2>4, <2>5, <2>6
  <1>12. \A k, l \in 1 .. Cardinality(F) : k < l => o[k] < o[l]
    BY <1>10
  <1> HIDE DEF o, F
  <1>13. \A i \in 1 .. n : normal[all[i]] # NoName =>
            \E k \in DOMAIN merged : merged[k] = normal[all[i]]
    <2> SUFFICES ASSUME NEW i \in 1 .. n, normal[all[i]] # NoName
                 PROVE  \E k \in DOMAIN merged : merged[k] = normal[all[i]]
      OBVIOUS
    <2>1. name[i] = normal[all[i]] /\ i \in solid
      BY <1>3, <1>4
    <2>2. PICK k \in 1 .. Cardinality(F) : merged[k] = name[i]
      BY <1>9, <2>1
    <2> QED
      BY <1>7, <1>8, <2>1, <2>2
  <1>14. \A k, l \in DOMAIN merged : merged[k] = merged[l] => k = l
    BY <1>7, <1>8, <1>9
  <1>15. /\ \A k \in DOMAIN merged :
               /\ o[k] \in 1 .. n
               /\ merged[k] = normal[all[o[k]]] /\ merged[k] # NoName
               /\ \A i \in 1 .. n : normal[all[i]] = merged[k] => o[k] <= i
         /\ \A k, l \in DOMAIN merged : k < l => o[k] < o[l]
    BY <1>7, <1>8, <1>11, <1>12
  <1> QED
    BY <1>1, <1>7, <1>13, <1>14, <1>15 DEF Merges, all, merged

\* Where a name is first mentioned in a list of spellings.
Mention(said, name) ==
    CHOOSE k \in DOMAIN said : /\ normal[said[k]] = name
                               /\ \A j \in 1 .. k - 1 : normal[said[j]] # name

\* The names scanned are those that were said, each once, in the order in which
\* they were first said.
LEMMA ScansWhatIsSaid ==
  ASSUME NEW D, NEW a \in Seq(D), NEW f \in Seq(D),
         NEW merged, merged = mergeDomains(a, readDomainsFile(f))
  PROVE  /\ ToSet(merged) = {normal[s] : s \in ToSet(Said(a, f))} \ {NoName}
         /\ Len(merged) = Cardinality(ToSet(merged))
         /\ Len(merged) = 0 => merged = <<>>
         /\ \A i, j \in DOMAIN merged :
               i < j => Mention(Said(a, f), merged[i]) < Mention(Said(a, f), merged[j])
  <1> DEFINE all == All(a, f)
             said == Said(a, f)
             b == readDomainsFile(f)
  <1>1. all = a \o b
    BY DEF All
  <1>2. b \in Seq(D)
    <2> DEFINE P == {k \in DOMAIN f : normal[f[k]] # NoName /\ f[k] \notin Comment}
    <2>1. P \in SUBSET (DOMAIN f) /\ b = Picked(f, P)
      BY DEF readDomainsFile
    <2> HIDE DEF P, b
    <2> QED
      BY <2>1, PickedElements
  <1> HIDE DEF b
  <1>3. all \in Seq(D) /\ said \in Seq(D) /\ StandsIn(all, said)
    BY AllIsSaid
  <1> HIDE DEF all, said
  <1> DEFINE m == Len(all)
             n == Len(said)
  <1>4. m \in Nat /\ DOMAIN all = 1 .. m /\ n \in Nat /\ DOMAIN said = 1 .. n
    BY <1>3
  <1>5. PICK h : /\ Embeds(h, m, n)
                 /\ \A k \in 1 .. m : said[h[k]] = all[k]
                 /\ \A j \in 1 .. n :
                       (\E k \in 1 .. m : h[k] = j) \/ normal[said[j]] = NoName
    BY <1>3 DEF StandsIn
  <1> HIDE DEF m, n
  <1>6. /\ \A k \in 1 .. m : h[k] \in 1 .. n
        /\ \A k, l \in 1 .. m : k < l => h[k] < h[l]
    BY <1>5 DEF Embeds
  <1> DEFINE K == Len(merged)
  <1>7. Merges(all, merged)
    BY <1>1, <1>2, MergeFacts DEF b
  <1>8. K \in Nat /\ DOMAIN merged = 1 .. K /\ (K = 0 => merged = <<>>)
    BY <1>7 DEF Merges
  <1>9. \A k, l \in 1 .. K : merged[k] = merged[l] => k = l
    BY <1>7, <1>8 DEF Merges
  <1>10. \A i \in 1 .. m : normal[all[i]] # NoName => \E k \in 1 .. K : merged[k] = normal[all[i]]
    BY <1>7, <1>4, <1>8 DEF Merges
  <1>11. PICK o :
           /\ \A k \in DOMAIN merged :
                 /\ o[k] \in DOMAIN all
                 /\ merged[k] = normal[all[o[k]]] /\ merged[k] # NoName
                 /\ \A i \in DOMAIN all : normal[all[i]] = merged[k] => o[k] <= i
           /\ \A k, l \in DOMAIN merged : k < l => o[k] < o[l]
    BY <1>7 DEF Merges
  <1>12. /\ \A k \in 1 .. K :
               /\ o[k] \in 1 .. m
               /\ merged[k] = normal[all[o[k]]] /\ merged[k] # NoName
               /\ \A i \in 1 .. m : normal[all[i]] = merged[k] => o[k] <= i
         /\ \A k, l \in 1 .. K : k < l => o[k] < o[l]
    <2> HIDE DEF K
    <2> QED
      BY <1>4, <1>8, <1>11
  <1> HIDE DEF K
  <1>13. ASSUME NEW k \in 1 .. K
         PROVE  /\ h[o[k]] \in 1 .. n /\ normal[said[h[o[k]]]] = merged[k]
                /\ \A j \in 1 .. n : normal[said[j]] = merged[k] => h[o[k]] <= j
    <2>1. /\ o[k] \in 1 .. m /\ merged[k] = normal[all[o[k]]] /\ merged[k] # NoName
          /\ \A i \in 1 .. m : normal[all[i]] = merged[k] => o[k] <= i
      BY <1>12
    <2>2. h[o[k]] \in 1 .. n /\ said[h[o[k]]] = all[o[k]]
      BY <1>5, <1>6, <2>1
    <2>3. ASSUME NEW j \in 1 .. n, normal[said[j]] = merged[k] PROVE h[o[k]] <= j
      <3>1. PICK i \in 1 .. m : h[i] = j
        BY <1>5, <2>1, <2>3
      <3>2. said[j] = all[i]
        BY <1>5, <3>1
      <3>3. o[k] <= i
        BY <2>1, <2>3, <3>2
      <3>4. o[k] = i \/ h[o[k]] < h[i]
        <4>1. o[k] = i \/ o[k] < i
          BY <1>4, <2>1, <3>3
        <4> QED
          BY <1>6, <2>1, <4>1
      <3>5. h[o[k]] \in Int /\ j \in Int
        BY <2>2
      <3> QED
        BY <3>1, <3>4, <3>5
    <2> QED
      BY <2>1, <2>2, <2>3
  <1>14. ASSUME NEW k \in 1 .. K PROVE Mention(said, merged[k]) = h[o[k]]
    <2>1. h[o[k]] \in DOMAIN said /\ normal[said[h[o[k]]]] = merged[k]
      BY <1>4, <1>13
    <2>2. \A j \in 1 .. h[o[k]] - 1 : normal[said[j]] # merged[k]
      <3> SUFFICES ASSUME NEW j \in 1 .. h[o[k]] - 1, normal[said[j]] = merged[k] PROVE FALSE
        OBVIOUS
      <3>1. h[o[k]] \in 1 .. n
        BY <1>13
      <3>2. j \in 1 .. n /\ ~(h[o[k]] <= j)
        BY <1>4, <3>1
      <3> QED
        BY <1>13, <3>2
    <2>3. ASSUME NEW i \in DOMAIN said, normal[said[i]] = merged[k],
                 \A j \in 1 .. i - 1 : normal[said[j]] # merged[k]
          PROVE  i = h[o[k]]
      <3>1. i \in 1 .. n /\ h[o[k]] \in 1 .. n
        BY <1>4, <1>13
      <3>2. h[o[k]] <= i
        BY <1>13, <2>3, <3>1
      <3>3. ~(h[o[k]] < i)
        <4>1. h[o[k]] < i => h[o[k]] \in 1 .. i - 1
          BY <1>4, <3>1
        <4> QED
          BY <1>13, <2>3, <4>1
      <3> QED
        BY <1>4, <3>1, <3>2, <3>3
    <2> QED
      BY <2>1, <2>2, <2>3 DEF Mention
  <1>15. ASSUME NEW i \in 1 .. K, NEW j \in 1 .. K, i < j
         PROVE  Mention(said, merged[i]) < Mention(said, merged[j])
    <2>1. o[i] \in 1 .. m /\ o[j] \in 1 .. m /\ o[i] < o[j]
      BY <1>12, <1>15
    <2>2. h[o[i]] < h[o[j]]
      BY <1>6, <2>1
    <2> QED
      BY <1>14, <2>2
  <1>16. ToSet(merged) = {merged[k] : k \in 1 .. K}
    BY <1>8 DEF ToSet
  <1>17. ToSet(merged) = {normal[s] : s \in ToSet(said)} \ {NoName}
    <2>1. ToSet(said) = {said[j] : j \in 1 .. n}
      BY <1>4 DEF ToSet
    <2>2. ASSUME NEW k \in 1 .. K
          PROVE  merged[k] \in {normal[s] : s \in ToSet(said)} \ {NoName}
      BY <1>12, <1>13, <2>1
    <2>3. ASSUME NEW j \in 1 .. n, normal[said[j]] # NoName
          PROVE  \E k \in 1 .. K : merged[k] = normal[said[j]]
      <3>1. PICK i \in 1 .. m : h[i] = j
        BY <1>5, <2>3
      <3>2. normal[all[i]] = normal[said[j]]
        BY <1>5, <3>1
      <3> QED
        BY <1>10, <2>3, <3>2
    <2> QED
      BY <1>16, <2>1, <2>2, <2>3
  <1>18. K = Cardinality(ToSet(merged))
    <2> DEFINE g == [k \in 1 .. K |-> merged[k]]
    <2>1. g \in Bijection(1 .. K, ToSet(merged))
      BY <1>9, <1>16 DEF Bijection, Injection, Surjection, IsInjective
    <2>2. IsFiniteSet(1 .. K) /\ Cardinality(1 .. K) = K
      <3>1. IsFiniteSet(1 .. K) /\ Cardinality(1 .. K) = IF 1 > K THEN 0 ELSE K - 1 + 1
        BY <1>8, FS_Interval
      <3> QED
        BY <1>8, <3>1
    <2>3. ExistsBijection(1 .. K, ToSet(merged))
      BY <2>1 DEF ExistsBijection
    <2> QED
      BY <2>2, <2>3, FS_Bijection
  <1> QED
    BY <1>8, <1>15, <1>17, <1>18 DEF said, K

\* What was typed: the arguments, and the file without its comments.
LEMMA SaidIsGiven ==
  ASSUME NEW D, NEW a \in Seq(D), NEW f \in Seq(D)
  PROVE  ToSet(Said(a, f)) = ToSet(a) \cup (ToSet(f) \ Comment)
  <1> DEFINE Q == {k \in DOMAIN f : f[k] \notin Comment}
             q == Picked(f, Q)
             n == Cardinality(Q)
  <1>1. Q \in SUBSET (DOMAIN f) /\ \A k \in DOMAIN f : k \in Q <=> f[k] \notin Comment
    OBVIOUS
  <1>2. Said(a, f) = a \o q
    BY DEF Said
  <1> HIDE DEF Q
  <1>3. /\ q \in Seq(D) /\ Len(q) = n
        /\ \A k \in 1 .. n : \E i \in Q : q[k] = f[i]
    BY <1>1, PickedElements
  <1>4. \A i \in Q : \E k \in 1 .. n : q[k] = f[i]
    BY <1>1, PickedElements
  <1> HIDE DEF q
  <1>5. Len(a) \in Nat /\ DOMAIN a = 1 .. Len(a) /\ n \in Nat /\ DOMAIN q = 1 .. n
    BY <1>3
  <1> HIDE DEF n
  <1>6. DOMAIN (a \o q) = 1 .. Len(a) + n
    <2>1. a \o q \in Seq(D) /\ Len(a \o q) = Len(a) + Len(q)
      BY <1>3, SMTT(40)
    <2>2. DOMAIN (a \o q) = 1 .. Len(a \o q)
      BY <2>1
    <2> QED
      BY <1>3, <2>1, <2>2
  <1>7. \A k \in 1 .. Len(a) + n : (a \o q)[k] = IF k <= Len(a) THEN a[k] ELSE q[k - Len(a)]
    BY <1>3, Joined
  <1>8. ToSet(q) = ToSet(f) \ Comment
    <2>1. ToSet(q) = {q[k] : k \in 1 .. n} /\ ToSet(f) = {f[i] : i \in DOMAIN f}
      BY <1>5 DEF ToSet
    <2>2. \A i \in Q : i \in DOMAIN f /\ f[i] \notin Comment
      BY <1>1
    <2>3. \A i \in DOMAIN f : f[i] \in Comment \/ i \in Q
      BY <1>1
    <2>4. ASSUME NEW k \in 1 .. n PROVE q[k] \in ToSet(f) \ Comment
      BY <1>3, <2>1, <2>2
    <2>5. ASSUME NEW i \in DOMAIN f, f[i] \notin Comment PROVE f[i] \in ToSet(q)
      BY <1>4, <2>1, <2>3, <2>5
    <2> QED
      BY <2>1, <2>4, <2>5
  <1>9. ToSet(a \o q) = ToSet(a) \cup ToSet(q)
    <2>1. ASSUME NEW k \in 1 .. Len(a) + n PROVE (a \o q)[k] \in ToSet(a) \cup ToSet(q)
      <3>1. CASE k <= Len(a)
        <4>1. k \in DOMAIN a
          BY <1>5, <3>1
        <4> QED
          BY <1>7, <3>1, <4>1 DEF ToSet
      <3>2. CASE ~(k <= Len(a))
        <4>1. k - Len(a) \in DOMAIN q
          BY <1>5, <3>2
        <4> QED
          BY <1>7, <3>2, <4>1 DEF ToSet
      <3> QED
        BY <3>1, <3>2
    <2>2. ASSUME NEW k \in DOMAIN a PROVE a[k] \in ToSet(a \o q)
      <3>1. k \in 1 .. Len(a) + n /\ k <= Len(a)
        BY <1>5
      <3>2. (a \o q)[k] = a[k]
        BY <1>7, <3>1
      <3> QED
        BY <1>6, <3>1, <3>2 DEF ToSet
    <2>3. ASSUME NEW k \in DOMAIN q PROVE q[k] \in ToSet(a \o q)
      <3>1. Len(a) + k \in 1 .. Len(a) + n /\ ~(Len(a) + k <= Len(a)) /\ (Len(a) + k) - Len(a) = k
        BY <1>5
      <3>2. (a \o q)[Len(a) + k] = q[k]
        BY <1>7, <3>1
      <3> QED
        BY <1>6, <3>1, <3>2 DEF ToSet
    <2>4. /\ ToSet(a \o q) = {(a \o q)[k] : k \in 1 .. Len(a) + n}
          /\ ToSet(a) = {a[k] : k \in DOMAIN a} /\ ToSet(q) = {q[k] : k \in DOMAIN q}
      BY <1>6 DEF ToSet
    <2> QED
      BY <2>1, <2>2, <2>3, <2>4
  <1> QED
    BY <1>2, <1>8, <1>9

-----------------------------------------------------------------------------
(* A call.                                                                 *)

\* What a call keeps: its input is one of the command lines, and once it is set
\* up its names are the merged ones.
MergeInv ==
    /\ \E c \in CommandLines : args = c.args /\ file = c.file
    /\ main \notin {"setup", "refused"} =>
          names = mergeDomains(args, readDomainsFile(file)) /\ names # <<>>

LEMMA MergeInvariant == ProgramSpec => []MergeInv
  <1>1. ProgramInit => MergeInv
    BY DEF ProgramInit, Init, MergeInv
  <1>2. MergeInv /\ [ProgramNext]_programVars => MergeInv'
    <2> SUFFICES ASSUME MergeInv, [ProgramNext]_programVars PROVE MergeInv'
      OBVIOUS
    <2>1. args' = args /\ file' = file
      BY DEF ProgramNext, programVars, input
    <2>2. CASE ProgramNext
      <3>1. main' \in {"setup", "refused"} \/ main \notin {"setup", "refused"}
               \/ (main = "setup" /\ main' = "spawn")
        <4>1. ASSUME NEW d \in Domain, DomainStep(d) \/ Expire(d) PROVE main' = main
          BY <4>1 DEF DomainStep, Begin, ProbeReturns, WriteReport, Release, Expire
        <4>2. CASE MainStep
          BY <4>2 DEF MainStep, SetupFails, SetupDone, Go, WaitReturns, WriteReports,
                      WriteStats, OutputFails, Decide
        <4>3. CASE Terminated
          BY <4>3 DEF Terminated, vars
        <4> QED
          BY <2>2, <4>1, <4>2, <4>3 DEF ProgramNext, Next
      <3>2. main \notin {"setup", "refused"} => names' = names
        BY <2>2 DEF ProgramNext, TakesNames
      <3>3. main = "setup" /\ main' = "spawn" =>
               names' = mergeDomains(args, readDomainsFile(file)) /\ names' # <<>>
        BY <2>2 DEF ProgramNext, TakesNames
      <3> QED
        BY <2>1, <3>1, <3>2, <3>3 DEF MergeInv
    <2>3. CASE UNCHANGED programVars
      BY <2>1, <2>3 DEF programVars, vars, MergeInv
    <2> QED
      BY <2>2, <2>3
  <1> QED
    BY <1>1, <1>2, PTL DEF ProgramSpec

\* input.go:54-74, cli.go:119-133: whatever is given on the command line and in
\* the file, however it is spelled and how often it is repeated, every domain is
\* scanned and once, in the order in which the domains were first given; the
\* slots of the scan are as many as the names.
THEOREM EveryDomainOnce == ProgramSpec => []InputIsMerged
  <1>1. MergeInv => InputIsMerged
    <2> SUFFICES ASSUME MergeInv, main \notin {"setup", "refused"}
                 PROVE  /\ ToSet(names) = {normal[s] : s \in ToSet(Typed)} \ {NoName}
                        /\ Len(names) = NumDomains
                        /\ \A i, j \in DOMAIN names :
                              i < j => FirstMention(names[i]) < FirstMention(names[j])
      BY DEF InputIsMerged
    <2>1. PICK c \in CommandLines : args = c.args /\ file = c.file
      BY DEF MergeInv
    <2>2. args \in Seq(DOMAIN normal) /\ file \in Seq(DOMAIN normal)
      BY <2>1, ProgramAssumption
    <2>3. names = mergeDomains(args, readDomainsFile(file)) /\ names # <<>>
      BY DEF MergeInv
    <2>4. Typed = Said(args, file)
      BY DEF Typed, Said
    <2>5. \A name : FirstMention(name) = Mention(Typed, name)
      BY DEF FirstMention, Mention
    <2>6. ToSet(names) = {normal[s] : s \in ToSet(Typed)} \ {NoName}
      BY <2>2, <2>3, <2>4, ScansWhatIsSaid
    <2>7. Len(names) = Cardinality(ToSet(names))
      BY <2>2, <2>3, ScansWhatIsSaid
    <2>8. \A i, j \in DOMAIN names :
             i < j => FirstMention(names[i]) < FirstMention(names[j])
      BY <2>2, <2>3, <2>4, <2>5, ScansWhatIsSaid
    <2>9. ToSet(names) = Given(c)
      BY <2>1, <2>2, <2>4, <2>6, SaidIsGiven DEF Given
    <2>10. Len(names) # 0
      BY <2>2, <2>3, ScansWhatIsSaid
    <2>11. Len(names) = NumDomains
      BY <2>7, <2>9, <2>10, ProgramAssumption
    <2> QED
      BY <2>6, <2>8, <2>11
  <1> QED
    BY <1>1, MergeInvariant, PTL

-----------------------------------------------------------------------------
(* What the statistics count.                                              *)

StatRow == [feature : FeatureName, total : Nat, of : [Measured -> Nat]]

\* The first m features of a list that have a name and a status of S.
Occurs(v, m, name, S) == {k \in 1 .. m : v[k].name = name /\ v[k].status \in S}

LEMMA OccursNext ==
  ASSUME NEW v, NEW m \in Nat, NEW name, NEW S
  PROVE  /\ Cardinality(Occurs(v, m, name, S)) \in Nat
         /\ v[m + 1].name = name /\ v[m + 1].status \in S =>
               /\ Occurs(v, m + 1, name, S) # {}
               /\ Cardinality(Occurs(v, m + 1, name, S)) = Cardinality(Occurs(v, m, name, S)) + 1
         /\ ~(v[m + 1].name = name /\ v[m + 1].status \in S) =>
               Occurs(v, m + 1, name, S) = Occurs(v, m, name, S)
  <1> DEFINE O == Occurs(v, m, name, S)
             N == Occurs(v, m + 1, name, S)
  <1>1. IsFiniteSet(O) /\ Cardinality(O) \in Nat
    <2>1. O \in SUBSET (1 .. m)
      BY DEF Occurs
    <2> QED
      BY <2>1, PositionsFinite
  <1>2. 1 .. m + 1 = (1 .. m) \cup {m + 1} /\ m + 1 \notin 1 .. m
    OBVIOUS
  <1>3. ASSUME v[m + 1].name = name, v[m + 1].status \in S
        PROVE  N # {} /\ Cardinality(N) = Cardinality(O) + 1
    <2>1. N = O \cup {m + 1} /\ m + 1 \notin O
      BY <1>2, <1>3 DEF Occurs
    <2> HIDE DEF O, N
    <2> QED
      BY <1>1, <2>1, FS_AddElement
  <1>4. ASSUME ~(v[m + 1].name = name /\ v[m + 1].status \in S) PROVE N = O
    BY <1>2, <1>4 DEF Occurs
  <1> QED
    BY <1>1, <1>3, <1>4

\* A table of statistics counts the first m features of a list.
RowCounts(row, v, m) ==
    /\ row.total \in Nat \ {0}
    /\ row.total = Cardinality(Occurs(v, m, row.feature, Measured))
    /\ \A s \in Measured : row.of[s] = Cardinality(Occurs(v, m, row.feature, {s}))
    /\ row.total = row.of["present"] + row.of["absent"] + row.of["misconfigured"]
                     + row.of["unknown"]

Tallies(rows, v, m) ==
    /\ rows \in Seq(StatRow)
    /\ \A j, k \in DOMAIN rows : rows[j].feature = rows[k].feature => j = k
    /\ \A name \in FeatureName :
          Occurs(v, m, name, Measured) # {} <=> \E k \in DOMAIN rows : rows[k].feature = name
    /\ \A k \in DOMAIN rows : RowCounts(rows[k], v, m)

\* One more for a status in a row.
LEMMA BumpedCounts ==
  ASSUME NEW row \in StatRow, NEW status \in Measured
  PROVE  /\ Bumped(row, status) \in StatRow
         /\ Bumped(row, status).feature = row.feature
         /\ Bumped(row, status).total = row.total + 1
         /\ \A s \in Measured :
               Bumped(row, status).of[s] = IF s = status THEN row.of[s] + 1 ELSE row.of[s]
  <1> DEFINE of == [row.of EXCEPT ![status] = @ + 1]
  <1>1. /\ row.feature \in FeatureName /\ row.total \in Nat /\ row.of \in [Measured -> Nat]
        /\ row = [feature |-> row.feature, total |-> row.total, of |-> row.of]
    BY DEF StatRow
  <1>2. \A s \in Measured : of[s] = IF s = status THEN row.of[s] + 1 ELSE row.of[s]
    BY <1>1
  <1>3. of \in [Measured -> Nat]
    BY <1>1
  <1>4. Bumped(row, status) = [feature |-> row.feature, total |-> row.total + 1, of |-> of]
    <2>1. Bumped(row, status) = [row EXCEPT !.total = @ + 1, !.of = of]
      BY DEF Bumped
    <2> HIDE DEF of
    <2> QED
      BY <1>1, <2>1
  <1> HIDE DEF of
  <1>5. row.total + 1 \in Nat
    BY <1>1
  <1> QED
    BY <1>1, <1>2, <1>3, <1>4, <1>5 DEF StatRow

LEMMA SkippedCounts ==
  ASSUME NEW v, NEW m \in Nat, NEW rows, Tallies(rows, v, m), v[m + 1].status \notin Measured
  PROVE  Tallies(rows, v, m + 1)
  <1>1. \A name : Occurs(v, m + 1, name, Measured) = Occurs(v, m, name, Measured)
    BY OccursNext
  <1>2. \A name : \A s \in Measured : Occurs(v, m + 1, name, {s}) = Occurs(v, m, name, {s})
    BY OccursNext
  <1>3. \A row : RowCounts(row, v, m) => RowCounts(row, v, m + 1)
    BY <1>1, <1>2 DEF RowCounts
  <1> QED
    BY <1>1, <1>3 DEF Tallies

\* A row that is bumped counts one more, if it counted all up to now or is new.
LEMMA BumpedRowCounts ==
  ASSUME NEW v, NEW m \in Nat, NEW row \in StatRow, v[m + 1].name = row.feature,
         v[m + 1].status \in Measured,
         row.total = Cardinality(Occurs(v, m, row.feature, Measured)),
         \A s \in Measured : row.of[s] = Cardinality(Occurs(v, m, row.feature, {s})),
         row.total = row.of["present"] + row.of["absent"] + row.of["misconfigured"]
                       + row.of["unknown"]
  PROVE  RowCounts(Bumped(row, v[m + 1].status), v, m + 1)
  <1> DEFINE status == v[m + 1].status
             after == Bumped(row, status)
  <1>1. /\ after.feature = row.feature /\ after.total = row.total + 1
        /\ \A s \in Measured : after.of[s] = IF s = status THEN row.of[s] + 1 ELSE row.of[s]
    BY BumpedCounts
  <1>2. row.total \in Nat /\ \A s \in Measured : row.of[s] \in Nat
    BY DEF StatRow
  <1>3. after.total = Cardinality(Occurs(v, m + 1, row.feature, Measured))
    <2>1. \A S : v[m + 1].status \in S =>
                 Cardinality(Occurs(v, m + 1, row.feature, S))
                    = Cardinality(Occurs(v, m, row.feature, S)) + 1
      BY OccursNext
    <2> QED
      BY <1>1, <2>1
  <1>4. ASSUME NEW s \in Measured
        PROVE  after.of[s] = Cardinality(Occurs(v, m + 1, row.feature, {s}))
    <2>1. CASE s = status
      <3>1. Cardinality(Occurs(v, m + 1, row.feature, {s}))
               = Cardinality(Occurs(v, m, row.feature, {s})) + 1
        BY <2>1, OccursNext
      <3> QED
        BY <1>1, <2>1, <3>1
    <2>2. CASE s # status
      <3>1. Occurs(v, m + 1, row.feature, {s}) = Occurs(v, m, row.feature, {s})
        BY <2>2, OccursNext
      <3> QED
        BY <1>1, <2>2, <3>1
    <2> QED
      BY <2>1, <2>2
  <1>5. after.total = after.of["present"] + after.of["absent"] + after.of["misconfigured"]
                       + after.of["unknown"]
    <2>1. status \in {"present", "absent", "misconfigured", "unknown"}
      BY DEF Measured
    <2>2. /\ after.of["present"] = IF status = "present" THEN row.of["present"] + 1
                                  ELSE row.of["present"]
          /\ after.of["absent"] = IF status = "absent" THEN row.of["absent"] + 1
                                 ELSE row.of["absent"]
          /\ after.of["misconfigured"] = IF status = "misconfigured"
                                        THEN row.of["misconfigured"] + 1
                                        ELSE row.of["misconfigured"]
          /\ after.of["unknown"] = IF status = "unknown" THEN row.of["unknown"] + 1
                                  ELSE row.of["unknown"]
          /\ row.of["present"] \in Nat /\ row.of["absent"] \in Nat
          /\ row.of["misconfigured"] \in Nat /\ row.of["unknown"] \in Nat
      BY <1>1, <1>2 DEF Measured
    <2> HIDE DEF after, status
    <2> QED
      BY <1>1, <1>2, <2>1, <2>2
  <1>6. after.total \in Nat \ {0}
    BY <1>1, <1>2
  <1> QED
    BY <1>1, <1>3, <1>4, <1>5, <1>6 DEF RowCounts

\* A row of another feature counts what it counted.
LEMMA OtherRowCounts ==
  ASSUME NEW v, NEW m \in Nat, NEW row, v[m + 1].name # row.feature, RowCounts(row, v, m)
  PROVE  RowCounts(row, v, m + 1)
  <1>1. \A S : Occurs(v, m + 1, row.feature, S) = Occurs(v, m, row.feature, S)
    BY OccursNext
  <1> QED
    BY <1>1 DEF RowCounts

LEMMA TalliesNext ==
  ASSUME NEW v, NEW m \in Nat, NEW rows, Tallies(rows, v, m), v[m + 1] \in Row
  PROVE  Tallies(Counted(rows, v[m + 1]), v, m + 1)
  <1> DEFINE f == v[m + 1]
             at == {k \in DOMAIN rows : rows[k].feature = f.name}
  <1>1. /\ f.name \in FeatureName /\ f.status \in Status
        /\ f.status # "skipped" <=> f.status \in Measured
    BY DEF Row, Status, Measured
  <1>2. /\ rows \in Seq(StatRow) /\ Len(rows) \in Nat /\ DOMAIN rows = 1 .. Len(rows)
        /\ \A k \in DOMAIN rows : rows[k] \in StatRow
    BY DEF Tallies
  <1>3. /\ \A j, k \in DOMAIN rows : rows[j].feature = rows[k].feature => j = k
        /\ \A name \in FeatureName :
              Occurs(v, m, name, Measured) # {} <=> \E k \in DOMAIN rows : rows[k].feature = name
        /\ \A k \in DOMAIN rows : RowCounts(rows[k], v, m)
    BY DEF Tallies
  <1>4. CASE f.status = "skipped"
    <2>1. Counted(rows, f) = rows
      BY <1>4 DEF Counted
    <2> QED
      BY <1>1, <1>4, <2>1, SkippedCounts
  <1>5. ASSUME f.status \in Measured
        PROVE  \A name \in FeatureName :
                  Occurs(v, m + 1, name, Measured) # {} <=>
                     name = f.name \/ \E k \in DOMAIN rows : rows[k].feature = name
    <2> TAKE name \in FeatureName
    <2>1. CASE name = f.name
      BY <1>5, <2>1, OccursNext
    <2>2. CASE name # f.name
      <3>1. Occurs(v, m + 1, name, Measured) = Occurs(v, m, name, Measured)
        BY <2>2, OccursNext
      <3> QED
        BY <1>3, <2>2, <3>1
    <2> QED
      BY <2>1, <2>2
  <1>6. CASE f.status \in Measured /\ at = {}
    <2> DEFINE new == FeatureStat(f.name)
               n == Len(rows)
               after == Append(rows, Bumped(new, f.status))
    <2>1. Counted(rows, f) = after
      BY <1>1, <1>6 DEF Counted
    <2>2. /\ new \in StatRow /\ new.feature = f.name /\ new.total = 0
          /\ \A s \in Measured : new.of[s] = 0
      BY <1>1 DEF FeatureStat, StatRow
    <2>3. Occurs(v, m, f.name, Measured) = {}
      BY <1>1, <1>3, <1>6
    <2>4. \A s \in Measured : Occurs(v, m, f.name, {s}) = {}
      BY <2>3 DEF Occurs
    <2> HIDE DEF new
    <2>5. RowCounts(Bumped(new, f.status), v, m + 1)
      <3>1. Cardinality({}) = 0
        BY FS_EmptySet
      <3>2. 0 = 0 + 0 + 0 + 0
        OBVIOUS
      <3>3. new.total = new.of["present"] + new.of["absent"] + new.of["misconfigured"]
                          + new.of["unknown"]
        BY <2>2, <3>2 DEF Measured
      <3>4. /\ new.total = Cardinality(Occurs(v, m, new.feature, Measured))
            /\ \A s \in Measured : new.of[s] = Cardinality(Occurs(v, m, new.feature, {s}))
        BY <2>2, <2>3, <2>4, <3>1
      <3> QED
        BY <1>6, <2>2, <3>3, <3>4, BumpedRowCounts
    <2>6. Bumped(new, f.status) \in StatRow /\ Bumped(new, f.status).feature = f.name
      BY <1>6, <2>2, BumpedCounts
    <2>7. /\ after \in Seq(StatRow) /\ DOMAIN after = 1 .. n + 1 /\ n \in Nat
          /\ after[n + 1] = Bumped(new, f.status)
          /\ \A k \in 1 .. n : after[k] = rows[k]
      BY <1>2, <2>6
    <2> HIDE DEF after
    <2>8. \A k \in 1 .. n : rows[k].feature # f.name
      BY <1>2, <1>6
    <2>9. \A k \in 1 .. n + 1 : k \in 1 .. n \/ k = n + 1
      BY <2>7
    <2>10. ASSUME NEW k \in DOMAIN after PROVE RowCounts(after[k], v, m + 1)
      <3>1. CASE k \in 1 .. n
        BY <1>2, <1>3, <2>7, <2>8, <3>1, OtherRowCounts
      <3> QED
        BY <2>5, <2>7, <2>9, <3>1
    <2>11. \A j, k \in DOMAIN after : after[j].feature = after[k].feature => j = k
      BY <1>2, <1>3, <2>6, <2>7, <2>8, <2>9
    <2>12. ASSUME NEW name \in FeatureName
           PROVE  Occurs(v, m + 1, name, Measured) # {} <=>
                     \E k \in DOMAIN after : after[k].feature = name
      <3>1. (\E k \in DOMAIN after : after[k].feature = name) <=>
               name = f.name \/ \E k \in DOMAIN rows : rows[k].feature = name
        <4>1. n + 1 \in DOMAIN after /\ \A k \in 1 .. n : k \in DOMAIN after
          BY <2>7
        <4> QED
          BY <1>2, <2>6, <2>7, <2>9, <4>1
      <3> QED
        BY <1>5, <1>6, <3>1
    <2> QED
      BY <2>1, <2>7, <2>10, <2>11, <2>12 DEF Tallies
  <1>7. CASE f.status \in Measured /\ at # {}
    <2> DEFINE i == CHOOSE k \in at : TRUE
               after == [rows EXCEPT ![i] = Bumped(@, f.status)]
    <2>1. i \in at
      BY <1>7
    <2>2. Counted(rows, f) = after
      BY <1>1, <1>7 DEF Counted
    <2>3. i \in DOMAIN rows /\ rows[i].feature = f.name
      BY <2>1
    <2> HIDE DEF i
    <2>4. Bumped(rows[i], f.status) \in StatRow /\ Bumped(rows[i], f.status).feature = f.name
      BY <1>2, <1>7, <2>3, BumpedCounts
    <2>5. /\ DOMAIN after = DOMAIN rows
          /\ after[i] = Bumped(rows[i], f.status)
          /\ \A k \in DOMAIN rows : k # i => after[k] = rows[k]
      BY <1>2, <2>3
    <2>6. after \in Seq(StatRow)
      BY <1>2, <2>3, <2>4
    <2> HIDE DEF after
    <2>7. \A k \in DOMAIN rows : after[k].feature = rows[k].feature
      BY <2>3, <2>4, <2>5
    <2>8. RowCounts(after[i], v, m + 1)
      <3>1. RowCounts(rows[i], v, m)
        BY <1>3, <2>3
      <3>2. /\ rows[i] \in StatRow /\ f.name = rows[i].feature
            /\ rows[i].total = Cardinality(Occurs(v, m, rows[i].feature, Measured))
            /\ \A s \in Measured : rows[i].of[s] = Cardinality(Occurs(v, m, rows[i].feature, {s}))
            /\ rows[i].total = rows[i].of["present"] + rows[i].of["absent"]
                                + rows[i].of["misconfigured"] + rows[i].of["unknown"]
        BY <1>2, <2>3, <3>1 DEF RowCounts
      <3>3. RowCounts(Bumped(rows[i], f.status), v, m + 1)
        BY <1>7, <3>2, BumpedRowCounts
      <3> QED
        BY <2>5, <3>3
    <2>9. ASSUME NEW k \in DOMAIN after PROVE RowCounts(after[k], v, m + 1)
      <3>1. CASE k # i
        <4>1. rows[k].feature # f.name /\ RowCounts(rows[k], v, m)
          BY <1>3, <2>3, <2>5, <3>1
        <4> QED
          BY <2>5, <3>1, <4>1, OtherRowCounts
      <3> QED
        BY <2>8, <3>1
    <2>10. \A j, k \in DOMAIN after : after[j].feature = after[k].feature => j = k
      BY <1>3, <2>5, <2>7
    <2>11. \A name \in FeatureName :
              Occurs(v, m + 1, name, Measured) # {} <=>
                 \E k \in DOMAIN after : after[k].feature = name
      BY <1>5, <1>7, <2>3, <2>5, <2>7
    <2> QED
      BY <2>2, <2>6, <2>9, <2>10, <2>11 DEF Tallies
  <1> QED
    BY <1>1, <1>4, <1>6, <1>7


\* The table after a list of features.
CountedAll(v) == FoldLeft(Counted, <<>>, v)

LEMMA CountedType ==
  ASSUME NEW rows \in Seq(StatRow), NEW f \in Row
  PROVE  Counted(rows, f) \in Seq(StatRow)
  <1> DEFINE at == {k \in DOMAIN rows : rows[k].feature = f.name}
             i == CHOOSE k \in at : TRUE
             new == FeatureStat(f.name)
  <1>1. /\ f.name \in FeatureName
        /\ f.status # "skipped" => f.status \in Measured
    BY DEF Row, Status, Measured
  <1>2. CASE f.status = "skipped"
    BY <1>2 DEF Counted
  <1>3. CASE f.status # "skipped" /\ at = {}
    <2>1. new \in StatRow
      BY <1>1 DEF FeatureStat, StatRow
    <2>2. Counted(rows, f) = Append(rows, Bumped(new, f.status))
      BY <1>3 DEF Counted
    <2> HIDE DEF new
    <2>3. Bumped(new, f.status) \in StatRow
      BY <1>1, <1>3, <2>1, BumpedCounts
    <2> QED
      BY <2>2, <2>3
  <1>4. CASE f.status # "skipped" /\ at # {}
    <2>1. i \in at
      BY <1>4
    <2>2. i \in DOMAIN rows /\ rows[i] \in StatRow
      BY <2>1
    <2>3. Counted(rows, f) = [rows EXCEPT ![i] = Bumped(@, f.status)]
      BY <1>4 DEF Counted
    <2> HIDE DEF i, at
    <2>4. Bumped(rows[i], f.status) \in StatRow
      BY <1>1, <1>4, <2>2, BumpedCounts
    <2> QED
      BY <2>2, <2>3, <2>4
  <1> QED
    BY <1>2, <1>3, <1>4

\* The recursion of the count, on sets of positions of a list.
CountSolves(g, v) ==
    g = [S \in SUBSET (DOMAIN v) |->
            IF S = {} THEN <<>> ELSE Counted(g[S \ {Max(S)}], v[Max(S)])]

LEMMA CountSolvable ==
  ASSUME NEW v \in Seq(Row)
  PROVE  \E g : CountSolves(g, v)
  <1> DEFINE Rows == Seq(StatRow)
             F == [rows \in Rows |-> [f \in Row |-> Counted(rows, f)]]
             n == Len(v)
             base == <<>>
  <1>1. Operation(F, Rows, Row)
    BY CountedType DEF Operation
  <1>2. \A rows \in Rows, f \in Row : F[rows][f] = Counted(rows, f)
    OBVIOUS
  <1>3. n \in Nat /\ DOMAIN v = 1 .. n /\ \A k \in 1 .. n : v[k] \in Row
    OBVIOUS
  <1>4. base \in Rows
    OBVIOUS
  <1> HIDE DEF F, n, base, Rows
  <1>5. PICK g \in [SUBSET (1 .. n) -> Rows] : FoldSolves(g, F, base, v, n)
    <2>1. HasFold(F, Rows, base, v, n)
      BY <1>1, <1>3, <1>4, FoldSolvable
    <2> QED
      BY <2>1 DEF HasFold
  <1>6. ASSUME NEW S \in SUBSET (1 .. n)
        PROVE  g[S] = IF S = {} THEN base ELSE Counted(g[S \ {Max(S)}], v[Max(S)])
    <2>1. g[S] = IF S = {} THEN base ELSE F[g[S \ {Max(S)}]][v[Max(S)]]
      BY <1>5 DEF FoldSolves
    <2>2. ASSUME S # {}
          PROVE  F[g[S \ {Max(S)}]][v[Max(S)]] = Counted(g[S \ {Max(S)}], v[Max(S)])
      <3>1. Max(S) \in 1 .. n
        BY <1>3, <2>2, MaxIsLast
      <3>2. g[S \ {Max(S)}] \in Rows /\ v[Max(S)] \in Row
        BY <1>3, <1>5, <3>1
      <3> QED
        BY <1>2, <3>2
    <2> QED
      BY <2>1, <2>2
  <1>7. g = [S \in SUBSET (1 .. n) |-> g[S]]
    BY <1>5
  <1>8. g = [S \in SUBSET (1 .. n) |->
                IF S = {} THEN base ELSE Counted(g[S \ {Max(S)}], v[Max(S)])]
    BY <1>6, <1>7
  <1>9. CountSolves(g, v)
    BY <1>3, <1>8 DEF CountSolves, base
  <1> QED
    BY <1>9

\* Whatever the order of the reports: every table is a tally.
LEMMA CountedTallies ==
  ASSUME NEW v \in Seq(Row)
  PROVE  Tallies(CountedAll(v), v, Len(v))
  <1> DEFINE n == Len(v)
  <1>0. n \in Nat /\ DOMAIN v = 1 .. n /\ \A k \in 1 .. n : v[k] \in Row
    OBVIOUS
  <1>1. PICK g : CountSolves(g, v) /\ CountedAll(v) = g[1 .. n]
    <2> DEFINE iter[S \in SUBSET (DOMAIN v)] ==
                 IF S = {} THEN <<>> ELSE Counted(iter[S \ {Max(S)}], v[Max(S)])
    <2>1. \E g : g = [S \in SUBSET (DOMAIN v) |->
                         IF S = {} THEN <<>> ELSE Counted(g[S \ {Max(S)}], v[Max(S)])]
      BY CountSolvable DEF CountSolves
    <2>2. iter = [S \in SUBSET (DOMAIN v) |->
                     IF S = {} THEN <<>> ELSE Counted(iter[S \ {Max(S)}], v[Max(S)])]
      BY <2>1
    <2>3. CountedAll(v) = iter[DOMAIN v]
      BY DEF CountedAll, FoldLeft, MapThenFoldSet
    <2> HIDE DEF iter
    <2>4. CountSolves(iter, v)
      BY <2>2 DEF CountSolves
    <2> QED
      BY <1>0, <2>3, <2>4
  <1>2. ASSUME NEW S \in SUBSET (1 .. n)
        PROVE  g[S] = IF S = {} THEN <<>> ELSE Counted(g[S \ {Max(S)}], v[Max(S)])
    BY <1>0, <1>1 DEF CountSolves
  <1>3. g[1 .. 0] = <<>>
    <2>1. 1 .. 0 = {} /\ 1 .. 0 \in SUBSET (1 .. n)
      OBVIOUS
    <2> QED
      BY <1>2, <2>1
  <1>4. ASSUME NEW k \in 1 .. n PROVE g[1 .. k] = Counted(g[1 .. k - 1], v[k])
    <2>1. /\ 1 .. k \in SUBSET (1 .. n) /\ 1 .. k # {} /\ Max(1 .. k) = k
          /\ (1 .. k) \ {k} = 1 .. k - 1
      BY <1>0, Segments
    <2> QED
      BY <1>2, <2>1
  <1> DEFINE K == {m \in 0 .. n : Tallies(g[1 .. m], v, m)}
  <1>5. 0 \in K
    <2>1. Tallies(<<>>, v, 0)
      <3>1. \A name \in FeatureName : Occurs(v, 0, name, Measured) = {}
        BY DEF Occurs
      <3>2. <<>> \in Seq(StatRow) /\ DOMAIN <<>> = {}
        OBVIOUS
      <3> QED
        BY <3>1, <3>2 DEF Tallies
    <2> QED
      BY <1>0, <1>3, <2>1
  <1>6. ASSUME NEW m \in 0 .. n - 1, m \in K PROVE m + 1 \in K
    <2>1. /\ m \in Nat /\ m + 1 \in 1 .. n /\ m + 1 \in 0 .. n /\ (m + 1) - 1 = m
          /\ v[m + 1] \in Row
      BY <1>0
    <2>2. Tallies(g[1 .. m], v, m)
      BY <1>6
    <2>3. g[1 .. m + 1] = Counted(g[1 .. m], v[m + 1])
      BY <1>4, <2>1
    <2>4. Tallies(Counted(g[1 .. m], v[m + 1]), v, m + 1)
      BY <2>1, <2>2, TalliesNext
    <2> QED
      BY <2>1, <2>3, <2>4
  <1>7. n \in K
    <2>1. n \in 0 .. n
      BY <1>0
    <2> HIDE DEF K, n
    <2> QED
      BY <1>0, <1>5, <1>6, <2>1, CountInduction
  <1> QED
    BY <1>1, <1>7

-----------------------------------------------------------------------------
(* How the table is written.                                               *)

\* The order is one between the rows of different features.
LEMMA AboveOrders ==
  /\ \A r \in StatRow : ~Above(r, r)
  /\ \A r, s, t \in StatRow : Above(r, s) /\ Above(s, t) => Above(r, t)
  /\ \A r, s \in StatRow : r.feature # s.feature => Above(r, s) \/ Above(s, r)
  <1>1. \A name \in FeatureName : alphabetical(name) \in Int
    BY DEF alphabetical, FeatureName
  <1>2. \A a, b \in FeatureName : a # b => alphabetical(a) # alphabetical(b)
    BY DEF alphabetical, FeatureName
  <1>3. \A r \in StatRow : /\ r.total \in Nat /\ r.feature \in FeatureName
                           /\ alphabetical(r.feature) \in Int
    BY <1>1 DEF StatRow
  <1>4. \A r, s \in StatRow : r.feature # s.feature =>
           alphabetical(r.feature) # alphabetical(s.feature)
    BY <1>2, <1>3
  <1> QED
    BY <1>3, <1>4 DEF Above

\* InOrder sorts: the rows of the result are those it was given, each once, and
\* each is above the next.
LEMMA InOrderSorts ==
  ASSUME NEW rows \in Seq(StatRow),
         \A j, k \in DOMAIN rows : rows[j].feature = rows[k].feature => j = k
  PROVE  /\ InOrder(rows) \in Seq(StatRow)
         /\ \A k \in DOMAIN InOrder(rows) : \E i \in DOMAIN rows : InOrder(rows)[k] = rows[i]
         /\ \A i \in DOMAIN rows : \E k \in DOMAIN InOrder(rows) : InOrder(rows)[k] = rows[i]
         /\ \A j, k \in DOMAIN InOrder(rows) : j < k => Above(InOrder(rows)[j], InOrder(rows)[k])
  <1> DEFINE n == Len(rows)
             D == DOMAIN rows
             Before(i, j) == Above(rows[i], rows[j]) \/ (~Above(rows[j], rows[i]) /\ i < j)
             R == {p \in D \X D : Before(p[1], p[2])}
             sorted == InOrder(rows)
  <1>1. n \in Nat /\ D = 1 .. n /\ \A i \in D : rows[i] \in StatRow
    OBVIOUS
  <1>2. \A x, y \in D : <<x, y>> \in R <=> Above(rows[x], rows[y])
    <2>1. \A x, y \in D : <<x, y>> \in R <=> Before(x, y)
      OBVIOUS
    <2>2. \A x, y \in D : ~Above(rows[y], rows[x]) /\ x # y => Above(rows[x], rows[y])
      BY <1>1, AboveOrders
    <2>3. \A x, y \in D : x < y => x # y
      BY <1>1
    <2> QED
      BY <2>1, <2>2, <2>3
  <1>3. Orders(R, D)
    <2>1. \A x, y \in D : x # y => rows[x].feature # rows[y].feature
      OBVIOUS
    <2>2. \A x \in D : rows[x] \in StatRow
      BY <1>1
    <2> HIDE DEF R, D
    <2>3. \A x \in D : <<x, x>> \notin R
      BY <1>2, <2>2, AboveOrders
    <2>4. \A x, y, z \in D : <<x, y>> \in R /\ <<y, z>> \in R => <<x, z>> \in R
      BY <1>2, <2>2, AboveOrders
    <2>5. \A x, y \in D : x = y \/ <<x, y>> \in R \/ <<y, x>> \in R
      <3> TAKE x, y \in D
      <3>1. x # y => Above(rows[x], rows[y]) \/ Above(rows[y], rows[x])
        BY <2>1, <2>2, AboveOrders
      <3> QED
        BY <1>2, <3>1
    <2> QED
      BY <2>3, <2>4, <2>5 DEF Orders
  <1>4. sorted = [k \in D |-> rows[CHOOSE i \in D : RankIn(D, R, i) = k - 1]]
    <2> DEFINE counted(k) == CHOOSE i \in D : Cardinality({j \in D : Before(j, i)}) = k - 1
               ranked(k) == CHOOSE i \in D : RankIn(D, R, i) = k - 1
    <2>1. sorted = [k \in D |-> rows[counted(k)]]
      BY DEF InOrder
    <2>2. \A i \in D : {j \in D : <<j, i>> \in R} = {j \in D : Before(j, i)}
      OBVIOUS
    <2> HIDE DEF R, D
    <2>3. \A i \in D : RankIn(D, R, i) = Cardinality({j \in D : Before(j, i)})
      BY <2>2 DEF RankIn
    <2> HIDE DEF Before, sorted
    <2>4. \A k : counted(k) = ranked(k)
      BY <2>3
    <2> HIDE DEF counted, ranked
    <2>5. sorted = [k \in D |-> rows[ranked(k)]]
      BY <2>1, <2>4
    <2> QED
      BY <2>5 DEF ranked
  <1> HIDE DEF sorted, R
  <1>5. sorted \in Seq(StatRow) /\ Len(sorted) = n
    BY <1>3, <1>4, RankedSorts
  <1>6. Sorts(rows, sorted, R)
    BY <1>3, <1>4, RankedSorts
  <1>7. PICK from \in [1 .. n -> 1 .. n] :
           /\ \A k \in 1 .. n : sorted[k] = rows[from[k]]
           /\ \A i \in 1 .. n : \E k \in 1 .. n : from[k] = i
           /\ \A k, l \in 1 .. n : k < l => from[k] # from[l] /\ <<from[k], from[l]>> \in R
    BY <1>6 DEF Sorts
  <1>8. DOMAIN sorted = 1 .. n /\ \A k \in 1 .. n : from[k] \in D
    BY <1>1, <1>5, <1>7
  <1>9. \A k \in DOMAIN sorted : \E i \in D : sorted[k] = rows[i]
    BY <1>7, <1>8
  <1>10. \A i \in D : \E k \in DOMAIN sorted : sorted[k] = rows[i]
    BY <1>1, <1>7, <1>8
  <1>11. ASSUME NEW j \in DOMAIN sorted, NEW k \in DOMAIN sorted, j < k
         PROVE  Above(sorted[j], sorted[k])
    <2>1. <<from[j], from[k]>> \in R /\ sorted[j] = rows[from[j]] /\ sorted[k] = rows[from[k]]
      BY <1>7, <1>8, <1>11
    <2>2. from[j] \in D /\ from[k] \in D
      BY <1>8
    <2> HIDE DEF D
    <2>3. Above(rows[from[j]], rows[from[k]])
      BY <1>2, <2>1, <2>2
    <2> QED
      BY <2>1, <2>3
  <1> QED
    BY <1>5, <1>9, <1>10, <1>11 DEF sorted

\* Rounding down loses less than one.
LEMMA Rounded ==
  ASSUME NEW t \in Nat \ {0}, NEW x \in Nat
  PROVE  /\ (x * 100) \div t \in Nat
         /\ t * ((x * 100) \div t) <= x * 100
         /\ x * 100 < t * ((x * 100) \div t) + t
  OBVIOUS

LEMMA FactorOrder ==
  ASSUME NEW t \in Nat \ {0}, NEW x \in Int
  PROVE  /\ t * x <= t * 100 => x <= 100
         /\ t * 96 < t * x => 96 < x
  OBVIOUS

\* The shares of a whole in four parts lack less than four of a hundred.
LEMMA SharesAddUp ==
  ASSUME NEW a \in Nat, NEW b \in Nat, NEW c \in Nat, NEW d \in Nat, NEW t \in Nat \ {0},
         t = a + b + c + d
  PROVE  countCell(a, t).percent + countCell(b, t).percent + countCell(c, t).percent
            + countCell(d, t).percent \in 97 .. 100
  <1> DEFINE Q(x) == (x * 100) \div t
  <1>1. \A x \in Nat : Q(x) \in Nat /\ t * Q(x) <= x * 100 /\ x * 100 < t * Q(x) + t
    BY Rounded
  <1>2. \A x : countCell(x, t).percent = Q(x)
    BY DEF countCell
  <1> HIDE DEF Q
  <1>3. PICK p \in Nat, q \in Nat, r \in Nat, s \in Nat :
           p = Q(a) /\ q = Q(b) /\ r = Q(c) /\ s = Q(d)
    BY <1>1
  <1>4. t * (p + q + r + s) = t * p + t * q + t * r + t * s
    BY <1>3
  <1>5. /\ t * p \in Nat /\ t * q \in Nat /\ t * r \in Nat /\ t * s \in Nat
        /\ t * p <= a * 100 /\ t * q <= b * 100 /\ t * r <= c * 100 /\ t * s <= d * 100
        /\ a * 100 < t * p + t /\ b * 100 < t * q + t
        /\ c * 100 < t * r + t /\ d * 100 < t * s + t
    BY <1>1, <1>3
  <1>6. t * (p + q + r + s) <= t * 100 /\ t * 96 < t * (p + q + r + s)
    BY <1>4, <1>5
  <1>7. p + q + r + s <= 100 /\ 96 < p + q + r + s
    BY <1>6, FactorOrder
  <1> QED
    BY <1>2, <1>3, <1>7

-----------------------------------------------------------------------------
(* Features of all reports, and reports that have a feature.               *)

HasOne(w, name, S) == \E k \in DOMAIN w : w[k].name = name /\ w[k].status \in S
Distinct(w) == \A j, k \in DOMAIN w : w[j].name = w[k].name => j = k

\* A report more is at most one occurrence more.
LEMMA OccursGlued ==
  ASSUME NEW u \in Seq(Row), NEW w \in Seq(Row), Distinct(w), NEW name, NEW S
  PROVE  /\ Cardinality(Occurs(u, Len(u), name, S)) \in Nat
         /\ Cardinality(Occurs(u \o w, Len(u \o w), name, S)) =
               IF HasOne(w, name, S) THEN Cardinality(Occurs(u, Len(u), name, S)) + 1
               ELSE Cardinality(Occurs(u, Len(u), name, S))
  <1> DEFINE n == Len(u)
             m == Len(w)
             x == u \o w
             O == Occurs(u, n, name, S)
             N == Occurs(x, n + m, name, S)
  <1>1. /\ n \in Nat /\ m \in Nat /\ Len(x) = n + m /\ DOMAIN w = 1 .. m
        /\ \A k \in 1 .. n : x[k] = u[k]
        /\ \A k \in 1 .. m : x[n + k] = w[k]
    OBVIOUS
  <1> HIDE DEF n, m, x
  <1>2. IsFiniteSet(O) /\ Cardinality(O) \in Nat
    <2>1. O \in SUBSET (1 .. n)
      BY DEF Occurs
    <2> QED
      BY <1>1, <2>1, PositionsFinite
  <1>3. \A k \in 1 .. n + m : k \in 1 .. n \/ \E l \in 1 .. m : k = n + l
    <2> TAKE k \in 1 .. n + m
    <2>1. k \in 1 .. n \/ (k - n \in 1 .. m /\ k = n + (k - n))
      BY <1>1
    <2> QED
      BY <2>1
  <1>4. \A k \in 1 .. n : k \in 1 .. n + m
    BY <1>1
  <1>5. \A l \in 1 .. m : n + l \in 1 .. n + m /\ n + l \notin 1 .. n
    BY <1>1
  <1>6. \A k \in 1 .. n : k \in N <=> k \in O
    BY <1>1, <1>4 DEF Occurs
  <1>7. \A l \in 1 .. m : n + l \in N <=> w[l].name = name /\ w[l].status \in S
    BY <1>1, <1>5 DEF Occurs
  <1>8. O \subseteq 1 .. n /\ N \subseteq 1 .. n + m
    BY DEF Occurs
  <1>9. CASE HasOne(w, name, S)
    <2>1. PICK l \in 1 .. m : w[l].name = name /\ w[l].status \in S
      BY <1>1, <1>9 DEF HasOne
    <2>2. \A k \in 1 .. m : n + k \in N => k = l
      BY <1>1, <1>7, <2>1 DEF Distinct
    <2> HIDE DEF O, N
    <2>3. N \subseteq O \cup {n + l}
      BY <1>3, <1>6, <1>8, <2>2
    <2>4. O \cup {n + l} \subseteq N
      BY <1>6, <1>7, <1>8, <2>1
    <2>5. N = O \cup {n + l} /\ n + l \notin O
      BY <1>5, <1>8, <2>3, <2>4
    <2>6. Cardinality(N) = Cardinality(O) + 1
      BY <1>2, <2>5, FS_AddElement
    <2> QED
      BY <1>1, <1>2, <1>9, <2>6 DEF N, O, n, x
  <1>10. CASE ~HasOne(w, name, S)
    <2>1. \A l \in 1 .. m : n + l \notin N
      BY <1>1, <1>7, <1>10 DEF HasOne
    <2> HIDE DEF O, N
    <2>2. N = O
      BY <1>3, <1>6, <1>8, <2>1
    <2> QED
      BY <1>1, <1>2, <1>10, <2>2 DEF N, O, n, x
  <1> QED
    BY <1>9, <1>10

\* Reports whose features can be counted.
Countable(parts, n) == \A d \in 1 .. n : parts[d] \in Seq(Row) /\ Distinct(parts[d])
Having(parts, m, name, S) == {d \in 1 .. m : HasOne(parts[d], name, S)}
Features(parts, m) == {f \in Row : \E d \in 1 .. m : \E k \in DOMAIN parts[d] : parts[d][k] = f}

LEMMA GluedCounts ==
  ASSUME NEW parts, NEW n \in Nat, Countable(parts, n), NEW name, NEW S
  PROVE  Cardinality(Occurs(Glued(parts, n), Len(Glued(parts, n)), name, S))
            = Cardinality(Having(parts, n, name, S))
  <1> DEFINE v(m) == Glued(parts, m)
             O(m) == Cardinality(Occurs(v(m), Len(v(m)), name, S))
             H(m) == Having(parts, m, name, S)
             K == {m \in 0 .. n : O(m) = Cardinality(H(m))}
  <1>1. \A d \in 1 .. n : parts[d] \in Seq(Row) /\ Distinct(parts[d])
    BY DEF Countable
  <1>2. \A m \in 0 .. n : v(m) \in Seq(Row)
    BY <1>1, GluedType
  <1>3. 0 \in K
    <2>1. v(0) = <<>>
      BY GluedUnfolds
    <2>2. Occurs(<<>>, 0, name, S) = {} /\ Len(<<>>) = 0
      BY DEF Occurs
    <2>3. H(0) = {}
      BY DEF Having
    <2> HIDE DEF v, H
    <2> QED
      BY <2>1, <2>2, <2>3
  <1>4. ASSUME NEW m \in 0 .. n - 1, m \in K PROVE m + 1 \in K
    <2> DEFINE w == parts[m + 1]
    <2>1. /\ m \in Nat /\ m \in 0 .. n /\ m + 1 \in 1 .. n /\ m + 1 \in 0 .. n
          /\ 1 .. m + 1 = (1 .. m) \cup {m + 1} /\ m + 1 \notin 1 .. m
      OBVIOUS
    <2>2. w \in Seq(Row) /\ Distinct(w) /\ v(m) \in Seq(Row)
      BY <1>1, <1>2, <2>1
    <2>3. v(m + 1) = v(m) \o w
      <3>1. \A k \in 1 .. m + 1 : k \in 1 .. n
        BY <2>1
      <3>2. \A k \in 1 .. m + 1 : parts[k] \in Seq(Row)
        BY <1>1, <3>1
      <3> QED
        BY <2>1, <3>2, GluedNext
    <2> HIDE DEF v
    <2>4. O(m) \in Nat /\ O(m + 1) = IF HasOne(w, name, S) THEN O(m) + 1 ELSE O(m)
      <3>1. Cardinality(Occurs(v(m), Len(v(m)), name, S)) \in Nat
        BY <2>2, OccursGlued
      <3>2. Cardinality(Occurs(v(m) \o w, Len(v(m) \o w), name, S)) =
               IF HasOne(w, name, S) THEN Cardinality(Occurs(v(m), Len(v(m)), name, S)) + 1
               ELSE Cardinality(Occurs(v(m), Len(v(m)), name, S))
        <4> HIDE DEF w
        <4> QED
          BY <2>2, OccursGlued
      <3> QED
        BY <2>3, <3>1, <3>2
    <2>5. IsFiniteSet(H(m))
      <3>1. H(m) \in SUBSET (1 .. m)
        BY DEF Having
      <3> QED
        BY <2>1, <3>1, PositionsFinite
    <2>6. CASE HasOne(w, name, S)
      <3>1. H(m + 1) = H(m) \cup {m + 1} /\ m + 1 \notin H(m)
        BY <2>1, <2>6 DEF Having
      <3> HIDE DEF O, H, w
      <3>2. Cardinality(H(m + 1)) = Cardinality(H(m)) + 1
        BY <2>5, <3>1, FS_AddElement
      <3> QED
        BY <1>4, <2>1, <2>4, <2>6, <3>2
    <2>7. CASE ~HasOne(w, name, S)
      <3>1. H(m + 1) = H(m)
        BY <2>1, <2>7 DEF Having
      <3> HIDE DEF O, H, w
      <3> QED
        BY <1>4, <2>1, <2>4, <2>7, <3>1
    <2> QED
      BY <2>6, <2>7
  <1>5. n \in K
    <2>1. n \in 0 .. n
      OBVIOUS
    <2> HIDE DEF K
    <2> QED
      BY <1>3, <1>4, <2>1, CountInduction
  <1> QED
    BY <1>5

\* The features of the list are those of the reports.
LEMMA GluedFeatures ==
  ASSUME NEW parts, NEW n \in Nat, Countable(parts, n)
  PROVE  /\ Glued(parts, n) \in Seq(Row)
         /\ {Glued(parts, n)[k] : k \in DOMAIN Glued(parts, n)} = Features(parts, n)
  <1> DEFINE v(m) == Glued(parts, m)
             F(m) == {v(m)[k] : k \in DOMAIN v(m)}
             K == {m \in 0 .. n : F(m) = Features(parts, m)}
  <1>1. \A d \in 1 .. n : parts[d] \in Seq(Row)
    BY DEF Countable
  <1>2. \A m \in 0 .. n : v(m) \in Seq(Row)
    BY <1>1, GluedType
  <1>3. 0 \in K
    <2>1. v(0) = <<>>
      BY GluedUnfolds
    <2>2. Features(parts, 0) = {}
      BY DEF Features
    <2> HIDE DEF v
    <2>3. F(0) = {}
      BY <2>1
    <2> QED
      BY <2>2, <2>3
  <1>4. ASSUME NEW m \in 0 .. n - 1, m \in K PROVE m + 1 \in K
    <2> DEFINE w == parts[m + 1]
               x == v(m) \o w
               p == Len(v(m))
    <2>1. /\ m \in Nat /\ m \in 0 .. n /\ m + 1 \in 1 .. n /\ m + 1 \in 0 .. n
          /\ 1 .. m + 1 = (1 .. m) \cup {m + 1}
      OBVIOUS
    <2>2. w \in Seq(Row) /\ v(m) \in Seq(Row)
      BY <1>1, <1>2, <2>1
    <2>3. v(m + 1) = x
      <3>1. \A k \in 1 .. m + 1 : k \in 1 .. n
        BY <2>1
      <3>2. \A k \in 1 .. m + 1 : parts[k] \in Seq(Row)
        BY <1>1, <3>1
      <3> QED
        BY <2>1, <3>2, GluedNext
    <2> HIDE DEF v
    <2>4. /\ p \in Nat /\ Len(w) \in Nat /\ DOMAIN x = 1 .. p + Len(w)
          /\ DOMAIN v(m) = 1 .. p /\ DOMAIN w = 1 .. Len(w)
          /\ \A k \in 1 .. p : x[k] = v(m)[k]
          /\ \A k \in 1 .. Len(w) : x[p + k] = w[k]
      BY <2>2
    <2>5. \A k \in DOMAIN w : w[k] \in Row
      BY <2>2
    <2> HIDE DEF x, w, p
    <2>6. ASSUME NEW f
          PROVE  (\E k \in DOMAIN x : x[k] = f) <=>
                    (\E k \in DOMAIN v(m) : v(m)[k] = f) \/ (\E k \in DOMAIN w : w[k] = f)
      <3>1. \A k \in 1 .. p + Len(w) : k \in 1 .. p \/ (k - p \in 1 .. Len(w) /\ p + (k - p) = k)
        BY <2>4
      <3>2. \A k \in 1 .. p : k \in 1 .. p + Len(w)
        BY <2>4
      <3>3. \A k \in 1 .. Len(w) : p + k \in 1 .. p + Len(w)
        BY <2>4
      <3>4. ASSUME NEW k \in DOMAIN x, x[k] = f
            PROVE  (\E j \in DOMAIN v(m) : v(m)[j] = f) \/ \E j \in DOMAIN w : w[j] = f
        BY <2>4, <3>1, <3>4
      <3>5. ASSUME NEW k \in DOMAIN v(m), v(m)[k] = f PROVE \E j \in DOMAIN x : x[j] = f
        BY <2>4, <3>2, <3>5
      <3>6. ASSUME NEW k \in DOMAIN w, w[k] = f PROVE \E j \in DOMAIN x : x[j] = f
        BY <2>4, <3>3, <3>6
      <3> QED
        BY <3>4, <3>5, <3>6
    <2>7. ASSUME NEW f \in Row
          PROVE  f \in Features(parts, m + 1) <=>
                    f \in Features(parts, m) \/ \E k \in DOMAIN w : w[k] = f
      BY <2>1, <2>7 DEF Features, w
    <2>8. \A f : f \in F(m) <=> f \in Features(parts, m)
      BY <1>4
    <2>9. ASSUME NEW f PROVE f \in F(m + 1) <=> f \in Features(parts, m + 1)
      <3>1. f \in F(m + 1) <=> f \in F(m) \/ \E k \in DOMAIN w : w[k] = f
        BY <2>3, <2>6
      <3>2. f \in Features(parts, m + 1) => f \in Row
        BY DEF Features
      <3>3. f \in Features(parts, m) => f \in Row
        BY DEF Features
      <3>4. (\E k \in DOMAIN w : w[k] = f) => f \in Row
        BY <2>5
      <3> HIDE DEF F
      <3> QED
        BY <2>7, <2>8, <3>1, <3>2, <3>3, <3>4
    <2> HIDE DEF F
    <2>10. F(m + 1) = Features(parts, m + 1)
      <3>1. \A f : f \in F(m + 1) <=> f \in Features(parts, m + 1)
        BY <2>9
      <3> QED
        BY <3>1
    <2> QED
      BY <2>1, <2>10
  <1>5. n \in K
    <2>1. n \in 0 .. n
      OBVIOUS
    <2> HIDE DEF K
    <2> QED
      BY <1>3, <1>4, <2>1, CountInduction
  <1>6. n \in 0 .. n
    OBVIOUS
  <1> QED
    BY <1>2, <1>5, <1>6

\* What the statistics of some reports are.
Reports(reps, n) == reps = [d \in 1 .. n |-> reps[d]]
Parts(reps) == [d \in DOMAIN reps |-> reps[d].features]

\* The table of the statistics, for any reports that list no feature twice.
LEMMA ComputedTable ==
  ASSUME NEW reps, NEW n \in Nat, Reports(reps, n), Countable(Parts(reps), n)
  PROVE  TableOf(Compute(reps), reps)
  <1> DEFINE parts == Parts(reps)
             v == Glued(parts, n)
             counted == CountedAll(v)
             rows == InOrder(counted)
             With(name, S) == {d \in DOMAIN reps :
                                  \E k \in DOMAIN reps[d].features :
                                      /\ reps[d].features[k].name = name
                                      /\ reps[d].features[k].status \in S}
  <1>1. DOMAIN reps = 1 .. n /\ Len(reps) = n
    <2>1. reps \in Seq({reps[d] : d \in 1 .. n}) /\ Len(reps) = n
      <3>1. \A d \in 1 .. n : reps[d] \in {reps[k] : k \in 1 .. n}
        OBVIOUS
      <3>2. reps = [d \in 1 .. n |-> reps[d]]
        BY DEF Reports
      <3> QED
        BY <3>1, <3>2, FunctionIsSequence
    <2> QED
      BY <2>1
  <1>2. /\ parts = [d \in 1 .. n |-> parts[d]]
        /\ \A d \in 1 .. n : parts[d] = reps[d].features
    BY <1>1 DEF Parts
  <1>3. FlattenSeq(parts) = v
    BY <1>2, FlattenIsGlued
  <1>4. Compute(reps) = [domains |-> n, features |-> rows]
    BY <1>1, <1>3 DEF Compute, CountedAll, Parts
  <1> HIDE DEF parts
  <1>5. Countable(parts, n)
    BY DEF parts
  <1>6. v \in Seq(Row) /\ {v[k] : k \in DOMAIN v} = Features(parts, n)
    BY <1>5, GluedFeatures
  <1>7. Tallies(counted, v, Len(v))
    BY <1>6, CountedTallies
  <1>8. \A name, S : Cardinality(Occurs(v, Len(v), name, S)) = Cardinality(With(name, S))
    <2> TAKE name, S
    <2>1. Cardinality(Occurs(v, Len(v), name, S)) = Cardinality(Having(parts, n, name, S))
      BY <1>5, GluedCounts
    <2>2. Having(parts, n, name, S) = With(name, S)
      BY <1>1, <1>2 DEF Having, HasOne
    <2> QED
      BY <2>1, <2>2
  <1> HIDE DEF v, counted
  <1>9. /\ counted \in Seq(StatRow)
        /\ \A j, k \in DOMAIN counted : counted[j].feature = counted[k].feature => j = k
        /\ \A name \in FeatureName : Occurs(v, Len(v), name, Measured) # {} <=>
                                        \E k \in DOMAIN counted : counted[k].feature = name
        /\ \A k \in DOMAIN counted : RowCounts(counted[k], v, Len(v))
    BY <1>7 DEF Tallies
  <1> HIDE DEF rows, With
  <1>10. /\ rows \in Seq(StatRow)
         /\ \A k \in DOMAIN rows : \E i \in DOMAIN counted : rows[k] = counted[i]
         /\ \A i \in DOMAIN counted : \E k \in DOMAIN rows : rows[k] = counted[i]
         /\ \A j, k \in DOMAIN rows : j < k => Above(rows[j], rows[k])
    BY <1>9, InOrderSorts DEF rows
  <1>11. ASSUME NEW k \in DOMAIN rows
         PROVE  /\ rows[k].total = Cardinality(With(rows[k].feature, Measured))
                /\ \A s \in Measured : rows[k].of[s] = Cardinality(With(rows[k].feature, {s}))
                /\ countCell(rows[k].of["present"], rows[k].total).percent
                     + countCell(rows[k].of["absent"], rows[k].total).percent
                     + countCell(rows[k].of["misconfigured"], rows[k].total).percent
                     + countCell(rows[k].of["unknown"], rows[k].total).percent \in 97 .. 100
    <2>1. RowCounts(rows[k], v, Len(v))
      BY <1>9, <1>10
    <2>2. /\ rows[k].total \in Nat \ {0}
          /\ rows[k].total = Cardinality(Occurs(v, Len(v), rows[k].feature, Measured))
          /\ \A s \in Measured :
                rows[k].of[s] = Cardinality(Occurs(v, Len(v), rows[k].feature, {s}))
          /\ rows[k].total = rows[k].of["present"] + rows[k].of["absent"]
                               + rows[k].of["misconfigured"] + rows[k].of["unknown"]
      BY <2>1 DEF RowCounts
    <2>3. \A s \in Measured : rows[k].of[s] \in Nat
      <3>1. rows[k] \in StatRow
        BY <1>10, SequenceElements
      <3> QED
        BY <3>1 DEF StatRow
    <2>4. /\ rows[k].of["present"] \in Nat /\ rows[k].of["absent"] \in Nat
          /\ rows[k].of["misconfigured"] \in Nat /\ rows[k].of["unknown"] \in Nat
      BY <2>3 DEF Measured
    <2>5. countCell(rows[k].of["present"], rows[k].total).percent
             + countCell(rows[k].of["absent"], rows[k].total).percent
             + countCell(rows[k].of["misconfigured"], rows[k].total).percent
             + countCell(rows[k].of["unknown"], rows[k].total).percent \in 97 .. 100
      BY <2>2, <2>4, SharesAddUp
    <2>6. rows[k].total = Cardinality(With(rows[k].feature, Measured))
      BY <1>8, <2>2
    <2>7. \A s \in Measured : rows[k].of[s] = Cardinality(With(rows[k].feature, {s}))
      BY <1>8, <2>2
    <2> QED
      BY <2>5, <2>6, <2>7
  <1> DEFINE Told == {g \in UNION {ToSet(reps[d].features) : d \in DOMAIN reps} :
                         g.status \in Measured}
  <1>12. \A f : f \in Told <=> f \in Features(parts, n) /\ f.status \in Measured
    <2> TAKE f
    <2>1. f \in Features(parts, n) <=> \E d \in 1 .. n : \E k \in DOMAIN parts[d] : parts[d][k] = f
      <3>1. \A d \in 1 .. n : \A k \in DOMAIN parts[d] : parts[d][k] \in Row
        BY <1>5 DEF Countable
      <3> QED
        BY <3>1 DEF Features
    <2>2. f \in UNION {ToSet(reps[d].features) : d \in DOMAIN reps} <=>
             \E d \in 1 .. n : \E k \in DOMAIN parts[d] : parts[d][k] = f
      BY <1>1, <1>2 DEF ToSet
    <2> QED
      BY <2>1, <2>2
  <1> HIDE DEF Told
  <1>13. ASSUME NEW name
         PROVE  (\E k \in DOMAIN rows : rows[k].feature = name) <=> \E f \in Told : f.name = name
    <2>1. (\E k \in DOMAIN rows : rows[k].feature = name) <=>
             \E i \in DOMAIN counted : counted[i].feature = name
      BY <1>10
    <2>2. (\E f \in Told : f.name = name) <=>
             \E k \in DOMAIN v : v[k].name = name /\ v[k].status \in Measured
      <3>1. \A f : f \in Features(parts, n) <=> \E k \in DOMAIN v : v[k] = f
        BY <1>6
      <3> QED
        BY <1>12, <3>1
    <2>3. Occurs(v, Len(v), name, Measured) # {} <=>
             \E k \in DOMAIN v : v[k].name = name /\ v[k].status \in Measured
      BY <1>6 DEF Occurs
    <2>4. (\E i \in DOMAIN counted : counted[i].feature = name) => name \in FeatureName
      <3>1. \A i \in DOMAIN counted : counted[i] \in StatRow
        BY <1>9, SequenceElements
      <3> QED
        BY <3>1 DEF StatRow
    <2>5. (\E k \in DOMAIN v : v[k].name = name /\ v[k].status \in Measured) => name \in FeatureName
      <3>1. \A k \in DOMAIN v : v[k] \in Row
        BY <1>6, SequenceElements
      <3> QED
        BY <3>1 DEF Row
    <2> QED
      BY <1>9, <2>1, <2>2, <2>3, <2>4, <2>5
  <1>14. {rows[k].feature : k \in DOMAIN rows} = {f.name : f \in Told}
    BY <1>13
  <1>15. Compute(reps).domains = n /\ Compute(reps).features = rows
    BY <1>4
  <1>16. \A j, k \in DOMAIN rows : j < k => Above(rows[j], rows[k])
    BY <1>10
  <1>17. \A k \in DOMAIN rows :
            /\ rows[k].total = Cardinality(With(rows[k].feature, Measured))
            /\ \A s \in Measured : rows[k].of[s] = Cardinality(With(rows[k].feature, {s}))
    BY <1>11
  <1>18. \A k \in DOMAIN rows :
            countCell(rows[k].of["present"], rows[k].total).percent
               + countCell(rows[k].of["absent"], rows[k].total).percent
               + countCell(rows[k].of["misconfigured"], rows[k].total).percent
               + countCell(rows[k].of["unknown"], rows[k].total).percent \in 97 .. 100
    BY <1>11
  <1>19. ASSUME NEW stats, stats.domains = n, stats.features = rows
         PROVE  TableOf(stats, reps)
    <2>1. stats.domains = Len(reps)
      BY <1>1, <1>19
    <2>2. {stats.features[k].feature : k \in DOMAIN stats.features} = {f.name : f \in Told}
      BY <1>14, <1>19
    <2>3. \A k \in DOMAIN stats.features :
             /\ stats.features[k].total = Cardinality(With(stats.features[k].feature, Measured))
             /\ \A s \in Measured :
                   stats.features[k].of[s] = Cardinality(With(stats.features[k].feature, {s}))
      BY <1>17, <1>19
    <2>4. \A k \in DOMAIN stats.features :
             countCell(stats.features[k].of["present"], stats.features[k].total).percent
                + countCell(stats.features[k].of["absent"], stats.features[k].total).percent
                + countCell(stats.features[k].of["misconfigured"], stats.features[k].total).percent
                + countCell(stats.features[k].of["unknown"], stats.features[k].total).percent
             \in 97 .. 100
      BY <1>18, <1>19
    <2>5. \A j, k \in DOMAIN stats.features : j < k => Above(stats.features[j], stats.features[k])
      BY <1>16, <1>19
    <2> QED
      BY <2>1, <2>2, <2>3, <2>4, <2>5, Zenon DEF TableOf, With, Told
  <1> QED
    BY <1>15, <1>19

-----------------------------------------------------------------------------
(* The statistics of a call.                                               *)

LEMMA ProgramScans == ProgramSpec => Spec
  <1>1. ProgramInit => Init
    BY DEF ProgramInit
  <1>2. [ProgramNext]_programVars => [Next]_vars
    BY DEF ProgramNext, programVars
  <1> QED
    BY <1>1, <1>2, PTL DEF ProgramSpec, Spec

\* What a call keeps of its reports and statistics: skipped is what the stub
\* says, in every report alike, and the table written is that of the reports.
SkipInv ==
    \A d \in Domain, i \in Index : \A k \in DOMAIN perProbe[d][i] :
        perProbe[d][i][k].status = "skipped" <=> (noDKIM /\ ProbeList[i] = "dkim")

SummaryInv ==
    /\ Reports(reports, NumDomains)
    /\ summary # NoSummary => Scanned /\ summary = Compute(reports)

\* The reports are final once main has gone on.
LEMMA ReportsStay ==
  ASSUME ScanInv, Scanned, [Next]_vars
  PROVE  Scanned' /\ reports' = reports
  <1>1. \A d \in Domain : pc[d] = "done"
    BY DEF ScanInv, MainInv
  <1>2. main \in {"render", "stats", "decide", "exited"}
    BY DEF Scanned
  <1>3. ASSUME NEW d \in Domain, DomainStep(d) \/ Expire(d)
        PROVE  main' = main /\ reports' = reports
    BY <1>1, <1>3 DEF DomainStep, Begin, ProbeReturns, WriteReport, Release, Expire
  <1>4. CASE MainStep
    BY <1>2, <1>4 DEF MainStep, SetupFails, SetupDone, Go, WaitReturns, WriteReports,
                      WriteStats, OutputFails, Decide, Scanned
  <1>5. CASE Terminated \/ UNCHANGED vars
    BY <1>2, <1>5 DEF Terminated, vars, Scanned
  <1> QED
    BY <1>2, <1>3, <1>4, <1>5 DEF Next, Scanned

LEMMA StepReports == Reports(reports, NumDomains) /\ [Next]_vars => Reports(reports, NumDomains)'
  <1> SUFFICES ASSUME Reports(reports, NumDomains), [Next]_vars
               PROVE  Reports(reports, NumDomains)'
    OBVIOUS
  <1>1. reports = [d \in 1 .. NumDomains |-> reports[d]]
    BY DEF Reports
  <1>2. ASSUME NEW d \in Domain, WriteReport(d)
        PROVE  reports' = [e \in 1 .. NumDomains |-> reports'[e]]
    <2>1. reports' = [reports EXCEPT ![SlotOf(d)] = Report(d, perProbe[d])]
      BY <1>2 DEF WriteReport
    <2> QED
      BY <1>1, <2>1
  <1>3. CASE \E d \in Domain : WriteReport(d)
    BY <1>2, <1>3 DEF Reports
  <1>4. CASE ~\E d \in Domain : WriteReport(d)
    <2>1. reports' = reports
      <3>1. ASSUME NEW d \in Domain, DomainStep(d) \/ Expire(d) PROVE reports' = reports
        BY <1>4, <3>1 DEF DomainStep, Begin, ProbeReturns, Release, Expire
      <3>2. CASE MainStep
        BY <3>2 DEF MainStep, SetupFails, SetupDone, Go, WaitReturns, WriteReports,
                    WriteStats, OutputFails, Decide
      <3>3. CASE Terminated \/ UNCHANGED vars
        BY <3>3 DEF Terminated, vars
      <3> QED
        BY <3>1, <3>2, <3>3 DEF Next
    <2> QED
      BY <1>1, <2>1 DEF Reports
  <1> QED
    BY <1>3, <1>4

LEMMA SkipInvariant == ProgramSpec => []SkipInv
  <1>1. ProgramInit => SkipInv
    <2> SUFFICES ASSUME ProgramInit, NEW d \in Domain, NEW i \in Index PROVE perProbe[d][i] = <<>>
      BY DEF SkipInv
    <2> QED
      BY DEF ProgramInit, Init, NoFeatures
  <1>2. SkipInv /\ [ProgramNext]_programVars => SkipInv'
    <2> SUFFICES ASSUME SkipInv, [ProgramNext]_programVars PROVE SkipInv'
      OBVIOUS
    <2>1. noDKIM' = noDKIM
      BY DEF ProgramNext, programVars, input
    <2>2. CASE ProgramNext
      <3>1. DkimAsListed
        BY <2>2 DEF ProgramNext
      <3> QED
        BY <2>1, <3>1 DEF DkimAsListed, SkipInv
    <2>3. CASE UNCHANGED programVars
      BY <2>1, <2>3 DEF SkipInv, programVars, vars
    <2> QED
      BY <2>2, <2>3
  <1> QED
    BY <1>1, <1>2, PTL DEF ProgramSpec

LEMMA SummaryInvariant == ProgramSpec => []SummaryInv
  <1>1. ProgramInit => SummaryInv
    BY DEF ProgramInit, Init, SummaryInv, Reports, Domain
  <1>2. ScanInv /\ SummaryInv /\ [ProgramNext]_programVars => SummaryInv'
    <2> SUFFICES ASSUME ScanInv, SummaryInv, [ProgramNext]_programVars PROVE SummaryInv'
      OBVIOUS
    <2>1. [Next]_vars
      BY DEF ProgramNext, programVars
    <2>2. Reports(reports, NumDomains)'
      BY <2>1, StepReports DEF SummaryInv
    <2>3. Scanned => Scanned' /\ reports' = reports
      BY <2>1, ReportsStay
    <2>4. CASE summary' = summary
      <3>1. summary' # NoSummary' => Scanned /\ summary = Compute(reports)
        BY <2>4 DEF SummaryInv, NoSummary
      <3>2. summary' # NoSummary' => Scanned' /\ summary' = Compute(reports)'
        <4>1. reports' = reports => Compute(reports)' = Compute(reports)
          BY DEF Compute
        <4> QED
          BY <2>3, <2>4, <3>1, <4>1
      <3> QED
        BY <2>2, <3>2 DEF SummaryInv
    <2>5. CASE summary' # summary
      <3>1. WritesSummary
        BY <2>5 DEF ProgramNext, programVars
      <3>2. /\ main \in {"stats", "render"}
            /\ summary' \in {NoSummary, Compute(reports)}
        BY <2>5, <3>1 DEF WritesSummary
      <3>3. Scanned
        BY <3>2 DEF Scanned
      <3>4. reports' = reports => Compute(reports)' = Compute(reports)
        BY DEF Compute
      <3>5. summary' # NoSummary' => Scanned' /\ summary' = Compute(reports)'
        BY <2>3, <3>2, <3>3, <3>4 DEF NoSummary
      <3> QED
        BY <2>2, <3>5 DEF SummaryInv
    <2> QED
      BY <2>4, <2>5
  <1>3. ProgramSpec => []ScanInv
    BY ProgramScans, ScanInvariant, PTL
  <1> QED
    BY <1>1, <1>2, <1>3, PTL DEF ProgramSpec

\* The reports of a scan can be counted: each lists a feature once.
LEMMA ScannedCountable ==
  ASSUME ScanInv, SlotsInv, Scanned, Reports(reports, NumDomains)
  PROVE  Countable(Parts(reports), NumDomains)
  <1>1. DOMAIN reports = 1 .. NumDomains
    BY DEF Reports
  <1>2. ASSUME NEW d \in 1 .. NumDomains
        PROVE  reports[d].features \in Seq(Row) /\ Distinct(reports[d].features)
    <2> DEFINE rows == reports[d].features
    <2>1. d \in Domain
      BY DEF Domain
    <2>2. AllReturned(d) /\ reports[d] = Report(d, perProbe[d])
      BY <2>1, ScannedFacts
    <2>3. /\ rows \in Seq(Row)
          /\ \A l, m \in DOMAIN rows : l < m =>
                featureOrder(rows[l].name) < featureOrder(rows[m].name)
      BY <2>1, <2>2, ReportRows
    <2> HIDE DEF rows
    <2>4. \A name : ~(featureOrder(name) < featureOrder(name))
      <3>1. \A name : featureOrder(name) \in Int
        BY DEF featureOrder
      <3> QED
        BY <3>1
    <2>5. DOMAIN rows \subseteq Nat
      BY <2>3
    <2>6. \A l, m \in DOMAIN rows : rows[l].name = rows[m].name => ~(l < m)
      BY <2>3, <2>4
    <2>7. \A l, m \in DOMAIN rows : l < m \/ m < l \/ l = m
      BY <2>5
    <2>8. Distinct(rows)
      BY <2>6, <2>7 DEF Distinct
    <2> QED
      BY <2>3, <2>8 DEF rows
  <1> QED
    BY <1>1, <1>2 DEF Countable, Parts

\* A feature that one report has a verdict on has one in all.
LEMMA VerdictInAll ==
  ASSUME ScanInv, SlotsInv, SkipInv, Scanned, NEW d \in Domain,
         NEW m \in DOMAIN reports[d].features, reports[d].features[m].status \in Measured
  PROVE  /\ noDKIM => reports[d].features[m].name # "dkim"
         /\ \A e \in Domain : HasOne(reports[e].features, reports[d].features[m].name, Measured)
  <1> DEFINE f == reports[d].features[m]
  <1>1. \A e \in Domain : AllReturned(e) /\ reports[e] = Report(e, perProbe[e])
    BY ScannedFacts
  <1>2. ASSUME NEW e \in Domain
        PROVE  /\ \A i \in Index : \A k \in DOMAIN perProbe[e][i] :
                     \E n \in DOMAIN reports[e].features :
                        reports[e].features[n] = perProbe[e][i][k]
               /\ \A n \in DOMAIN reports[e].features :
                     \E i \in Index : \E k \in DOMAIN perProbe[e][i] :
                        reports[e].features[n] = perProbe[e][i][k]
    <2> DEFINE rows == Report(e, perProbe[e]).features
    <2>1. AllReturned(e) /\ reports[e].features = rows
      BY <1>1
    <2>2. /\ \A i \in Index : \A k \in DOMAIN perProbe[e][i] :
                \E n \in DOMAIN rows : rows[n] = perProbe[e][i][k]
          /\ \A n \in DOMAIN rows : \E i \in Index : \E k \in DOMAIN perProbe[e][i] :
                rows[n] = perProbe[e][i][k]
      BY <2>1, ReportRows
    <2> HIDE DEF rows
    <2> QED
      BY <2>1, <2>2
  <1>3. PICK i \in Index : \E k \in DOMAIN perProbe[d][i] : f = perProbe[d][i][k]
    BY <1>2
  <1>4. PICK k \in DOMAIN perProbe[d][i] : f = perProbe[d][i][k]
    BY <1>3
  <1> HIDE DEF f
  <1>5. ASSUME NEW e \in Domain
        PROVE  /\ DOMAIN perProbe[e][i] = DOMAIN FeaturesOf(ProbeList[i])
               /\ perProbe[e][i] \in Seq(Row)
               /\ \A l \in DOMAIN perProbe[e][i] :
                     perProbe[e][i][l].name = FeaturesOf(ProbeList[i])[l]
    BY <1>1, <1>3, SlotFacts
  <1>6. f.status # "skipped"
    BY DEF f, Measured
  <1>7. ~(noDKIM /\ ProbeList[i] = "dkim")
    BY <1>3, <1>4, <1>6 DEF SkipInv
  <1>8. ASSUME NEW e \in Domain PROVE HasOne(reports[e].features, f.name, Measured)
    <2>1. /\ k \in DOMAIN perProbe[e][i] /\ perProbe[e][i][k] \in Row
          /\ perProbe[e][i][k].name = f.name
      <3>1. k \in DOMAIN perProbe[e][i] /\ perProbe[e][i][k].name = f.name
        BY <1>4, <1>5
      <3> QED
        BY <1>5, <3>1, SequenceElements
    <2>2. perProbe[e][i][k].status # "skipped"
      BY <1>3, <1>7, <2>1 DEF SkipInv
    <2>3. perProbe[e][i][k].status \in Measured
      BY <2>1, <2>2 DEF Row, Status, Measured
    <2>4. PICK n \in DOMAIN reports[e].features : reports[e].features[n] = perProbe[e][i][k]
      BY <1>2, <1>3, <2>1
    <2> QED
      BY <2>1, <2>3, <2>4 DEF HasOne
  <1>9. noDKIM => f.name # "dkim"
    <2>1. ProbeList[i] \in ProbeName
      BY <1>3, ScanAssumption DEF Index
    <2>2. /\ ProbeList[i] # "mtatls" => FeaturesOf(ProbeList[i]) = <<ProbeList[i]>>
          /\ ProbeList[i] = "mtatls" => FeaturesOf(ProbeList[i]) = <<"starttls", "dane">>
      BY <2>1, FeaturesOfProbe
    <2>3. f.name = FeaturesOf(ProbeList[i])[k] /\ k \in DOMAIN FeaturesOf(ProbeList[i])
      BY <1>4, <1>5
    <2>4. CASE ProbeList[i] # "mtatls"
      <3>1. k = 1 /\ f.name = ProbeList[i]
        BY <2>2, <2>3, <2>4
      <3> QED
        BY <1>7, <3>1
    <2>5. CASE ProbeList[i] = "mtatls"
      <3>1. k \in {1, 2} /\ f.name \in {"starttls", "dane"}
        BY <2>2, <2>3, <2>5
      <3> QED
        BY <3>1
    <2> QED
      BY <2>4, <2>5
  <1> QED
    BY <1>8, <1>9 DEF f

LEMMA DomainCount == Cardinality(Domain) = NumDomains
  <1>1. NumDomains \in Int /\ NumDomains >= 1
    BY ScanAssumption
  <1>2. Cardinality(1 .. NumDomains) = IF 1 > NumDomains THEN 0 ELSE NumDomains - 1 + 1
    BY <1>1, FS_Interval
  <1> QED
    BY <1>1, <1>2 DEF Domain

\* stats.go:18-21, 46-50: whatever the domains, the list of probes and what they
\* found, the table written is that of the final reports: a row for each feature
\* with a verdict, each domain counted once in it and in one of its columns, the
\* rows in order, the shares but for rounding a hundred; and a skipped feature
\* lowers no share, for it has no row.
THEOREM StatisticsAddUp == ProgramSpec => []StatsAddUp
  <1>1. ASSUME ScanInv, SlotsInv, SkipInv, SummaryInv, summary # NoSummary
        PROVE  /\ TableOf(summary, reports)
               /\ \A k \in DOMAIN summary.features :
                     /\ summary.features[k].total = NumDomains
                     /\ noDKIM => summary.features[k].feature # "dkim"
    <2>1. Scanned /\ summary = Compute(reports) /\ Reports(reports, NumDomains)
      BY <1>1 DEF SummaryInv
    <2>2. Countable(Parts(reports), NumDomains)
      BY <1>1, <2>1, ScannedCountable
    <2>3. TableOf(summary, reports)
      BY <2>1, <2>2, ComputedTable, ScanAssumption
    <2> DEFINE rows == summary.features
               With(name, S) == {d \in DOMAIN reports :
                                    \E k \in DOMAIN reports[d].features :
                                        /\ reports[d].features[k].name = name
                                        /\ reports[d].features[k].status \in S}
    <2>4. /\ {rows[k].feature : k \in DOMAIN rows} =
                {f.name : f \in {g \in UNION {ToSet(reports[d].features) : d \in DOMAIN reports} :
                                    g.status \in Measured}}
          /\ \A k \in DOMAIN rows : rows[k].total = Cardinality(With(rows[k].feature, Measured))
      BY <2>3, Zenon DEF TableOf
    <2>5. DOMAIN reports = Domain
      BY <2>1 DEF Reports, Domain
    <2>6. ASSUME NEW k \in DOMAIN rows
          PROVE  rows[k].total = NumDomains /\ (noDKIM => rows[k].feature # "dkim")
      <3> HIDE DEF rows
      <3>1. rows[k].feature \in {rows[j].feature : j \in DOMAIN rows}
        OBVIOUS
      <3>2. PICK f \in UNION {ToSet(reports[d].features) : d \in DOMAIN reports} :
               f.name = rows[k].feature /\ f.status \in Measured
        BY <2>4, <3>1
      <3>3. PICK d \in Domain : f \in ToSet(reports[d].features)
        BY <2>5, <3>2
      <3>4. PICK m \in DOMAIN reports[d].features : f = reports[d].features[m]
        BY <3>3 DEF ToSet
      <3>5. /\ noDKIM => rows[k].feature # "dkim"
            /\ \A e \in Domain : HasOne(reports[e].features, rows[k].feature, Measured)
        BY <1>1, <2>1, <3>2, <3>4, VerdictInAll
      <3>6. With(rows[k].feature, Measured) = Domain
        BY <2>5, <3>5 DEF HasOne
      <3>7. Cardinality(Domain) = NumDomains
        BY DomainCount
      <3> QED
        BY <2>4, <3>5, <3>6, <3>7
    <2> QED
      BY <2>3, <2>6
  <1>2. ScanInv /\ SlotsInv /\ SkipInv /\ SummaryInv => StatsAddUp
    BY <1>1 DEF StatsAddUp
  <1> QED
    BY <1>2, ProgramScans, ScanInvariant, SlotsInvariant, SkipInvariant, SummaryInvariant, PTL
=============================================================================
