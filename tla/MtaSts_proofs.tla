---------------------------- MODULE MtaSts_proofs ----------------------------
(***************************************************************************)
(* Proofs about the MTA-STS probe, for every marker, policy and MX answer  *)
(* a domain may have, names of every length included.                      *)
(***************************************************************************)
EXTENDS MtaSts, Pick_proofs, SequenceTheorems

PolicyLine == [key : {"version", "mode", "mx", "other"}, value : Name]

-----------------------------------------------------------------------------
(* Names.                                                                  *)

LEMMA LabelFacts ==
  /\ Blank \in Label /\ "*" \in Label /\ "none" \in Label
  /\ \A l \in Label : lower[l] \in Label /\ (lower[l] = Blank <=> l = Blank)
  /\ Blank # "*" /\ Blank # "none"
  <1>1. Blank # "*" /\ Blank # "none"
    BY Zenon DEF Blank
  <1> QED
    BY <1>1, MtaStsAssumption

LEMMA EmptyIsName == Empty \in Name
  <1>1. Empty \in Seq(Label) /\ Len(Empty) = 1
    BY LabelFacts DEF Empty
  <1>2. Empty # <<>>
    <2>1. Len(<<>>) = 0
      OBVIOUS
    <2> QED
      BY <1>1, <2>1
  <1> QED
    BY <1>1, <1>2 DEF Name

LEMMA EmptyIs ==
  ASSUME NEW s \in Seq(Label)
  PROVE  s = Empty <=> Len(s) = 1 /\ s[1] = Blank
  <1>1. Empty \in Seq(Label) /\ Len(Empty) = 1 /\ Empty[1] = Blank
    BY LabelFacts DEF Empty
  <1>2. ASSUME Len(s) = 1, s[1] = Blank PROVE s = Empty
    <2>1. \A i \in 1 .. Len(s) : s[i] = Empty[i]
      BY <1>1, <1>2
    <2> QED
      BY <1>1, <1>2, <2>1, SeqEqual
  <1> QED
    BY <1>1, <1>2

\* Lower case keeps the parts apart, and says whether there is anything at all.
LEMMA LowerName ==
  ASSUME NEW name \in Name
  PROVE  /\ name \in Seq(Label) /\ Len(name) \in Nat \ {0} /\ DOMAIN name = 1 .. Len(name)
         /\ toLower(name) \in Name /\ toLower(name) \in Seq(Label)
         /\ Len(toLower(name)) = Len(name)
         /\ toLower(name) = Empty <=> name = Empty
  <1>1. /\ name \in Seq(Label) /\ name # <<>>
        /\ Len(name) \in Nat /\ DOMAIN name = 1 .. Len(name)
    BY DEF Name
  <1>2. Len(name) # 0
    BY <1>1
  <1>3. toLower(name) = [k \in 1 .. Len(name) |-> lower[name[k]]]
    BY <1>1 DEF toLower
  <1>4. \A k \in 1 .. Len(name) : name[k] \in Label /\ lower[name[k]] \in Label
    BY <1>1, LabelFacts, ElementOfSeq
  <1>5. toLower(name) \in Seq(Label) /\ Len(toLower(name)) = Len(name)
    BY <1>1, <1>3, <1>4
  <1>6. toLower(name) \in Name
    BY <1>2, <1>5 DEF Name
  <1>8. toLower(name) = Empty <=> name = Empty
    <2>1. CASE Len(name) = 1
      <3>1. 1 \in 1 .. Len(name) /\ toLower(name)[1] = lower[name[1]]
        BY <1>3, <2>1
      <3> QED
        BY <1>1, <1>4, <1>5, <3>1, EmptyIs, LabelFacts
    <2>2. CASE Len(name) # 1
      BY <1>1, <1>5, <2>2, EmptyIs
    <2> QED
      BY <2>1, <2>2
  <1> QED
    BY <1>1, <1>2, <1>5, <1>6, <1>8

\* What Covers compares: the name without a final dot, the root kept.
PlainName(name) ==
    LET low == toLower(name)
    IN  IF low # Empty /\ low[Len(low)] = Blank
        THEN SubSeq(low, 1, Len(low) - 1) ELSE low

LEMMA PlainIsTrimmed ==
  ASSUME NEW name \in Name
  PROVE  /\ PlainName(name) = TrimDot(toLower(name))
         /\ PlainName(name) \in Seq(Label) /\ Len(PlainName(name)) \in Nat \ {0}
  <1> DEFINE low == toLower(name)
  <1>1. low \in Seq(Label) /\ Len(low) \in Nat \ {0}
    BY LowerName
  <1> HIDE DEF low
  <1>2. low # Empty /\ low[Len(low)] = Blank <=> Len(low) > 1 /\ low[Len(low)] = Blank
    <2>1. low = Empty <=> Len(low) = 1 /\ low[1] = Blank
      BY <1>1, EmptyIs
    <2>2. CASE Len(low) = 1
      <3>1. low[Len(low)] = low[1] /\ ~(Len(low) > 1)
        BY <2>2
      <3> QED
        BY <2>1, <2>2, <3>1
    <2>3. CASE Len(low) # 1
      <3>1. Len(low) > 1
        <4>1. \A n \in Nat \ {0} : n # 1 => n > 1
          OBVIOUS
        <4> QED
          BY Zenon, <1>1, <2>3, <4>1
      <3>2. low # Empty
        BY <2>1, <2>3
      <3> QED
        BY <3>1, <3>2
    <2> QED
      BY <2>2, <2>3
  <1>3. PlainName(name) = TrimDot(low)
    BY <1>2 DEF PlainName, TrimDot, low
  <1>4. TrimDot(low) \in Seq(Label) /\ Len(TrimDot(low)) \in Nat \ {0}
    <2>1. CASE Len(low) > 1 /\ low[Len(low)] = Blank
      <3>1. TrimDot(low) = SubSeq(low, 1, Len(low) - 1)
        BY <2>1 DEF TrimDot
      <3>2. \A k \in 1 .. Len(low) - 1 : low[k] \in Label
        BY <1>1, ElementOfSeq
      <3>3. 1 \in Int /\ Len(low) - 1 \in Int /\ 1 <= Len(low) - 1
        BY <1>1, <2>1
      <3>4. /\ SubSeq(low, 1, Len(low) - 1) \in Seq(Label)
            /\ Len(SubSeq(low, 1, Len(low) - 1)) = Len(low) - 1 - 1 + 1
        BY <3>2, <3>3, SubSeqProperties
      <3> QED
        BY <1>1, <3>1, <3>3, <3>4
    <2>2. CASE ~(Len(low) > 1 /\ low[Len(low)] = Blank)
      BY <1>1, <2>2 DEF TrimDot
    <2> QED
      BY <2>1, <2>2
  <1> QED
    BY <1>3, <1>4 DEF low

\* matchPattern on normalised names is the rule of RFC 8461.
LEMMA MatchIsCover ==
  ASSUME NEW host \in Name, NEW pattern \in Name
  PROVE  matchPattern(TrimDot(toLower(host)), TrimDot(toLower(pattern))) <=> Covers(pattern, host)
  <1> DEFINE h == PlainName(host)
             p == PlainName(pattern)
  <1>1. /\ h = TrimDot(toLower(host)) /\ p = TrimDot(toLower(pattern))
        /\ h \in Seq(Label) /\ Len(h) \in Nat \ {0}
        /\ p \in Seq(Label) /\ Len(p) \in Nat \ {0}
    BY PlainIsTrimmed
  <1>2. Covers(pattern, host) <=>
           \/ h = p
           \/ Len(p) > 1 /\ p[1] = "*" /\ \E l \in Label \ {Blank} : h = <<l>> \o Tail(p)
    BY DEF Covers, PlainName
  <1> HIDE DEF h, p
  <1>3. ASSUME Len(p) > 1
        PROVE  (\E l \in Label \ {Blank} : h = <<l>> \o Tail(p)) <=>
                  /\ Len(h) = Len(p) /\ h[1] # Blank
                  /\ \A k \in 2 .. Len(p) : h[k] = p[k]
    <2>1. Tail(p) \in Seq(Label) /\ Len(Tail(p)) = Len(p) - 1
      BY <1>1, <1>3
    <2>2. \A k \in 1 .. Len(p) - 1 : Tail(p)[k] = p[k + 1]
      BY <1>1, <1>3
    <2>3. ASSUME NEW l \in Label
          PROVE  LET j == <<l>> \o Tail(p)
                 IN  /\ j \in Seq(Label) /\ Len(j) = Len(p) /\ j[1] = l
                     /\ \A k \in 2 .. Len(p) : j[k] = p[k]
      <3> DEFINE j == <<l>> \o Tail(p)
      <3>1. <<l>> \in Seq(Label) /\ Len(<<l>>) = 1 /\ <<l>>[1] = l
        OBVIOUS
      <3>2. j \in Seq(Label) /\ Len(j) = 1 + (Len(p) - 1)
        BY <2>1, <3>1
      <3>3. \A k \in 1 .. Len(j) : j[k] = IF k <= 1 THEN <<l>>[k] ELSE Tail(p)[k - 1]
        BY <1>1, <2>1, <3>1
      <3>4. Len(j) = Len(p) /\ 1 \in 1 .. Len(j)
        BY <1>1, <1>3, <3>2
      <3>5. j[1] = l
        BY <3>1, <3>3, <3>4
      <3>6. \A k \in 2 .. Len(p) : j[k] = p[k]
        <4> TAKE k \in 2 .. Len(p)
        <4>1. k \in 1 .. Len(j) /\ ~(k <= 1) /\ k - 1 \in 1 .. Len(p) - 1 /\ (k - 1) + 1 = k
          BY <1>1, <3>4
        <4>2. j[k] = Tail(p)[k - 1]
          BY <3>3, <4>1
        <4> QED
          BY <2>2, <4>1, <4>2
      <3> QED
        BY <3>2, <3>4, <3>5, <3>6
    <2>4. ASSUME NEW l \in Label \ {Blank}, h = <<l>> \o Tail(p)
          PROVE  Len(h) = Len(p) /\ h[1] # Blank /\ \A k \in 2 .. Len(p) : h[k] = p[k]
      BY <2>3, <2>4
    <2>5. ASSUME Len(h) = Len(p), h[1] # Blank, \A k \in 2 .. Len(p) : h[k] = p[k]
          PROVE  h[1] \in Label \ {Blank} /\ h = <<h[1]>> \o Tail(p)
      <3>1. 1 \in 1 .. Len(h) /\ h[1] \in Label
        BY <1>1
      <3> DEFINE j == <<h[1]>> \o Tail(p)
      <3>2. j \in Seq(Label) /\ Len(j) = Len(p) /\ j[1] = h[1] /\ \A k \in 2 .. Len(p) : j[k] = p[k]
        BY <2>3, <3>1
      <3> HIDE DEF j
      <3>3. \A k \in 1 .. Len(p) : h[k] = j[k]
        <4> TAKE k \in 1 .. Len(p)
        <4>1. k = 1 \/ k \in 2 .. Len(p)
          BY <1>1
        <4> QED
          BY <2>5, <3>2, <4>1
      <3>4. h = j
        BY <1>1, <2>5, <3>2, <3>3, SeqEqual
      <3> QED
        BY <2>5, <3>1, <3>4 DEF j
    <2> QED
      BY <2>4, <2>5
  <1> QED
    BY <1>1, <1>2, <1>3 DEF matchPattern
-----------------------------------------------------------------------------
(* The policy.                                                             *)

\* A set of positions that is not empty has one greatest position.
LEMMA LastPosition ==
  ASSUME NEW n \in Nat, NEW P \in SUBSET (1 .. n), P # {}
  PROVE  \E i \in P : /\ \A j \in P : j <= i
                      /\ \A m \in P : (\A j \in P : j <= m) => m = i
  <1>1. Cardinality(P) \in Nat /\ Cardinality(P) \in 1 .. Cardinality(P)
    <2>1. Cardinality(P) \in Nat /\ 1 \in 1 .. Cardinality(P)
      BY PositionsFinite, LeastPosition
    <2> QED
      BY <2>1
  <1>2. PICK i \in P : Cardinality(Below(P, i)) = Cardinality(P) - 1
    BY <1>1, RanksAreABijection
  <1>3. ASSUME NEW j \in P PROVE j <= i
    <2>1. i < j => Cardinality(Below(P, i)) < Cardinality(Below(P, j))
      BY BelowGrows
    <2>2. Cardinality(Below(P, j)) \in 0 .. Cardinality(P) - 1
      BY BelowGrows
    <2>3. ~(i < j)
      BY <1>1, <1>2, <2>1, <2>2
    <2> QED
      BY <2>3
  <1>4. ASSUME NEW m \in P, \A j \in P : j <= m PROVE m = i
    <2>1. i <= m /\ m <= i
      BY <1>3, <1>4
    <2> QED
      BY <2>1
  <1> QED
    BY <1>3, <1>4

\* The lines of a key.
LinesOf(body, key) == {k \in DOMAIN body : body[k].key = key}

LEMMA BodyFacts ==
  ASSUME NEW body \in Seq(PolicyLine)
  PROVE  /\ Len(body) \in Nat /\ DOMAIN body = 1 .. Len(body)
         /\ \A k \in DOMAIN body : body[k].value \in Name
  <1>1. /\ Len(body) \in Nat /\ DOMAIN body = 1 .. Len(body)
        /\ \A k \in DOMAIN body : body[k] \in PolicyLine
    BY SequenceElements
  <1> QED
    BY <1>1 DEF PolicyLine

\* The value of a key is that of its last line, Empty without one.
LEMMA ValueIsLast ==
  ASSUME NEW body \in Seq(PolicyLine), NEW key
  PROVE  /\ ValueOf(body, key) \in Name
         /\ \/ LinesOf(body, key) = {} /\ ValueOf(body, key) = Empty
            \/ \E i \in LinesOf(body, key) :
                  /\ ValueOf(body, key) = body[i].value
                  /\ \A j \in LinesOf(body, key) : j <= i
                  /\ \A m \in LinesOf(body, key) :
                        (\A j \in LinesOf(body, key) : j <= m) => m = i
  <1> DEFINE lines == LinesOf(body, key)
  <1>1. ValueOf(body, key) =
           IF lines = {} THEN Empty
           ELSE body[CHOOSE k \in lines : \A j \in lines : j <= k].value
    BY DEF ValueOf, LinesOf
  <1>2. lines \in SUBSET (1 .. Len(body)) /\ Len(body) \in Nat
    BY BodyFacts DEF LinesOf
  <1>3. Empty \in Name
    BY EmptyIsName
  <1> HIDE DEF lines
  <1>4. CASE lines = {}
    BY <1>1, <1>3, <1>4 DEF lines
  <1>5. CASE lines # {}
    <2>1. PICK i \in lines : /\ \A j \in lines : j <= i
                            /\ \A m \in lines : (\A j \in lines : j <= m) => m = i
      BY <1>2, <1>5, LastPosition
    <2>2. (CHOOSE k \in lines : \A j \in lines : j <= k) = i
      BY <2>1
    <2>3. ValueOf(body, key) = body[i].value
      BY <1>1, <1>5, <2>2
    <2>4. body[i].value \in Name
      BY BodyFacts DEF lines, LinesOf
    <2> QED
      BY <2>1, <2>3, <2>4 DEF lines
  <1> QED
    BY <1>4, <1>5

\* The last line of a key has this value in lower case.
LEMMA LastLineIs ==
  ASSUME reply.body \in Seq(PolicyLine), NEW key, NEW value, value # Empty
  PROVE  LastLine(key, value) <=> toLower(ValueOf(reply.body, key)) = value
  <1> DEFINE body == reply.body
             lines == LinesOf(body, key)
  <1>1. LastLine(key, value) <=>
           \E k \in lines : /\ toLower(body[k].value) = value
                            /\ \A j \in lines : j <= k
    BY DEF LastLine, LinesOf
  <1>2. toLower(Empty) = Empty
    BY EmptyIsName, LowerName
  <1> QED
    BY <1>1, <1>2, ValueIsLast

\* A policy counts as present exactly if mode or version has a value.
LEMMA PolicyFacts ==
  ASSUME reply.body \in Seq(PolicyLine)
  PROVE  LET fetched == parsePolicy(reply.body)
         IN  /\ fetched.mode # Empty \/ fetched.version # Empty <=>
                   \E key \in {"mode", "version"} : ValueOf(reply.body, key) # Empty
             /\ fetched.mode = <<"none">> <=> LastLine("mode", <<"none">>)
  <1> DEFINE fetched == parsePolicy(reply.body)
  <1>1. /\ fetched.version = ValueOf(reply.body, "version")
        /\ fetched.mode = toLower(ValueOf(reply.body, "mode"))
    BY DEF parsePolicy
  <1>2. fetched.mode = Empty <=> ValueOf(reply.body, "mode") = Empty
    BY <1>1, ValueIsLast, LowerName
  <1>3. <<"none">> # Empty
    BY LabelFacts DEF Empty
  <1> QED
    BY <1>1, <1>2, <1>3, LastLineIs

\* That is what it means to publish one.
LEMMA PublishedMeans ==
  ASSUME reply.body \in Seq(PolicyLine)
  PROVE  Published <=> /\ reply.status = 200
                       /\ \E key \in {"mode", "version"} : ValueOf(reply.body, key) # Empty
  <1> DEFINE body == reply.body
             Good(k) == /\ body[k].key \in {"mode", "version"} /\ body[k].value # Empty
                        /\ LastLine(body[k].key, toLower(body[k].value))
  <1>1. Published <=> reply.status = 200 /\ \E k \in DOMAIN body : Good(k)
    BY DEF Published
  <1>2. ASSUME NEW k \in DOMAIN body, Good(k)
        PROVE  \E key \in {"mode", "version"} : ValueOf(body, key) # Empty
    <2>1. body[k].value \in Name /\ toLower(body[k].value) # Empty
      BY <1>2, BodyFacts, LowerName
    <2>2. toLower(ValueOf(body, body[k].key)) = toLower(body[k].value)
      BY <1>2, <2>1, LastLineIs
    <2>3. ValueOf(body, body[k].key) \in Name
      BY ValueIsLast
    <2>4. ValueOf(body, body[k].key) # Empty
      BY <2>1, <2>2, <2>3, LowerName
    <2> QED
      BY <1>2, <2>4
  <1>3. ASSUME NEW key \in {"mode", "version"}, ValueOf(body, key) # Empty
        PROVE  \E k \in DOMAIN body : Good(k)
    <2>1. PICK i \in LinesOf(body, key) : ValueOf(body, key) = body[i].value
      BY <1>3, ValueIsLast
    <2>2. i \in DOMAIN body /\ body[i].key = key /\ body[i].value \in Name
      BY BodyFacts DEF LinesOf
    <2>3. toLower(body[i].value) # Empty
      BY <1>3, <2>1, <2>2, LowerName
    <2>4. LastLine(key, toLower(body[i].value))
      BY <2>1, <2>3, LastLineIs
    <2> QED
      BY <1>3, <2>1, <2>2, <2>4
  <1> QED
    BY <1>1, <1>2, <1>3

\* The mx lines, all of them and nothing else.
LEMMA PolicyHosts ==
  ASSUME reply.body \in Seq(PolicyLine)
  PROVE  LET hosts == parsePolicy(reply.body).mx
         IN  /\ hosts \in Seq(Name)
             /\ \A k \in DOMAIN hosts : hosts[k] \in Patterns
             /\ \A p \in Patterns : \E k \in DOMAIN hosts : hosts[k] = p
             /\ hosts = <<>> <=> Patterns = {}
  <1> DEFINE body == reply.body
             values == [k \in DOMAIN body |-> body[k].value]
             P == LinesOf(body, "mx")
             hosts == parsePolicy(body).mx
  <1>1. values \in Seq(Name) /\ DOMAIN values = DOMAIN body
    BY BodyFacts
  <1>2. P \in SUBSET (DOMAIN values)
    BY DEF LinesOf
  <1>3. hosts = Picked(values, P)
    BY DEF parsePolicy, LinesOf
  <1>4. Patterns = {values[k] : k \in P}
    BY DEF Patterns, LinesOf
  <1>5. Cardinality(P) \in Nat
    BY BodyFacts, <1>1, <1>2, PositionsFinite
  <1> HIDE DEF values, P, hosts
  <1>6. /\ hosts \in Seq(Name) /\ Len(hosts) = Cardinality(P)
        /\ \A k \in 1 .. Cardinality(P) : \E i \in P : hosts[k] = values[i]
        /\ \A i \in P : \E k \in 1 .. Cardinality(P) : hosts[k] = values[i]
    BY <1>1, <1>2, <1>3, PickedElements
  <1>7. DOMAIN hosts = 1 .. Cardinality(P)
    BY <1>6
  <1>8. /\ \A k \in DOMAIN hosts : hosts[k] \in Patterns
        /\ \A p \in Patterns : \E k \in DOMAIN hosts : hosts[k] = p
    <2>1. ASSUME NEW k \in DOMAIN hosts PROVE hosts[k] \in Patterns
      <3>1. PICK i \in P : hosts[k] = values[i]
        BY <1>6, <1>7, <2>1
      <3> QED
        BY <1>4, <3>1
    <2>2. ASSUME NEW p \in Patterns PROVE \E k \in DOMAIN hosts : hosts[k] = p
      <3>1. PICK i \in P : p = values[i]
        BY <1>4, <2>2
      <3>2. PICK k \in 1 .. Cardinality(P) : hosts[k] = values[i]
        BY <1>6, <3>1
      <3> QED
        BY <1>7, <3>1, <3>2
    <2> QED
      BY <2>1, <2>2
  <1>9. hosts = <<>> <=> DOMAIN hosts = {}
    BY <1>6
  <1> QED
    BY <1>6, <1>8, <1>9 DEF hosts

\* No host is left over exactly if each is covered by a line; who is left over
\* is covered by none.
LEMMA UnmatchedMeans ==
  ASSUME reply.body \in Seq(PolicyLine), mx \in Seq(Name)
  PROVE  LET left == Unmatched(mx, parsePolicy(reply.body).mx)
         IN  left = <<>> <=> \A i \in DOMAIN mx : \E p \in Patterns : Covers(p, mx[i])
  <1> DEFINE patterns == parsePolicy(reply.body).mx
             Norm(name) == TrimDot(toLower(name))
             normalised == [k \in DOMAIN patterns |-> Norm(patterns[k])]
             P == {k \in DOMAIN mx : ~matchAnyPattern(Norm(mx[k]), normalised)}
             left == Unmatched(mx, patterns)
  <1>1. left = Picked(mx, P) /\ P \in SUBSET (DOMAIN mx)
    BY DEF Unmatched
  <1>2. \A i \in DOMAIN mx :
           matchAnyPattern(Norm(mx[i]), normalised) <=> \E p \in Patterns : Covers(p, mx[i])
    <2> TAKE i \in DOMAIN mx
    <2>1. mx[i] \in Name
      BY SequenceElements
    <2>2. \A k \in DOMAIN patterns : patterns[k] \in Name /\ patterns[k] \in Patterns
      BY PolicyHosts, SequenceElements
    <2>3. \A p \in Patterns : \E k \in DOMAIN patterns : patterns[k] = p
      BY PolicyHosts
    <2> HIDE DEF patterns
    <2>4. \A k \in DOMAIN patterns :
             matchPattern(Norm(mx[i]), normalised[k]) <=> Covers(patterns[k], mx[i])
      BY <2>1, <2>2, MatchIsCover
    <2>5. DOMAIN normalised = DOMAIN patterns
      OBVIOUS
    <2> HIDE DEF normalised, Norm
    <2>6. matchAnyPattern(Norm(mx[i]), normalised) <=>
             \E k \in DOMAIN patterns : Covers(patterns[k], mx[i])
      BY <2>4, <2>5 DEF matchAnyPattern
    <2> QED
      BY <2>2, <2>3, <2>6
  <1>3. P = {} <=> \A i \in DOMAIN mx : \E p \in Patterns : Covers(p, mx[i])
    BY <1>2
  <1> HIDE DEF P, left
  <1>4. left \in Seq(Name) /\ Len(left) = Cardinality(P)
    BY <1>1, PickedElements
  <1>5. Cardinality(P) = 0 <=> P = {}
    <2>1. P \in SUBSET (1 .. Len(mx)) /\ Len(mx) \in Nat
      BY <1>1, SequenceElements
    <2>2. IsFiniteSet(P)
      BY <2>1, PositionsFinite
    <2> QED
      BY <2>2, FS_EmptySet
  <1>6. left = <<>> <=> Len(left) = 0
    BY <1>4
  <1> QED
    BY <1>3, <1>4, <1>5, <1>6 DEF left

-----------------------------------------------------------------------------
(* The inductive invariant.                                                *)

\* What was fetched from a reply.
Fetched == IF reply.status = 200 THEN parsePolicy(reply.body) ELSE NoPolicy

\* What was found of the marker, after its lookup: dnsPresent is the answer to
\* it, if there was one.
MarkerInv ==
    /\ pc = "txt" => ~dnsPresent
    /\ dnsPresent => Marked /\ "txt" \notin dead
    /\ pc # "txt" /\ Marked /\ ~dnsPresent => "txt" \in dead \/ expired

\* What was found of the policy, after the request.
PolicyInv ==
    /\ pc \in {"txt", "https"} => policy = NoPolicy
    /\ policy # NoPolicy => policy = Fetched /\ "https" \notin dead
    /\ pc \notin {"txt", "https"} /\ policy # Fetched => "https" \in dead \/ expired

\* What the MX check said, and why it was not made.
MatchInv ==
    /\ pc \in {"txt", "https", "mx"} => match = "skipped"
    /\ pc = "mx" => Wanted(dnsPresent, policy)
    /\ match # "skipped" => Wanted(dnsPresent, policy) /\ mx # <<>> /\ "mx" \notin dead
    /\ match = "matched" => Unmatched(mx, policy.mx) = <<>>
    /\ match = "unmatched" => Unmatched(mx, policy.mx) # <<>>
    /\ pc \in {"judge", "done"} /\ match = "skipped" =>
          ~Wanted(dnsPresent, policy) \/ mx = <<>> \/ "mx" \in dead \/ expired

\* The verdict is the function of these three.
Judged ==
    pc = "done" =>
        status = MtaStsVerdict([txt |-> dnsPresent, policy |-> policyPresent,
                                mode |-> ModeRead, mx |-> match])

MtaStsInv == TypeOK /\ MarkerInv /\ PolicyInv /\ MatchInv /\ Judged

LEMMA InitialInv == Init => MtaStsInv
  <1> SUFFICES ASSUME Init PROVE MtaStsInv
    OBVIOUS
  <1>1. PICK d \in Deployments : txt = d.txt /\ reply = d.reply /\ mx = d.mx
    BY DEF Init
  <1>2. [txt |-> txt, reply |-> reply, mx |-> mx] \in Deployments
    <2>1. \E T, R, M : d \in [txt : T, reply : R, mx : M]
      BY MtaStsAssumption
    <2>2. d = [txt |-> d.txt, reply |-> d.reply, mx |-> d.mx]
      BY <2>1
    <2> QED
      BY <1>1, <2>2
  <1> QED
    BY <1>2 DEF Init, MtaStsInv, TypeOK, MarkerInv, PolicyInv, MatchInv, Judged

\* What the domain publishes does not change while it is probed.
LEMMA WorldStands ==
  ASSUME world' = world
  PROVE  /\ txt' = txt /\ reply' = reply /\ mx' = mx /\ dead' = dead
         /\ Marked' = Marked /\ Fetched' = Fetched
  BY DEF world, Marked, Fetched

LEMMA StepInv == MtaStsInv /\ [Next]_vars => MtaStsInv'
  <1> SUFFICES ASSUME MtaStsInv, [Next]_vars PROVE MtaStsInv'
    OBVIOUS
  <1>0. TypeOK /\ MarkerInv /\ PolicyInv /\ MatchInv /\ Judged
    BY DEF MtaStsInv
  <1>1. CASE Expire
    <2> USE <1>0, <1>1, WorldStands DEF Expire
    <2>1. TypeOK'
      BY DEF TypeOK, policyPresent
    <2>2. MarkerInv' /\ PolicyInv'
      BY DEF MarkerInv, PolicyInv
    <2>3. MatchInv' /\ Judged'
      BY DEF MatchInv, Judged
    <2> QED
      BY <2>1, <2>2, <2>3 DEF MtaStsInv
  <1>2. CASE TxtAnswers
    <2> USE <1>0, <1>2, WorldStands DEF TxtAnswers
    <2>1. TypeOK'
      BY DEF TypeOK, policyPresent, MatchInv
    <2>2. MarkerInv' /\ PolicyInv'
      BY DEF MarkerInv, PolicyInv, Answers, Marked
    <2>3. MatchInv' /\ Judged'
      BY DEF MatchInv, Judged
    <2> QED
      BY <2>1, <2>2, <2>3 DEF MtaStsInv
  <1>3. CASE TxtFails
    <2> USE <1>0, <1>3, WorldStands DEF TxtFails
    <2>1. TypeOK'
      BY DEF TypeOK, policyPresent
    <2>2. MarkerInv' /\ PolicyInv'
      BY DEF MarkerInv, PolicyInv, Fails
    <2>3. MatchInv' /\ Judged'
      BY DEF MatchInv, Judged
    <2> QED
      BY <2>1, <2>2, <2>3 DEF MtaStsInv
  <1>4. CASE HttpsAnswers
    <2> USE <1>0, <1>4, WorldStands DEF HttpsAnswers
    <2>1. policy' = Fetched /\ policy' \in {NoPolicy, parsePolicy(reply.body)}
      BY DEF Fetched
    <2>2. TypeOK'
      BY <2>1 DEF TypeOK, policyPresent, MatchInv
    <2>3. MarkerInv' /\ PolicyInv'
      BY <2>1 DEF MarkerInv, PolicyInv, Answers
    <2>4. MatchInv' /\ Judged'
      BY DEF MatchInv, Judged
    <2> QED
      BY <2>2, <2>3, <2>4 DEF MtaStsInv
  <1>5. CASE HttpsFails
    <2> USE <1>0, <1>5, WorldStands DEF HttpsFails
    <2>1. TypeOK'
      BY DEF TypeOK, policyPresent
    <2>2. MarkerInv' /\ PolicyInv'
      BY DEF MarkerInv, PolicyInv, Fails
    <2>3. MatchInv' /\ Judged'
      BY DEF MatchInv, Judged, PolicyInv
    <2> QED
      BY <2>1, <2>2, <2>3 DEF MtaStsInv
  <1>6. CASE MxAnswers
    <2> USE <1>0, <1>6, WorldStands DEF MxAnswers
    <2>1. dnsPresent /\ policyPresent
      BY DEF MatchInv, Wanted, policyPresent
    <2>2. TypeOK'
      BY <2>1 DEF TypeOK, policyPresent
    <2>3. MarkerInv' /\ PolicyInv'
      BY DEF MarkerInv, PolicyInv
    <2>4. MatchInv' /\ Judged'
      BY DEF MatchInv, Judged, Answers
    <2> QED
      BY <2>2, <2>3, <2>4 DEF MtaStsInv
  <1>7. CASE MxFails
    <2> USE <1>0, <1>7, WorldStands DEF MxFails
    <2>1. TypeOK'
      BY DEF TypeOK, policyPresent
    <2>2. MarkerInv' /\ PolicyInv'
      BY DEF MarkerInv, PolicyInv
    <2>3. MatchInv' /\ Judged'
      BY DEF MatchInv, Judged, Fails
    <2> QED
      BY <2>1, <2>2, <2>3 DEF MtaStsInv
  <1>8. CASE Judge
    <2> USE <1>0, <1>8, WorldStands DEF Judge
    <2>1. status' \in {"present", "absent", "misconfigured"}
      <3>1. dnsPresent \in BOOLEAN /\ policyPresent \in BOOLEAN
        BY DEF TypeOK, policyPresent
      <3> QED
        BY <3>1 DEF MtaStsVerdict
    <2>2. TypeOK'
      BY <2>1 DEF TypeOK, policyPresent
    <2>3. MarkerInv' /\ PolicyInv'
      BY DEF MarkerInv, PolicyInv
    <2>4. MatchInv'
      BY DEF MatchInv
    <2>5. Judged'
      BY DEF Judged, policyPresent, ModeRead
    <2> QED
      BY <2>2, <2>3, <2>4, <2>5 DEF MtaStsInv
  <1>9. CASE UNCHANGED vars
    <2> USE <1>0, <1>9, WorldStands DEF vars
    <2>1. TypeOK'
      BY DEF TypeOK, policyPresent
    <2>2. MarkerInv' /\ PolicyInv'
      BY DEF MarkerInv, PolicyInv
    <2>3. MatchInv'
      BY DEF MatchInv
    <2>4. Judged'
      BY DEF Judged, policyPresent, ModeRead
    <2> QED
      BY <2>1, <2>2, <2>3, <2>4 DEF MtaStsInv
  <1> QED
    BY <1>1, <1>2, <1>3, <1>4, <1>5, <1>6, <1>7, <1>8, <1>9 DEF Next, Terminated

LEMMA MtaStsInvariant == Spec => []MtaStsInv
  BY InitialInv, StepInv, PTL DEF Spec

-----------------------------------------------------------------------------
(* What follows.                                                           *)

\* What a domain publishes is what the constants say it may.
LEMMA WorldFacts ==
  ASSUME TypeOK
  PROVE  /\ reply.body \in Seq(PolicyLine) /\ mx \in Seq(Name)
         /\ dnsPresent \in BOOLEAN /\ dead \in SUBSET {"txt", "https", "mx"}
  <1> DEFINE d == [txt |-> txt, reply |-> reply, mx |-> mx]
  <1>1. d \in [txt   : Seq({"sts", "other"}),
               reply : [status : Nat, body : Seq(PolicyLine)],
               mx    : Seq(Name)]
    BY MtaStsAssumption DEF TypeOK, PolicyLine
  <1>2. d.reply = reply /\ d.mx = mx
    OBVIOUS
  <1> HIDE DEF d
  <1>3. reply \in [status : Nat, body : Seq(PolicyLine)] /\ mx \in Seq(Name)
    BY <1>1, <1>2
  <1> QED
    BY <1>3 DEF TypeOK

\* A policy that is present was fetched from the domain's host, which publishes one.
LEMMA PolicyIs ==
  ASSUME MtaStsInv, policyPresent
  PROVE  /\ policy = parsePolicy(reply.body) /\ Published /\ "https" \notin dead
         /\ policy.mode = <<"none">> <=> LastLine("mode", <<"none">>)
  <1>1. policy # NoPolicy
    BY DEF policyPresent, NoPolicy
  <1>2. policy = Fetched /\ "https" \notin dead
    BY <1>1 DEF MtaStsInv, PolicyInv
  <1>3. policy = parsePolicy(reply.body) /\ reply.status = 200
    BY <1>1, <1>2 DEF Fetched
  <1>4. reply.body \in Seq(PolicyLine)
    BY WorldFacts DEF MtaStsInv
  <1>5. /\ policy.mode # Empty \/ policy.version # Empty <=>
              \E key \in {"mode", "version"} : ValueOf(reply.body, key) # Empty
        /\ policy.mode = <<"none">> <=> LastLine("mode", <<"none">>)
    BY <1>3, <1>4, PolicyFacts
  <1>6. Published
    BY <1>3, <1>4, <1>5, PublishedMeans DEF policyPresent
  <1> QED
    BY <1>2, <1>3, <1>5, <1>6

\* When every request was answered, a policy that is published is present.
LEMMA PublishedIsPresent ==
  ASSUME MtaStsInv, Done, ~expired, dead = {}, Published
  PROVE  policyPresent
  <1>1. reply.body \in Seq(PolicyLine)
    BY WorldFacts DEF MtaStsInv
  <1>2. policy = Fetched
    BY DEF MtaStsInv, PolicyInv, Done
  <1>3. reply.status = 200 /\ \E key \in {"mode", "version"} : ValueOf(reply.body, key) # Empty
    BY <1>1, PublishedMeans
  <1>4. policy = parsePolicy(reply.body)
    BY <1>2, <1>3 DEF Fetched
  <1> QED
    BY <1>1, <1>3, <1>4, PolicyFacts DEF policyPresent

\* When it is called present.
LEMMA PresentMeans ==
  ASSUME MtaStsInv, Done
  PROVE  status = "present" <=>
            dnsPresent /\ policyPresent /\ policy.mode # <<"none">> /\ match # "unmatched"
  <1>1. dnsPresent \in BOOLEAN /\ policyPresent \in BOOLEAN
    BY DEF MtaStsInv, TypeOK, policyPresent
  <1>2. ModeRead = "none" <=> policy.mode = <<"none">>
    BY DEF ModeRead
  <1>3. status = MtaStsVerdict([txt |-> dnsPresent, policy |-> policyPresent,
                                mode |-> ModeRead, mx |-> match])
    BY DEF MtaStsInv, Judged, Done
  <1> HIDE DEF policyPresent, ModeRead
  <1> QED
    BY <1>1, <1>2, <1>3 DEF MtaStsVerdict

\* What the MX check says of a policy that is present.
LEMMA MatchMeans ==
  ASSUME MtaStsInv, dnsPresent, policyPresent
  PROVE  /\ match = "unmatched" => \E i \in DOMAIN mx : \A p \in Patterns : ~Covers(p, mx[i])
         /\ match = "unmatched" => ~Covered
         /\ Done /\ match # "unmatched" /\ ~expired /\ dead = {} => Covered
  <1>1. policy = parsePolicy(reply.body)
    BY PolicyIs
  <1>2. reply.body \in Seq(PolicyLine) /\ mx \in Seq(Name)
    BY WorldFacts DEF MtaStsInv
  <1>3. policy.mx = <<>> <=> Patterns = {}
    BY <1>1, <1>2, PolicyHosts
  <1>4. Unmatched(mx, policy.mx) = <<>> <=> \A i \in DOMAIN mx : \E p \in Patterns : Covers(p, mx[i])
    BY <1>1, <1>2, UnmatchedMeans
  <1>5. Wanted(dnsPresent, policy) <=> policy.mx # <<>>
    BY DEF Wanted, policyPresent
  <1>6. ASSUME match = "unmatched"
        PROVE  /\ \E i \in DOMAIN mx : \A p \in Patterns : ~Covers(p, mx[i])
               /\ ~Covered
    <2>1. Unmatched(mx, policy.mx) # <<>> /\ Wanted(dnsPresent, policy)
      BY <1>6 DEF MtaStsInv, MatchInv
    <2> QED
      BY <1>3, <1>4, <1>5, <2>1 DEF Covered
  <1>7. ASSUME Done, match # "unmatched", ~expired, dead = {}
        PROVE  Covered
    <2>1. CASE match = "matched"
      BY <1>4, <2>1 DEF MtaStsInv, MatchInv, Covered
    <2>2. CASE match = "skipped"
      <3>1. policy.mx = <<>> \/ mx = <<>>
        BY <1>5, <1>7, <2>2 DEF MtaStsInv, MatchInv, Done
      <3>2. mx = <<>> => DOMAIN mx = {}
        OBVIOUS
      <3> QED
        BY <1>3, <3>1, <3>2 DEF Covered
    <2> QED
      BY <1>7, <2>1, <2>2 DEF MtaStsInv, TypeOK
  <1> QED
    BY <1>6, <1>7

\* Every state of the probe is one of those its code can be in
\* (mtasts.go:77-206): the MX check is made only when both halves were found.
THEOREM TypeCorrect == Spec => []TypeOK
  <1>1. MtaStsInv => TypeOK
    BY DEF MtaStsInv
  <1> QED
    BY <1>1, MtaStsInvariant, PTL

\* A domain is called present only with its marker, its policy and no mode=none;
\* when all was answered in time, exactly if each MX host is covered besides, by
\* the rule of RFC 8461 (mtasts.go:186-205, 233-258): any number of patterns,
\* hosts and labels.
THEOREM PresentMeansDeployed == Spec => []PresentIffDeployed
  <1>1. ASSUME MtaStsInv, Done PROVE PresentIffDeployed
    <2> DEFINE halves == Marked /\ Published /\ ~LastLine("mode", <<"none">>)
    <2>1. ASSUME status = "present" PROVE halves /\ {"txt", "https"} \cap dead = {}
      <3>1. dnsPresent /\ policyPresent /\ policy.mode # <<"none">>
        BY <1>1, <2>1, PresentMeans
      <3>2. Published /\ "https" \notin dead /\ ~LastLine("mode", <<"none">>)
        BY <1>1, <3>1, PolicyIs
      <3>3. Marked /\ "txt" \notin dead
        BY <1>1, <3>1 DEF MtaStsInv, MarkerInv
      <3> QED
        BY <3>2, <3>3
    <2>2. ASSUME ~expired, dead = {} PROVE status = "present" <=> halves /\ Covered
      <3>1. ASSUME status = "present" PROVE halves /\ Covered
        BY <1>1, <2>1, <2>2, <3>1, PresentMeans, MatchMeans
      <3>2. ASSUME halves, Covered PROVE status = "present"
        <4>1. policyPresent
          BY <1>1, <2>2, <3>2, PublishedIsPresent
        <4>2. dnsPresent
          BY <1>1, <2>2, <3>2 DEF MtaStsInv, MarkerInv, Done
        <4>3. policy.mode # <<"none">> /\ match # "unmatched"
          BY <1>1, <3>2, <4>1, <4>2, PolicyIs, MatchMeans
        <4> QED
          BY <1>1, <4>1, <4>2, <4>3, PresentMeans
      <3> QED
        BY <3>1, <3>2
    <2> HIDE DEF halves
    <2>3. /\ status = "present" => halves /\ {"txt", "https"} \cap dead = {}
          /\ ~expired /\ dead = {} => (status = "present" <=> halves /\ Covered)
      BY <2>1, <2>2
    <2> QED
      BY <2>3 DEF PresentIffDeployed, halves
  <1>2. MtaStsInv => PresentIffDeployed
    BY <1>1 DEF PresentIffDeployed
  <1> QED
    BY <1>2, MtaStsInvariant, PTL

\* compareMXAgainstPolicy blames no host that is covered, whatever fails or times
\* out (mtasts.go:208-258): matchPattern on trimmed lower-case names is the
\* RFC's rule, for names of any length.
THEOREM BlamesNoCoveredHost == Spec => []MismatchIsReal
  <1>1. ASSUME MtaStsInv, match = "unmatched"
        PROVE  "mx" \notin dead /\ \E i \in DOMAIN mx : \A p \in Patterns : ~Covers(p, mx[i])
    <2>1. dnsPresent /\ policyPresent /\ "mx" \notin dead
      BY <1>1 DEF MtaStsInv, MatchInv, TypeOK
    <2> QED
      BY <1>1, <2>1, MatchMeans
  <1>2. MtaStsInv => MismatchIsReal
    BY <1>1 DEF MismatchIsReal
  <1> QED
    BY <1>2, MtaStsInvariant, PTL

LEMMA TableHas ==
  ASSUME NEW o \in MtaStsObs
  PROVE  <<MtaStsVerdict(o)>> \in VerdictTable["mta-sts"][MtaStsHeard(o)]
  <1>1. MtaStsHeard(o) \in {"answered", "partial", "failed"}
    BY DEF MtaStsHeard
  <1>2. VerdictTable["mta-sts"] = Row(MtaStsObs, LAMBDA w : <<MtaStsVerdict(w)>>, MtaStsHeard)
    BY DEF VerdictTable
  <1>3. VerdictTable["mta-sts"][MtaStsHeard(o)] =
           {<<MtaStsVerdict(w)>> : w \in {x \in MtaStsObs : MtaStsHeard(x) = MtaStsHeard(o)}}
    BY <1>1, <1>2 DEF Row
  <1> QED
    BY <1>3

\* The outcomes Scan supposes of this probe (Verdicts) are those it has
\* (mtasts.go:77-206): all of them when everything was answered, and "absent" when
\* neither half was.
THEOREM TabulatedOutcomes == Spec => []OutcomeAsTabulated
  <1>1. ASSUME MtaStsInv, Done, ~expired, dead = {}
        PROVE  <<status>> \in VerdictTable["mta-sts"]["answered"]
    <2> DEFINE o == [txt |-> dnsPresent, policy |-> policyPresent, mode |-> ModeRead,
                     mx |-> match, txtOk |-> TRUE, httpOk |-> TRUE]
    <2>1. /\ dnsPresent \in BOOLEAN /\ policyPresent \in BOOLEAN
          /\ ModeRead \in {"enforce", "none"}
          /\ match \in {"matched", "unmatched", "skipped"}
          /\ ~(dnsPresent /\ policyPresent) => match = "skipped"
      BY <1>1 DEF MtaStsInv, TypeOK, policyPresent, ModeRead
    <2>2. o \in MtaStsObs /\ MtaStsHeard(o) = "answered"
      BY <2>1 DEF MtaStsObs, MtaStsHeard
    <2>3. MtaStsVerdict(o) = MtaStsVerdict([txt |-> dnsPresent, policy |-> policyPresent,
                                            mode |-> ModeRead, mx |-> match])
      BY DEF MtaStsVerdict
    <2>4. status = MtaStsVerdict(o)
      BY <1>1, <2>3 DEF MtaStsInv, Judged, Done
    <2> HIDE DEF o
    <2> QED
      BY <2>2, <2>4, TableHas
  <1>2. ASSUME MtaStsInv, Done, {"txt", "https"} \subseteq dead
        PROVE  <<status>> \in VerdictTable["mta-sts"]["failed"]
    <2> DEFINE o == [txt |-> FALSE, policy |-> FALSE, mode |-> "enforce",
                     mx |-> "skipped", txtOk |-> FALSE, httpOk |-> FALSE]
    <2>1. ~dnsPresent /\ ~policyPresent
      BY <1>2, PolicyIs DEF MtaStsInv, MarkerInv
    <2>2. o \in MtaStsObs /\ MtaStsHeard(o) = "failed"
      BY DEF MtaStsObs, MtaStsHeard
    <2>3. status = MtaStsVerdict(o)
      BY <1>2, <2>1 DEF MtaStsInv, Judged, Done, MtaStsVerdict
    <2> HIDE DEF o
    <2> QED
      BY <2>2, <2>3, TableHas
  <1>3. MtaStsInv => OutcomeAsTabulated
    BY <1>1, <1>2 DEF OutcomeAsTabulated
  <1> QED
    BY <1>3, MtaStsInvariant, PTL
=============================================================================
