---------------------------- MODULE Dkim_proofs ----------------------------
(***************************************************************************)
(* Proofs about the DKIM probe, for every list of selectors, every set of  *)
(* inference rules, every --dkim-concurrency and every zone.               *)
(***************************************************************************)
EXTENDS DkimFanOut, Pick_proofs

-----------------------------------------------------------------------------
(* The pure parts.                                                         *)

\* FirstOf returns the first record of one of the kinds, if there is one.
LEMMA FirstOfIsFirst ==
  ASSUME NEW records \in Seq(Kind), NEW kinds
  PROVE  \/ /\ \A i \in DOMAIN records : records[i] \notin kinds
            /\ FirstOf(records, kinds) = "none"
         \/ \E i \in DOMAIN records :
               /\ records[i] \in kinds
               /\ \A j \in 1 .. i - 1 : records[j] \notin kinds
               /\ FirstOf(records, kinds) = records[i]
  <1> DEFINE hits == {i \in DOMAIN records : records[i] \in kinds}
  <1>1. CASE hits = {}
    BY <1>1 DEF FirstOf
  <1>2. CASE hits # {}
    <2>1. PICK i \in hits : Picked(records, hits)[1] = records[i] /\ \A j \in hits : i <= j
      <3>1. hits \in SUBSET (DOMAIN records)
        OBVIOUS
      <3> HIDE DEF hits
      <3> QED
        BY <1>2, <3>1, FirstPicked
    <2>2. FirstOf(records, kinds) = records[i]
      BY <1>2, <2>1 DEF FirstOf
    <2>3. i \in 1 .. Len(records) /\ Len(records) \in Nat
      OBVIOUS
    <2>4. \A j \in 1 .. i - 1 : records[j] \notin kinds
      BY <2>1, <2>3
    <2> QED
      BY <2>1, <2>2, <2>4
  <1> QED
    BY <1>1, <1>2

\* The record runOne picks is in force exactly if the zone has the selector live.
LEMMA HitIsLive ==
  ASSUME NEW records \in Seq(Kind)
  PROVE  /\ Hit(records) \in Kind \cup {"none"}
         /\ Hit(records) \in InForce <=> LiveAt(records)
  <1> DEFINE versioned == FirstOf(records, {"key", "revoked"})
             bare == FirstOf(records, {"bare-key", "bare-revoked"})
  <1>0. \A i \in DOMAIN records : i \in 1 .. Len(records) /\ records[i] \in Kind
    OBVIOUS
  <1>1. CASE \A i \in DOMAIN records : records[i] \notin {"key", "revoked"}
    <2>1. versioned = "none"
      BY <1>0, <1>1, FirstOfIsFirst
    <2>2. Hit(records) = bare
      BY <2>1 DEF Hit
    <2>3. CASE /\ \A i \in DOMAIN records : records[i] \notin {"bare-key", "bare-revoked"}
               /\ bare = "none"
      BY <1>1, <2>2, <2>3 DEF InForce, LiveAt
    <2>4. ASSUME NEW i \in DOMAIN records,
                 records[i] \in {"bare-key", "bare-revoked"},
                 \A j \in 1 .. i - 1 : records[j] \notin {"bare-key", "bare-revoked"},
                 bare = records[i]
          PROVE  Hit(records) \in InForce <=> LiveAt(records)
      <3>1. CASE records[i] = "bare-key"
        BY <1>1, <2>2, <2>4, <3>1 DEF InForce, LiveAt
      <3>2. CASE records[i] = "bare-revoked"
        <4>1. ASSUME NEW k \in DOMAIN records, records[k] = "bare-key"
              PROVE  i \in 1 .. k - 1
          BY <1>0, <2>4, <3>2, <4>1
        <4>2. ~LiveAt(records)
          BY <1>1, <3>2, <4>1 DEF LiveAt
        <4> QED
          BY <2>2, <2>4, <3>2, <4>2 DEF InForce
      <3> QED
        BY <2>4, <3>1, <3>2
    <2>5. Hit(records) \in Kind \cup {"none"}
      BY <1>0, <2>2, FirstOfIsFirst
    <2> QED
      BY <2>3, <2>4, <2>5, FirstOfIsFirst
  <1>2. CASE \E i \in DOMAIN records : records[i] \in {"key", "revoked"}
    <2>1. PICK i \in DOMAIN records :
             /\ records[i] \in {"key", "revoked"}
             /\ \A j \in 1 .. i - 1 : records[j] \notin {"key", "revoked"}
             /\ versioned = records[i]
      BY <1>2, FirstOfIsFirst
    <2>2. Hit(records) = records[i]
      BY <2>1 DEF Hit
    <2>3. CASE records[i] = "key"
      BY <2>1, <2>2, <2>3 DEF InForce, LiveAt
    <2>4. CASE records[i] = "revoked"
      <3>1. ASSUME NEW k \in DOMAIN records, records[k] = "key"
            PROVE  i \in 1 .. k - 1
        BY <1>0, <2>1, <2>4, <3>1
      <3>2. ~LiveAt(records)
        BY <2>4, <3>1 DEF LiveAt
      <3> QED
        BY <1>0, <2>2, <2>4, <3>2 DEF InForce
    <2> QED
      BY <1>0, <2>1, <2>2, <2>3, <2>4
  <1> QED
    BY <1>1, <1>2

-----------------------------------------------------------------------------
(* The list of selectors.                                                  *)

\* The selectors are finitely many, and a list without repetitions is no longer.
LEMMA SelectorFinite == IsFiniteSet(Selector) /\ Cardinality(Selector) \in Nat
  <1> DEFINE configured == {Base[i] : i \in DOMAIN Base}
             added == {Rules[r].add : r \in DOMAIN Rules}
  <1>1. IsFiniteSet(configured)
    <2>1. Base \in Surjection(DOMAIN Base, configured)
      BY DkimAssumption DEF Surjection
    <2>2. IsFiniteSet(DOMAIN Base)
      BY DkimAssumption, FS_Interval
    <2> QED
      BY <2>1, <2>2, FS_Surjection
  <1>2. IsFiniteSet(added)
    <2>1. Added \in Surjection(DOMAIN Rules, added)
      BY DEF Surjection, Added
    <2>2. IsFiniteSet(DOMAIN Rules)
      BY DkimAssumption, FS_Interval
    <2> QED
      BY <2>1, <2>2, FS_Surjection
  <1>3. IsFiniteSet(Selector)
    BY <1>1, <1>2, FS_Union DEF Selector
  <1> QED
    BY <1>3, FS_CardinalityType

LEMMA DistinctIsShort ==
  ASSUME NEW s \in Seq(Selector), \A i, j \in DOMAIN s : s[i] = s[j] => i = j
  PROVE  Len(s) <= Cardinality(Selector)
  <1>1. s \in Injection(1 .. Len(s), Selector) /\ Len(s) \in Nat
    BY DEF Injection, IsInjective
  <1>2. Cardinality(1 .. Len(s)) <= Cardinality(Selector)
    BY <1>1, SelectorFinite, FS_Injection
  <1>3. Cardinality(1 .. Len(s)) = IF 1 > Len(s) THEN 0 ELSE Len(s) - 1 + 1
    BY <1>1, FS_Interval, SMTT(40)
  <1> QED
    BY <1>1, <1>2, <1>3

\* What the rules add for a set of targets.
ImpliedSet(t) == {Rules[r].add : r \in {q \in DOMAIN Rules : Rules[q].match \in t}}

LEMMA ImpliedElements ==
  ASSUME NEW t
  PROVE  /\ Implied(t) \in Seq(Selector)
         /\ \A k \in DOMAIN Implied(t) : Implied(t)[k] \in ImpliedSet(t)
         /\ \A x \in ImpliedSet(t) : \E k \in DOMAIN Implied(t) : Implied(t)[k] = x
  <1> DEFINE F == Firsts(Added, Matching(t))
  <1>1. Added \in Seq(Selector) /\ DOMAIN Added = DOMAIN Rules
    BY DkimAssumption DEF Added, Selector
  <1>2. Matching(t) \in SUBSET (DOMAIN Added) /\ F \in SUBSET (DOMAIN Added)
    BY <1>1 DEF Matching, Firsts
  <1>3. /\ Implied(t) \in Seq(Selector)
        /\ DOMAIN Implied(t) = 1 .. Cardinality(F)
        /\ \A k \in 1 .. Cardinality(F) : \E i \in F : Implied(t)[k] = Added[i]
    BY <1>1, <1>2, PickedElements DEF Implied
  <1>4. \A i \in F : Added[i] \in ImpliedSet(t)
    BY DEF Firsts, Matching, Added, ImpliedSet
  <1>5. \A i \in Matching(t) : \E k \in 1 .. Cardinality(F) : Implied(t)[k] = Added[i]
    BY <1>1, <1>2, FirstsAreDistinct DEF Implied
  <1>6. \A x \in ImpliedSet(t) : \E i \in Matching(t) : x = Added[i]
    BY DEF Matching, Added, ImpliedSet
  <1> QED
    BY <1>3, <1>4, <1>5, <1>6

\* The list the scan goes by: the configured selectors, then the implied ones
\* that are not among them.
LEMMA MergedElements ==
  ASSUME NEW t
  PROVE  LET merged == dedupe(Base \o Implied(t))
         IN  /\ merged \in Seq(Selector)
             /\ \A i, j \in DOMAIN merged : merged[i] = merged[j] => i = j
             /\ \A i \in DOMAIN Base : i \in DOMAIN merged /\ merged[i] = Base[i]
             /\ \A k \in DOMAIN merged : k > Len(Base) => merged[k] \in ImpliedSet(t)
             /\ \A x \in ImpliedSet(t) : \E k \in DOMAIN merged : merged[k] = x
  <1> DEFINE c == Base \o Implied(t)
             F == Firsts(c, DOMAIN c)
             merged == dedupe(c)
             n == Len(Base)
  <1>0. /\ Base \in Seq(Selector) /\ Implied(t) \in Seq(Selector) /\ n \in Nat
        /\ DOMAIN Base = 1 .. n
    BY DkimAssumption, ImpliedElements
  <1>1. /\ c \in Seq(Selector) /\ Len(c) \in Nat /\ DOMAIN c = 1 .. Len(c) /\ n <= Len(c)
        /\ \A i \in DOMAIN Base : i \in DOMAIN c /\ c[i] = Base[i]
        /\ \A i \in DOMAIN c : i > n => i - n \in DOMAIN Implied(t) /\ c[i] = Implied(t)[i - n]
        /\ \A k \in DOMAIN Implied(t) : k + n \in DOMAIN c /\ c[k + n] = Implied(t)[k]
    BY <1>0
  <1>2. F \in SUBSET (DOMAIN c) /\ F \in SUBSET (1 .. Len(c))
    BY <1>1 DEF Firsts
  <1> HIDE DEF c
  <1>3. /\ merged \in Seq(Selector)
        /\ DOMAIN merged = 1 .. Cardinality(F)
        /\ \A k \in 1 .. Cardinality(F) :
              \E i \in F : Cardinality(Below(F, i)) = k - 1 /\ merged[k] = c[i]
        /\ \A i \in F :
              /\ Cardinality(Below(F, i)) + 1 \in 1 .. Cardinality(F)
              /\ merged[Cardinality(Below(F, i)) + 1] = c[i]
    BY <1>1, <1>2, PickedElements DEF dedupe
  <1>4. /\ \A i, j \in DOMAIN merged : merged[i] = merged[j] => i = j
        /\ \A i \in DOMAIN c : \E k \in DOMAIN merged : merged[k] = c[i]
    <2>1. merged = Picked(c, F)
      BY DEF dedupe
    <2>2. DOMAIN c \in SUBSET (DOMAIN c)
      OBVIOUS
    <2>3. /\ \A k, l \in 1 .. Cardinality(F) : Picked(c, F)[k] = Picked(c, F)[l] => k = l
          /\ \A i \in DOMAIN c : \E k \in 1 .. Cardinality(F) : Picked(c, F)[k] = c[i]
      BY <1>1, <2>2, FirstsAreDistinct
    <2> HIDE DEF merged, F
    <2> QED
      BY <1>3, <2>1, <2>3
  <1>5. \A i \in 1 .. n : i \in F
    <2> SUFFICES ASSUME NEW i \in 1 .. n, NEW j \in DOMAIN c, c[j] = c[i], j < i
                 PROVE  FALSE
      BY <1>1 DEF Firsts
    <2>1. j \in DOMAIN Base /\ i \in DOMAIN Base /\ Base[j] = Base[i]
      BY <1>0, <1>1
    <2> QED
      BY <2>1, DkimAssumption
  <1>6. \A i \in 1 .. n : Cardinality(Below(F, i)) = i - 1
    <2> TAKE i \in 1 .. n
    <2>1. Below(F, i) = 1 .. i - 1
      BY <1>0, <1>1, <1>2, <1>5 DEF Below
    <2>2. Cardinality(1 .. i - 1) = IF 1 > i - 1 THEN 0 ELSE i - 1 - 1 + 1
      BY <1>0, FS_Interval
    <2> QED
      BY <1>0, <2>1, <2>2
  <1>7. \A i \in DOMAIN Base : i \in DOMAIN merged /\ merged[i] = Base[i]
    <2> TAKE i \in DOMAIN Base
    <2>1. i \in F /\ Cardinality(Below(F, i)) + 1 = i
      BY <1>0, <1>5, <1>6
    <2> QED
      BY <1>1, <1>3, <2>1
  <1>8. ASSUME NEW k \in DOMAIN merged, k > n PROVE merged[k] \in ImpliedSet(t)
    <2>1. PICK i \in F : Cardinality(Below(F, i)) = k - 1 /\ merged[k] = c[i]
      BY <1>3
    <2>2. i \in DOMAIN c /\ ~(i <= n)
      BY <1>0, <1>1, <1>2, <1>3, <1>6, <1>8, <2>1
    <2>3. i > n
      BY <1>0, <1>1, <2>2
    <2> QED
      BY <1>1, <2>1, <2>2, <2>3, ImpliedElements
  <1>9. ASSUME NEW x \in ImpliedSet(t) PROVE \E k \in DOMAIN merged : merged[k] = x
    <2>1. PICK k \in DOMAIN Implied(t) : Implied(t)[k] = x
      BY ImpliedElements
    <2> QED
      BY <1>1, <1>4, <2>1
  <1> QED
    BY <1>3, <1>4, <1>7, <1>8, <1>9 DEF c

-----------------------------------------------------------------------------
(* The inductive invariant.                                                *)

\* What is in the slot of a lookup that is back, against the world.
Observed(i) ==
    \/ /\ results[i] = [ok |-> TRUE, hit |-> Hit(zone[selectors[i]])]
       /\ selectors[i] \notin dead
    \/ /\ results[i] = [ok |-> FALSE, hit |-> "none"]
       /\ selectors[i] \in dead \/ expired

\* The loop has handed out exactly the slots below next; one that is not under
\* way has its result, and the verdict counts the results of all of them.
DkimInv ==
    /\ TypeOK
    /\ pc = "infer" => selectors = Base /\ next = 1
    /\ EverySelectorIsTried
    /\ \A i \in Slot : i >= next => results[i] = NoResult
    /\ \A i \in running : i < next /\ results[i] = NoResult
    /\ \A i \in Tried \ running : i < next => Observed(i)
    /\ Done => AllIn /\ feature.status = DkimVerdict(Tally)

\* Facts that hold in every state of the right type.
LEMMA SlotFacts ==
  ASSUME TypeOK
  PROVE  /\ Len(selectors) \in Nat /\ Tried \subseteq Slot
         /\ DOMAIN selectors = Tried
         /\ \A i \in Tried : selectors[i] \in Selector /\ zone[selectors[i]] \in Seq(Kind)
  BY SelectorFinite, DkimAssumption DEF TypeOK, Tried, Slot

LEMMA InitDkimInv == Init => DkimInv
  <1> SUFFICES ASSUME Init PROVE DkimInv
    OBVIOUS
  <1> USE DEF Init
  <1>1. Len(Base) \in Nat /\ Len(Base) <= Cardinality(Selector)
    BY DkimAssumption, DistinctIsShort
  <1>2. TypeOK
    <2>1. selectors \in Seq(Selector) /\ Len(selectors) <= Cardinality(Selector)
      BY <1>1, DkimAssumption
    <2>2. next \in 1 .. Len(selectors) + 1 /\ inferred \in Seq(Selector)
      BY <1>1
    <2>3. results \in [Slot -> Result \cup {NoResult}]
      OBVIOUS
    <2> QED
      BY <2>1, <2>2, <2>3 DEF TypeOK
  <1>3. EverySelectorIsTried
    BY DEF EverySelectorIsTried
  <1>4. \A i \in Tried : ~(i < next)
    BY <1>1 DEF Tried
  <1> QED
    BY <1>2, <1>3, <1>4 DEF DkimInv, Done

\* The list after inference, whether the SPF record could be had or not.
LEMMA MergedList ==
  ASSUME DkimInv, InferHears
  PROVE  /\ selectors' \in Seq(Selector) /\ Len(selectors') <= Cardinality(Selector)
         /\ inferred' \in Seq(Selector)
         /\ EverySelectorIsTried'
  <1> DEFINE merged == dedupe(Base \o Implied(targets))
  <1>1. selectors = Base /\ pc' = "scan" /\ UNCHANGED <<expired, world>>
    BY DEF DkimInv, InferHears
  <1>2. inferred' \in Seq(Selector)
    BY ImpliedElements DEF InferHears
  <1>3. /\ selectors' \in Seq(Selector)
        /\ \A i, j \in DOMAIN selectors' : selectors'[i] = selectors'[j] => i = j
        /\ \A i \in DOMAIN Base : i \in DOMAIN selectors' /\ selectors'[i] = Base[i]
        /\ \A k \in DOMAIN selectors' : k > Len(Base) => selectors'[k] \in ImpliedSet(targets)
        /\ \A x \in ImpliedSet(targets) : \E k \in DOMAIN selectors' : selectors'[k] = x
    <2>1. CASE Implied(targets) = <<>>
      <3>1. selectors' = Base
        BY <1>1, <2>1 DEF InferHears
      <3>2. ImpliedSet(targets) = {}
        BY <2>1, ImpliedElements
      <3>3. DOMAIN Base = 1 .. Len(Base) /\ Len(Base) \in Nat
        BY DkimAssumption
      <3>4. \A k \in DOMAIN Base : ~(k > Len(Base))
        BY <3>3
      <3> QED
        BY <3>1, <3>2, <3>4, DkimAssumption
    <2>2. CASE Implied(targets) # <<>>
      <3>1. selectors' = merged
        BY <1>1, <2>2 DEF InferHears
      <3> QED
        BY <3>1, MergedElements
    <2> QED
      BY <2>1, <2>2
  <1>4. Len(selectors') <= Cardinality(Selector)
    BY <1>3, DistinctIsShort
  <1>5. EverySelectorIsTried'
    <2>1. DOMAIN selectors' = Tried'
      BY <1>3 DEF Tried
    <2>2. targets' = targets
      BY <1>1 DEF world
    <2> QED
      BY <1>3, <2>1, <2>2 DEF EverySelectorIsTried, ImpliedSet
  <1> QED
    BY <1>2, <1>3, <1>4, <1>5

\* A step of a lookup: the slot of i, under way until now, is filled.
LEMMA SlotFilled ==
  ASSUME DkimInv, NEW i \in Tried, Hears(i) \/ Fails(i)
  PROVE  DkimInv'
  <1> DEFINE r == results'[i]
  <1>0. /\ i \in running /\ i < next /\ results[i] = NoResult /\ i \in Slot
        /\ running' = running \ {i}
        /\ UNCHANGED <<pc, selectors, inferred, next, expired, feature, world>>
        /\ zone[selectors[i]] \in Seq(Kind)
    BY SlotFacts DEF DkimInv, Hears, Fails
  <1>1. PICK v \in Result : /\ results' = [results EXCEPT ![i] = v]
                           /\ \/ /\ v = [ok |-> TRUE, hit |-> Hit(zone[selectors[i]])]
                                 /\ selectors[i] \notin dead
                              \/ /\ v = [ok |-> FALSE, hit |-> "none"]
                                 /\ selectors[i] \in dead \/ expired
    <2>1. CASE Hears(i)
      <3>1. [ok |-> TRUE, hit |-> Hit(zone[selectors[i]])] \in Result
        BY <1>0, HitIsLive DEF Result
      <3> QED
        BY <2>1, <3>1 DEF Hears, MayAnswer
    <2>2. CASE Fails(i)
      BY <2>2 DEF Fails, MayFail, Result
    <2> QED
      BY <2>1, <2>2
  <1>2. r = v /\ \A j \in Slot \ {i} : results'[j] = results[j]
    BY <1>0, <1>1 DEF DkimInv, TypeOK
  <1>3. TypeOK'
    BY <1>0, <1>1 DEF DkimInv, TypeOK, Tried, world
  <1>4. EverySelectorIsTried'
    BY <1>0 DEF DkimInv, EverySelectorIsTried, Tried, world
  <1>5. Tried' = Tried /\ Tried \subseteq Slot /\ next \in Int
    BY <1>0, SlotFacts DEF DkimInv, Tried, TypeOK
  <1>6. \A j \in Slot : j >= next' => results'[j] = NoResult
    BY <1>0, <1>2, <1>5 DEF DkimInv, Slot
  <1>7. \A j \in running' : j < next' /\ results'[j] = NoResult
    BY <1>0, <1>2, <1>5 DEF DkimInv, TypeOK
  <1>8. \A j \in Tried' \ running' : j < next' => Observed(j)'
    BY <1>0, <1>1, <1>2, <1>5 DEF DkimInv, Observed, world
  <1>9. pc # "done"
    BY <1>0 DEF DkimInv, Done, AllIn
  <1> QED
    BY <1>0, <1>3, <1>4, <1>6, <1>7, <1>8, <1>9 DEF DkimInv, Done

LEMMA StepDkimInv == DkimInv /\ [Next]_vars => DkimInv'
  <1> SUFFICES ASSUME DkimInv, [Next]_vars PROVE DkimInv'
    OBVIOUS
  <1>0. /\ Len(selectors) \in Nat /\ Tried \subseteq Slot
        /\ next \in 1 .. Len(selectors) + 1
    BY SlotFacts DEF DkimInv, TypeOK
  <1>1. CASE Expire
    <2> USE <1>1 DEF Expire
    <2>1. TypeOK'
      BY DEF DkimInv, TypeOK, Tried, world
    <2>2. EverySelectorIsTried'
      BY DEF DkimInv, EverySelectorIsTried, Tried, world
    <2>3. \A i \in Tried' \ running' : i < next' => Observed(i)'
      BY DEF DkimInv, Observed, Tried, world
    <2> QED
      BY <2>1, <2>2, <2>3 DEF DkimInv, Done
  <1>2. CASE InferHears
    <2>1. TypeOK'
      BY <1>2, MergedList DEF InferHears, DkimInv, TypeOK, Tried, world
    <2>2. next' = 1 /\ pc' = "scan" /\ results' = results /\ running' = running
      BY <1>2 DEF InferHears, DkimInv
    <2>3. \A i \in Tried' : ~(i < next')
      BY <2>1, <2>2, SlotFacts DEF TypeOK, Tried
    <2> QED
      BY <1>2, <2>1, <2>2, <2>3, MergedList DEF DkimInv, Done, InferHears
  <1>3. CASE InferSkips
    <2> USE <1>3 DEF InferSkips
    <2>1. TypeOK'
      BY DEF DkimInv, TypeOK, Tried, world
    <2>2. EverySelectorIsTried'
      BY <1>0, DkimAssumption
      DEF DkimInv, EverySelectorIsTried, Tried, world, MayFail
    <2>3. \A i \in Tried' \ running' : i < next' => Observed(i)'
      BY DEF DkimInv, Observed, Tried, world
    <2> QED
      BY <2>1, <2>2, <2>3 DEF DkimInv, Done
  <1>4. CASE Go
    <2> USE <1>4 DEF Go
    <2>1. TypeOK'
      BY <1>0 DEF DkimInv, TypeOK, Tried, world
    <2>2. EverySelectorIsTried'
      BY DEF DkimInv, EverySelectorIsTried, Tried, world
    <2>3. results[next] = NoResult
      BY <1>0 DEF DkimInv
    <2>4. \A i \in running' : i < next' /\ results'[i] = NoResult
      BY <1>0, <2>3 DEF DkimInv, TypeOK, Tried
    <2>5. \A i \in Slot : i >= next' => results'[i] = NoResult
      BY <1>0 DEF DkimInv, Slot
    <2>6. \A i \in Tried' \ running' : i < next' => Observed(i)'
      BY <1>0 DEF DkimInv, Observed, Tried, world
    <2> QED
      BY <2>1, <2>2, <2>4, <2>5, <2>6 DEF DkimInv, Done
  <1>5. ASSUME NEW i \in Tried, Hears(i) \/ Fails(i) PROVE DkimInv'
    BY <1>5, SlotFilled
  <1>6. CASE Judge
    <2> USE <1>6 DEF Judge
    <2>1. TypeOK'
      BY DEF DkimInv, TypeOK, Tried, world
    <2>2. EverySelectorIsTried'
      BY DEF DkimInv, EverySelectorIsTried, Tried, world
    <2>3. \A i \in Tried' \ running' : i < next' => Observed(i)'
      BY DEF DkimInv, Observed, Tried, world
    <2>4. AllIn' /\ feature'.status = DkimVerdict(Tally')
      BY DEF AllIn, Tally, AnsweredSlots, HitSlots, LiveSlots, Tried, DkimVerdict
    <2> QED
      BY <2>1, <2>2, <2>3, <2>4 DEF DkimInv, Done
  <1>7. CASE UNCHANGED vars
    <2> USE <1>7 DEF vars
    <2>1. TypeOK'
      BY DEF DkimInv, TypeOK, Tried, world
    <2>2. EverySelectorIsTried'
      BY DEF DkimInv, EverySelectorIsTried, Tried, world
    <2>3. \A i \in Tried' \ running' : i < next' => Observed(i)'
      BY DEF DkimInv, Observed, Tried, world
    <2>4. Done' => AllIn' /\ feature'.status = DkimVerdict(Tally')
      BY DEF DkimInv, Done, AllIn, Tally, AnsweredSlots, HitSlots, LiveSlots, Tried, DkimVerdict
    <2> QED
      BY <2>1, <2>2, <2>3, <2>4 DEF DkimInv
  <1> QED
    BY <1>1, <1>2, <1>3, <1>4, <1>5, <1>6, <1>7 DEF Next, Terminated

\* The invariant holds throughout.
THEOREM DkimInvariant == Spec => []DkimInv
  BY InitDkimInv, StepDkimInv, PTL DEF Spec

-----------------------------------------------------------------------------
(* What follows.                                                           *)

\* Every variable stays of its type: the implied selectors fit the slots.
THEOREM TypeCorrect == Spec => []TypeOK
  <1>1. DkimInv => TypeOK
    BY DEF DkimInv
  <1> QED
    BY <1>1, DkimInvariant, PTL

\* dkim.go:148-155, 428-443: the configured list, then what the SPF record
\* implies, each selector once.
THEOREM SelectorsAreTried == Spec => []EverySelectorIsTried
  <1>1. DkimInv => EverySelectorIsTried
    BY DEF DkimInv
  <1> QED
    BY <1>1, DkimInvariant, PTL

\* Once the probe is done every slot of the call holds an observation.
LEMMA AllObserved ==
  ASSUME DkimInv, Done
  PROVE  \A i \in Tried : Observed(i)
  BY SlotFacts DEF DkimInv, AllIn, TypeOK, Tried

\* What an observation says, field by field.
LEMMA ObservedFields ==
  ASSUME TypeOK, NEW i \in Tried, Observed(i)
  PROVE  /\ results[i].ok => /\ results[i].hit = Hit(zone[selectors[i]])
                             /\ selectors[i] \notin dead
         /\ results[i].hit # "pending"
         /\ results[i] # NoResult
  <1>1. Hit(zone[selectors[i]]) \in Kind \cup {"none"}
    BY SlotFacts, HitIsLive
  <1>2. Hit(zone[selectors[i]]) # "pending"
    BY <1>1 DEF Kind
  <1>3. NoResult.hit = "pending"
    BY DEF NoResult
  <1>4. CASE results[i] = [ok |-> TRUE, hit |-> Hit(zone[selectors[i]])]
    <2>1. results[i].hit = Hit(zone[selectors[i]]) /\ results[i].ok = TRUE
      BY <1>4
    <2>2. selectors[i] \notin dead
      BY <2>1 DEF Observed
    <2> QED
      BY <1>2, <1>3, <2>1, <2>2
  <1>5. CASE results[i] = [ok |-> FALSE, hit |-> "none"]
    <2>1. results[i].hit = "none" /\ results[i].ok = FALSE
      BY <1>5
    <2> QED
      BY <1>3, <2>1
  <1> QED
    BY <1>4, <1>5 DEF Observed

\* The counts of the verdict tell empty sets from others.
LEMMA CountsCount ==
  ASSUME TypeOK
  PROVE  /\ Cardinality(AnsweredSlots) \in Nat
         /\ Cardinality(HitSlots) \in Nat
         /\ Cardinality(LiveSlots) \in Nat
         /\ Cardinality(AnsweredSlots) = 0 <=> AnsweredSlots = {}
         /\ Cardinality(HitSlots) = 0 <=> HitSlots = {}
         /\ Cardinality(LiveSlots) = 0 <=> LiveSlots = {}
  <1>1. ASSUME NEW S \in SUBSET Tried
        PROVE  Cardinality(S) \in Nat /\ (Cardinality(S) = 0 <=> S = {})
    <2>1. IsFiniteSet(S) /\ Cardinality(S) \in Nat
      BY SlotFacts, PositionsFinite DEF Tried
    <2> QED
      BY <2>1, FS_EmptySet
  <1>2. /\ AnsweredSlots \in SUBSET Tried
        /\ HitSlots \in SUBSET Tried
        /\ LiveSlots \in SUBSET Tried
    BY DEF AnsweredSlots, HitSlots, LiveSlots
  <1> QED
    BY <1>1, <1>2

\* The verdict is present exactly if some lookup hit a key in force.
LEMMA PresentMeansLive ==
  ASSUME DkimInv, Done
  PROVE  feature.status = "present" <=> LiveSlots # {}
  <1>1. feature.status = DkimVerdict(Tally)
    BY DEF DkimInv
  <1>2. TypeOK /\ LiveSlots \subseteq HitSlots
    BY DEF DkimInv, LiveSlots
  <1>3. /\ Tally.live = Cardinality(LiveSlots) /\ Tally.live \in Nat
        /\ Tally.hits = Cardinality(HitSlots) /\ Tally.hits \in Nat
    BY <1>2, CountsCount DEF Tally
  <1>4. CASE LiveSlots # {}
    BY <1>1, <1>2, <1>3, <1>4, CountsCount DEF DkimVerdict
  <1>5. CASE LiveSlots = {}
    <2>1. Tally.live = 0 /\ ~(Tally.live > 0)
      BY <1>2, <1>3, <1>5, CountsCount
    <2>2. DkimVerdict(Tally) \in {"absent", "unknown"}
      <3>1. CASE Tally.hits > 0
        BY <2>1, <3>1 DEF DkimVerdict
      <3>2. CASE Tally.hits = 0
        BY <2>1, <3>2 DEF DkimVerdict
      <3> QED
        BY <1>3, <3>1, <3>2
    <2> QED
      BY <1>1, <1>5, <2>2
  <1> QED
    BY <1>4, <1>5

\* dkim.go:253-269: in whatever order lookups come back, and whatever fails,
\* present means that a selector that answers has a key in force, and without
\* a timeout it is never missed.
THEOREM PresentIsDeserved == Spec => []PresentIffLiveKey
  <1>1. ASSUME DkimInv, Done
        PROVE  LET live == {i \in Tried : selectors[i] \notin dead /\ LiveAt(zone[selectors[i]])}
               IN  /\ feature.status = "present" => live # {}
                   /\ live # {} /\ ~expired => feature.status = "present"
    <2>1. TypeOK /\ \A i \in Tried : Observed(i)
      BY <1>1, AllObserved DEF DkimInv
    <2>2. \A i \in Tried : zone[selectors[i]] \in Seq(Kind)
      BY <2>1, SlotFacts
    <2>3. \A i \in LiveSlots : selectors[i] \notin dead /\ LiveAt(zone[selectors[i]])
      BY <2>1, <2>2, HitIsLive, ObservedFields DEF LiveSlots, HitSlots, AnsweredSlots
    <2>4. ASSUME NEW i \in Tried, selectors[i] \notin dead, LiveAt(zone[selectors[i]]), ~expired
          PROVE  i \in LiveSlots
      <3>1. results[i] = [ok |-> TRUE, hit |-> Hit(zone[selectors[i]])]
        BY <2>1, <2>4 DEF Observed
      <3>2. Hit(zone[selectors[i]]) \in InForce
        BY <2>2, <2>4, HitIsLive
      <3> QED
        BY <3>1, <3>2 DEF LiveSlots, HitSlots, AnsweredSlots, InForce
    <2>5. LiveSlots \subseteq Tried
      BY DEF LiveSlots, HitSlots, AnsweredSlots
    <2> QED
      BY <1>1, <2>3, <2>4, <2>5, PresentMeansLive
  <1>2. DkimInv => PresentIffLiveKey
    BY <1>1 DEF PresentIffLiveKey
  <1> QED
    BY <1>2, DkimInvariant, PTL

\* A record that is taken for a key is not just any text.
LEMMA HitIsNoOther ==
  ASSUME NEW records \in Seq(Kind), Hit(records) # "none"
  PROVE  \E k \in DOMAIN records : records[k] # "other"
  <1>1. CASE FirstOf(records, {"key", "revoked"}) # "none"
    <2>1. PICK k \in DOMAIN records : records[k] \in {"key", "revoked"}
      BY <1>1, FirstOfIsFirst
    <2> QED
      BY <2>1
  <1>2. CASE FirstOf(records, {"key", "revoked"}) = "none"
    <2>1. FirstOf(records, {"bare-key", "bare-revoked"}) # "none"
      BY <1>2 DEF Hit
    <2>2. PICK k \in DOMAIN records : records[k] \in {"bare-key", "bare-revoked"}
      BY <2>1, FirstOfIsFirst
    <2> QED
      BY <2>2
  <1> QED
    BY <1>1, <1>2

\* dkim.go:271-319: in whatever order lookups come back, and whatever fails or
\* comes too late, absent rests on lookups that were answered: on half of them
\* but for the rounding of the division, or on a revoked key; as soon as there
\* is more than one selector.
THEOREM AbsenceIsHeard == Spec => []AbsentWasHeard
  <1>1. ASSUME DkimInv, Done, feature.status = "absent", Len(selectors) > 1,
               NEW heard, heard = {i \in Tried : results[i].ok /\ selectors[i] \notin dead}
        PROVE  /\ heard # {}
               /\ \/ 2 * Cardinality(heard) + 1 >= Len(selectors)
                  \/ \E i \in heard : \E k \in DOMAIN zone[selectors[i]] :
                         zone[selectors[i]][k] # "other"
               /\ \A i \in heard : ~LiveAt(zone[selectors[i]])
    <2>1. TypeOK /\ \A i \in Tried : Observed(i)
      BY <1>1, AllObserved DEF DkimInv
    <2>2. \A i \in Tried : zone[selectors[i]] \in Seq(Kind)
      BY <2>1, SlotFacts
    <2>3. heard = AnsweredSlots
      BY <1>1, <2>1, ObservedFields DEF AnsweredSlots
    <2>4. \A i \in heard : i \in Tried /\ results[i].hit = Hit(zone[selectors[i]])
      BY <1>1, <2>1, ObservedFields
    <2>5. LiveSlots = {}
      BY <1>1, PresentMeansLive
    <2>6. \A i \in heard : ~LiveAt(zone[selectors[i]])
      <3>1. \A i \in heard : results[i].hit # "none" => results[i].hit \notin InForce
        BY <2>3, <2>5 DEF LiveSlots, HitSlots
      <3>2. \A i \in heard : Hit(zone[selectors[i]]) \notin InForce
        BY <2>4, <3>1 DEF InForce
      <3> QED
        BY <2>2, <2>4, <3>2, HitIsLive
    <2>7. CASE HitSlots # {}
      <3>1. PICK i \in HitSlots : TRUE
        BY <2>7
      <3>2. i \in heard /\ Hit(zone[selectors[i]]) # "none"
        BY <2>3, <2>4, <3>1 DEF HitSlots
      <3>3. \E k \in DOMAIN zone[selectors[i]] : zone[selectors[i]][k] # "other"
        BY <2>2, <2>4, <3>2, HitIsNoOther
      <3> QED
        BY <2>6, <3>2, <3>3
    <2>8. CASE HitSlots = {}
      <3> DEFINE n == Cardinality(heard)
      <3>1. /\ Tally.answered = n /\ n \in Nat /\ (n = 0 <=> heard = {})
            /\ Tally.hits = 0 /\ Tally.live = 0
            /\ Tally.tried = Len(selectors) /\ Len(selectors) \in Nat
        BY <2>1, <2>3, <2>5, <2>8, CountsCount, SlotFacts DEF Tally
      <3>2. DkimVerdict(Tally) = "absent"
        BY <1>1 DEF DkimInv
      <3> HIDE DEF n
      <3>3. ~(n < Len(selectors) /\ n < Len(selectors) \div 2)
        BY <3>1, <3>2 DEF DkimVerdict
      <3>4. 2 * n + 1 >= Len(selectors) /\ n # 0
        BY <1>1, <3>1, <3>3
      <3> QED
        BY <2>6, <3>1, <3>4 DEF n
    <2> QED
      BY <2>7, <2>8
  <1>2. DkimInv => AbsentWasHeard
    BY <1>1 DEF AbsentWasHeard
  <1> QED
    BY <1>2, DkimInvariant, PTL

-----------------------------------------------------------------------------
(* Dkim implements FanOut.                                                 *)

\* FanOut counts as Dkim does.
LEMMA SameCardinality ==
  ASSUME NEW S PROVE Group!Cardinality(S) = Cardinality(S)
  BY DEF Cardinality, Group!Cardinality

LEMMA RefinesInit == Init => Group!Init
  BY DEF Init, Group!Init

LEMMA RefinesStep == DkimInv /\ DkimInv' /\ [Next]_vars => [Group!Next]_(Group!vars)
  <1> SUFFICES ASSUME DkimInv, DkimInv', [Next]_vars
               PROVE  [Group!Next]_(Group!vars)
    OBVIOUS
  <1>0. /\ Tried \subseteq Slot /\ Tried' \subseteq Slot
        /\ Len(selectors) \in Nat /\ next \in 1 .. Len(selectors) + 1
    <2>1. TypeOK /\ TypeOK'
      BY DEF DkimInv
    <2> QED
      BY <2>1, SelectorFinite DEF TypeOK, Tried, Slot
  <1>1. CASE InferHears \/ InferSkips
    <2>1. Group!Open(Tried')
      BY <1>1 DEF InferHears, InferSkips, Group!Open
    <2> QED
      BY <1>0, <2>1 DEF Group!Next
  <1>2. CASE Go
    <2>1. next \in Tried \ running /\ results[next] = NoResult /\ next \in Slot
      BY <1>0, <1>2 DEF Go, DkimInv
    <2>2. Group!Room(Group!Cardinality(running))
      BY <1>2, SameCardinality DEF Go, Group!Room
    <2>3. Group!Start(next)
      BY <1>2, <2>1, <2>2 DEF Go, Group!Start, Tried
    <2> QED
      BY <2>1, <2>3 DEF Group!Next
  <1>3. ASSUME NEW i \in Tried, Hears(i) \/ Fails(i) PROVE Group!Next
    <2>1. \E v \in Result : results' = [results EXCEPT ![i] = v]
      <3>1. [ok |-> TRUE, hit |-> Hit(zone[selectors[i]])] \in Result
        BY SlotFacts, HitIsLive DEF DkimInv, Result
      <3>2. [ok |-> FALSE, hit |-> "none"] \in Result
        BY DEF Result
      <3> QED
        BY <1>3, <3>1, <3>2 DEF Hears, Fails
    <2>2. Group!Finish(i)
      BY <1>3, <2>1 DEF Hears, Fails, Group!Finish, Tried
    <2> QED
      BY <1>0, <2>2 DEF Group!Next
  <1>4. CASE Judge
    <2>1. \A i \in Tried : results[i] # NoResult
      <3>1. \A i \in Tried : i < next /\ i \notin running
        BY <1>0, <1>4 DEF Judge, AllIn, Tried
      <3> QED
        BY <3>1, ObservedFields DEF DkimInv
    <2>2. Group!Gather
      BY <1>0, <1>4, <2>1 DEF Judge, Group!Gather, Group!Filled, Tried
    <2> QED
      BY <2>2 DEF Group!Next
  <1>5. CASE Expire \/ Terminated \/ UNCHANGED vars
    BY <1>5 DEF Expire, Terminated, vars, Group!vars, Tried
  <1> QED
    BY <1>1, <1>2, <1>3, <1>4, <1>5 DEF Next

\* dkim.go:164-207: the selector lookups keep the contract of a fan-out group,
\* whatever SPF adds to the list and whatever --dkim-concurrency says.
THEOREM DkimIsFanOut == Spec => ImplementsFanOut
  BY RefinesInit, RefinesStep, DkimInvariant, PTL DEF Spec, ImplementsFanOut, Group!Spec
=============================================================================
