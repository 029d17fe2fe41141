--------------------------- MODULE FanOut_proofs ---------------------------
(***************************************************************************)
(* Proofs that FanOut keeps its promises for every set of tasks, every     *)
(* limit and every set of results.                                         *)
(***************************************************************************)
EXTENDS FanOut, FiniteSetTheorems, TLAPS

\* What makes the invariants inductive: a running task has an empty slot, only
\* tasks of the group have results, and an idle group has no task.
IndInv ==
    /\ TypeOK
    /\ AtMostLimit
    /\ running \cap Filled = {}
    /\ Filled \subseteq todo
    /\ phase = "idle" => todo = {}
    /\ phase = "gathered" => todo \subseteq Filled

LEMMA InitIndInv == Init => IndInv
  <1> SUFFICES ASSUME Init PROVE IndInv
    OBVIOUS
  <1>1. TypeOK /\ Filled = {}
    BY FanOutAssumption DEF Init, TypeOK, Phase, Filled
  <1>2. AtMostLimit
    BY FS_EmptySet DEF Init, AtMostLimit
  <1> QED
    BY <1>1, <1>2 DEF Init, IndInv

\* The set of running tasks is finite, so its size counts.
LEMMA RunningFinite == TypeOK => IsFiniteSet(running) /\ Cardinality(running) \in Nat
  <1> SUFFICES ASSUME TypeOK
               PROVE  IsFiniteSet(running) /\ Cardinality(running) \in Nat
    OBVIOUS
  <1>1. running \in SUBSET Task
    BY DEF TypeOK
  <1>2. IsFiniteSet(running)
    BY <1>1, FS_Subset, FanOutAssumption
  <1> QED
    BY <1>2, FS_CardinalityType

LEMMA StepIndInv == IndInv /\ [Next]_vars => IndInv'
  <1> SUFFICES ASSUME IndInv, [Next]_vars PROVE IndInv'
    OBVIOUS
  <1> USE FanOutAssumption DEF IndInv
  <1>0. IsFiniteSet(running) /\ Cardinality(running) \in Nat
    BY RunningFinite
  <1>1. ASSUME NEW S \in SUBSET Task, Open(S) PROVE IndInv'
    BY <1>1 DEF Open, TypeOK, Phase, AtMostLimit, Filled
  <1>2. ASSUME NEW t \in Task, Start(t) PROVE IndInv'
    <2>1. Cardinality(running') = Cardinality(running) + 1
      BY <1>0, <1>2, FS_AddElement DEF Start
    <2>2. AtMostLimit'
      BY <2>1, <1>0, <1>2 DEF AtMostLimit, Start, Room
    <2>3. TypeOK'
      BY <1>2 DEF Start, TypeOK
    <2>4. Filled' = Filled /\ (running \cap Filled = {})'
      BY <1>2 DEF Start, Filled, TypeOK
    <2> QED
      BY <2>2, <2>3, <2>4, <1>2 DEF Start
  <1>3. ASSUME NEW t \in Task, Finish(t) PROVE IndInv'
    <2>1. Cardinality(running') <= Cardinality(running) /\ Cardinality(running') \in Nat
      <3>1. running' \subseteq running
        BY <1>3 DEF Finish
      <3> QED
        BY <3>1, <1>0, FS_Subset, FS_CardinalityType
    <2>2. AtMostLimit'
      BY <2>1, <1>0 DEF AtMostLimit
    <2>3. PICK v \in Value : slot' = [slot EXCEPT ![t] = v]
      BY <1>3 DEF Finish
    <2>4. Filled' = Filled \cup {t}
      BY <2>3 DEF Filled, TypeOK
    <2>5. TypeOK'
      BY <1>3, <2>3 DEF Finish, TypeOK
    <2>6. phase' = phase /\ todo' = todo /\ running' = running \ {t} /\ t \in todo
      BY <1>3 DEF Finish, TypeOK
    <2> QED
      BY <2>2, <2>4, <2>5, <2>6
  <1>4. CASE Gather
    BY <1>4 DEF Gather, TypeOK, Phase, AtMostLimit, Filled
  <1>5. CASE UNCHANGED vars
    BY <1>5 DEF vars, TypeOK, AtMostLimit, Filled
  <1> QED
    BY <1>1, <1>2, <1>3, <1>4, <1>5 DEF Next

\* Every value stays of its type.
THEOREM TypeCorrect == Spec => []TypeOK
  <1>1. IndInv => TypeOK
    BY DEF IndInv
  <1> QED
    BY <1>1, InitIndInv, StepIndInv, PTL DEF Spec

\* errgroup.SetLimit: never more than Limit tasks are in flight.
THEOREM LimitHolds == Spec => []AtMostLimit
  <1>1. IndInv => AtMostLimit
    BY DEF IndInv
  <1> QED
    BY <1>1, InitIndInv, StepIndInv, PTL DEF Spec

\* Wait returns only to a caller that finds every slot of the group filled.
THEOREM GatherIsComplete == Spec => []GatherComplete
  <1>1. IndInv => GatherComplete
    BY DEF IndInv, GatherComplete, TypeOK
  <1> QED
    BY <1>1, InitIndInv, StepIndInv, PTL DEF Spec

\* A result is never overwritten or erased.
THEOREM ResultsAreFinal == Spec => SlotsAreFinal
  <1>1. IndInv /\ [Next]_vars
          => [\A t \in Task : slot[t] # NoValue => slot'[t] = slot[t]]_vars
    BY DEF IndInv, TypeOK, Filled, Next, Open, Start, Finish, Gather, vars
  <1> QED
    BY <1>1, InitIndInv, StepIndInv, PTL DEF Spec, SlotsAreFinal
=============================================================================
