---------------------------- MODULE Scan_proofs ----------------------------
(***************************************************************************)
(* Proofs about Scan, for every number of domains, every --concurrency     *)
(* (zero and negative ones too), every probe list and every table of       *)
(* outcomes.                                                               *)
(***************************************************************************)
EXTENDS ScanFanOut, Pick_proofs, FiniteSetTheorems, TLAPS

-----------------------------------------------------------------------------
(* The inductive invariant: how far main, each goroutine, the slots and the *)
(* contexts are from each other.                                           *)

\* The loop has handed out exactly the domains below next, and none before it
\* starts; Wait has returned only after every goroutine did.
MainInv ==
    /\ \A d \in Domain : pc[d] = "queued" <=> d >= next
    /\ main \in {"setup", "refused"} => next = 1
    /\ Scanned => \A d \in Domain : pc[d] = "done"

\* What the goroutine of domain d has done to d's slots, by where it is.
DomainInv(d) ==
    /\ pc[d] \in {"queued", "spawned"} =>
           perProbe[d] = [i \in Index |-> NoFeatures]
    /\ pc[d] \in {"queued", "spawned", "probing"} => reports[d] = NoReport
    /\ pc[d] \in {"reported", "done"} =>
           AllReturned(d) /\ reports[d] = Report(d, perProbe[d])
    /\ pc[d] = "probing" /\ d \notin late => ctx[d] = "live"

\* No goroutine gives its group an error, so no context ends before its budget.
NoErrors == groupErr = [d \in Domain |-> "nil"] /\ runErr = "nil"

ScanInv ==
    /\ TypeOK
    /\ AtMostLimit
    /\ FailureDoesNotSpread
    /\ MainInv
    /\ NoErrors
    /\ \A d \in Domain : DomainInv(d)

\* Held is a subset of a finite interval, so its size counts.
LEMMA HeldFinite == IsFiniteSet(Held) /\ Cardinality(Held) \in Nat
  <1>1. IsFiniteSet(Domain)
    BY FS_Interval, ScanAssumption DEF Domain
  <1>2. IsFiniteSet(Held)
    BY <1>1, FS_Subset DEF Held
  <1> QED
    BY <1>2, FS_CardinalityType

\* A step that takes no domain into Held keeps the limit.
LEMMA SmallerHeld ==
  ASSUME AtMostLimit, Held' \subseteq Held
  PROVE  AtMostLimit'
  <1>1. Cardinality(Held') <= Cardinality(Held) /\ Cardinality(Held') \in Nat
    BY HeldFinite, FS_Subset, FS_CardinalityType
  <1> QED
    BY <1>1, HeldFinite, ScanAssumption DEF AtMostLimit

\* What a probe writes is one of the values its slot may hold.
LEMMA OutcomeType ==
  ASSUME NEW i \in Index, NEW h \in Heard, NEW o \in Verdict[ProbeList[i]][h]
  PROVE  FeaturesWith(i, o) \in UNION {Outcomes(j) : j \in Index}
  BY DEF Outcomes

LEMMA MayHearType ==
  ASSUME NEW d, NEW i PROVE MayHear(d, i) \subseteq Heard
  BY DEF MayHear, Heard

LEMMA ReportIsNoZero ==
  ASSUME NEW d \in Domain, NEW slots
  PROVE  Report(d, slots) # NoReport /\ Report(d, slots).domain = d
  BY ScanAssumption DEF Report, NoReport, Domain

LEMMA NoErrorsType ==
  ASSUME NoErrors PROVE groupErr \in [Domain -> Error] /\ runErr \in Error
  BY DEF NoErrors, Error

LEMMA StepNoErrors == NoErrors /\ [Next]_vars => NoErrors'
  <1> SUFFICES ASSUME NoErrors, [Next]_vars PROVE NoErrors'
    OBVIOUS
  <1>1. ASSUME UNCHANGED errs PROVE NoErrors'
    BY <1>1 DEF errs, NoErrors
  <1>2. ASSUME NEW d \in Domain, NEW i \in Index, ProbeReturns(d, i) PROVE NoErrors'
    <2>1. groupErr' = [groupErr EXCEPT ![d] = "nil"] /\ runErr' = runErr
      BY <1>2 DEF ProbeReturns, First, ProbeError, NoErrors
    <2> QED
      BY <2>1 DEF NoErrors
  <1>3. ASSUME NEW d \in Domain, Release(d) PROVE NoErrors'
    BY <1>3 DEF Release, First, DomainError, NoErrors
  <1> QED
    BY <1>1, <1>2, <1>3
    DEF Next, MainStep, DomainStep, SetupFails, SetupDone, Go, WaitReturns, WriteReports,
        WriteStats, OutputFails, Decide, Begin, WriteReport, Expire, Terminated, vars, world, errs

LEMMA AllDone ==
  ASSUME ScanInv, WaitReturns PROVE \A d \in Domain : pc[d] = "done"
  <1>1. \A d \in Domain : pc[d] \in Place /\ pc[d] \notin {"spawned", "probing", "reported"}
    BY DEF ScanInv, TypeOK, WaitReturns, Held
  <1>2. \A d \in Domain : pc[d] # "queued"
    BY ScanAssumption DEF ScanInv, TypeOK, WaitReturns, MainInv, Domain
  <1> QED
    BY <1>1, <1>2 DEF Place

LEMMA SameFailures ==
  ASSUME FailureDoesNotSpread, UNCHANGED <<perProbe, late, down, flaky>>
  PROVE  FailureDoesNotSpread'
  BY DEF FailureDoesNotSpread

LEMMA InitScanInv == Init => ScanInv
  <1> SUFFICES ASSUME Init PROVE ScanInv
    OBVIOUS
  <1> USE ScanAssumption DEF Init
  <1>1. TypeOK
    BY DEF TypeOK, Main, Place, Domain, SlotArrays, NoExit, Error
  <1>2. AtMostLimit
    <2>1. Held = {}
      BY DEF Held
    <2> QED
      BY <2>1, FS_EmptySet DEF AtMostLimit
  <1>3. FailureDoesNotSpread
    BY DEF FailureDoesNotSpread
  <1>4. MainInv
    BY DEF MainInv, Scanned, Domain
  <1>5. \A d \in Domain : DomainInv(d)
    BY DEF DomainInv
  <1>6. NoErrors
    BY DEF NoErrors
  <1> QED
    BY <1>1, <1>2, <1>3, <1>4, <1>5, <1>6 DEF ScanInv

LEMMA StepScanInv == ScanInv /\ [Next]_vars => ScanInv'
  <1> SUFFICES ASSUME ScanInv, [Next]_vars PROVE ScanInv'
    OBVIOUS
  <1> USE ScanAssumption DEF ScanInv
  <1>0. NoErrors' /\ groupErr' \in [Domain -> Error] /\ runErr' \in Error
    <2>1. NoErrors'
      BY StepNoErrors
    <2> QED
      BY <2>1 DEF NoErrors, Error
  <1>1. ASSUME \/ SetupFails \/ SetupDone \/ WaitReturns
               \/ \E more \in BOOLEAN : WriteReports(more)
               \/ WriteStats \/ OutputFails \/ Decide
               \/ UNCHANGED vars
        PROVE  ScanInv'
    <2>0. /\ UNCHANGED <<next, pc, ctx, perProbe, reports, late, world>>
          /\ main' \in Main
          /\ exit' \in {NoExit, 0, 1, 2}
      BY <1>1 DEF SetupFails, SetupDone, WaitReturns, WriteReports, WriteStats,
                  OutputFails, Decide, vars, TypeOK, Main
    <2> USE <1>1 DEF SetupFails, SetupDone, WaitReturns, WriteReports, WriteStats,
                     OutputFails, Decide, vars
    <2>1. /\ UNCHANGED <<next, pc, ctx, perProbe, reports, late, down, flaky>>
          /\ main' \in Main /\ exit' \in {NoExit, 0, 1, 2}
      BY <2>0 DEF world
    <2>2. out' \in {<<>>, <<"reports">>, <<"reports", "stats">>}
      BY DEF TypeOK
    <2>3. TypeOK'
      BY <1>0, <2>1, <2>2 DEF TypeOK
    <2>4. AtMostLimit'
      BY <2>1, SmallerHeld DEF Held
    <2>5. FailureDoesNotSpread'
      BY <2>1, SameFailures
    <2>6. MainInv'
      <3>1. Scanned' => \A d \in Domain : pc'[d] = "done"
        <4>1. CASE WaitReturns
          BY <4>1, AllDone DEF WaitReturns
        <4>2. CASE ~WaitReturns
          BY <4>2 DEF TypeOK, MainInv, Scanned, Main
        <4> QED
          BY <4>1, <4>2
      <3> QED
        BY <2>1, <3>1 DEF MainInv, TypeOK, Main
    <2>7. \A d \in Domain : DomainInv(d)'
      BY <2>1 DEF DomainInv, AllReturned
    <2> QED
      BY <1>0, <2>3, <2>4, <2>5, <2>6, <2>7
  <1>2. ASSUME NEW d \in Domain, Go(d) PROVE ScanInv'
    <2> USE <1>2 DEF Go, world, errs
    <2>1. TypeOK'
      BY <1>0 DEF TypeOK, Place, Domain
    <2>2. AtMostLimit'
      <3>1. Held' = Held \cup {d}
        BY DEF Held, TypeOK
      <3>2. d \notin Held
        BY DEF Held, MainInv, TypeOK, Domain
      <3>3. Cardinality(Held') = Cardinality(Held) + 1
        BY <3>1, <3>2, HeldFinite, FS_AddElement
      <3> QED
        BY <3>3, HeldFinite DEF AtMostLimit, Room
    <2>3. FailureDoesNotSpread'
      BY DEF FailureDoesNotSpread
    <2>4. MainInv'
      <3>1. main = "spawn" /\ main' = "spawn"
        OBVIOUS
      <3>2. next \in Int /\ next' = next + 1 /\ d = next /\ \A e \in Domain : e \in Int
        BY ScanAssumption DEF TypeOK, Domain
      <3>3. \A e \in Domain : pc'[e] = "queued" <=> e >= next'
        <4> TAKE e \in Domain
        <4>1. e \in Int /\ (pc[e] = "queued" <=> e >= next)
          BY <3>2 DEF MainInv
        <4>2. pc'[e] = IF e = d THEN "spawned" ELSE pc[e]
          BY DEF TypeOK
        <4> QED
          BY <3>2, <4>1, <4>2
      <3> QED
        BY <3>1, <3>3 DEF MainInv, Scanned
    <2>5. \A e \in Domain : DomainInv(e)'
      BY DEF DomainInv, AllReturned, TypeOK, MainInv, Domain
    <2> QED
      BY <1>0, <2>1, <2>2, <2>3, <2>4, <2>5
  <1>3. ASSUME NEW d \in Domain, Begin(d) PROVE ScanInv'
    <2> USE <1>3 DEF Begin, world, errs
    <2>1. TypeOK'
      BY <1>0 DEF TypeOK, Place
    <2>2. AtMostLimit'
      BY SmallerHeld DEF Held, TypeOK
    <2>3. FailureDoesNotSpread'
      BY DEF FailureDoesNotSpread
    <2>4. MainInv'
      BY DEF MainInv, TypeOK, Scanned
    <2>5. \A e \in Domain : DomainInv(e)'
      BY DEF DomainInv, AllReturned, TypeOK
    <2> QED
      BY <1>0, <2>1, <2>2, <2>3, <2>4, <2>5
  <1>4. ASSUME NEW d \in Domain, NEW i \in Index, ProbeReturns(d, i) PROVE ScanInv'
    <2> USE <1>4 DEF ProbeReturns, world, errs
    <2>a. PICK h \in MayHear(d, i) : \E o \in Verdict[ProbeList[i]][h] :
             perProbe' = [perProbe EXCEPT ![d][i] = FeaturesWith(i, o)]
      OBVIOUS
    <2>1. PICK o \in Verdict[ProbeList[i]][h] :
             perProbe' = [perProbe EXCEPT ![d][i] = FeaturesWith(i, o)]
      BY <2>a
    <2>2. FeaturesWith(i, o) \in UNION {Outcomes(j) : j \in Index}
      BY MayHearType, OutcomeType
    <2>3. perProbe' \in [Domain -> SlotArrays]
      BY <2>1, <2>2 DEF TypeOK, SlotArrays
    <2>4. reports[d] = NoReport
      BY DEF DomainInv
    <2>5. \A e \in Domain \ {d} : perProbe'[e] = perProbe[e]
      BY <2>1 DEF TypeOK
    <2>6. TypeOK'
      BY <1>0, <2>3, <2>4, <2>5 DEF TypeOK
    <2>7. AtMostLimit'
      BY SmallerHeld DEF Held
    <2>8. FailureDoesNotSpread'
      <3> SUFFICES ASSUME NEW e \in Domain \ late, NEW j \in Index
                   PROVE  \/ perProbe'[e][j] = NoFeatures
                          \/ <<e, j>> \in down \cup flaky
                          \/ \E a \in Verdict[ProbeList[j]]["answered"] :
                                perProbe'[e][j] = FeaturesWith(j, a)
        BY DEF FailureDoesNotSpread
      <3>1. CASE e = d /\ j = i
        <4>0. Live(d)
          BY <3>1 DEF Live, NoErrors, DomainInv
        <4>1. <<e, j>> \in down \cup flaky \/ h = "answered"
          BY <3>1, <4>0 DEF MayHear
        <4>2. perProbe'[e][j] = FeaturesWith(i, o)
          BY <2>1, <3>1 DEF TypeOK, SlotArrays
        <4> QED
          BY <3>1, <4>1, <4>2
      <3>2. CASE ~(e = d /\ j = i)
        <4>1. perProbe'[e][j] = perProbe[e][j]
          BY <2>1, <3>2 DEF TypeOK, SlotArrays
        <4> QED
          BY <4>1 DEF FailureDoesNotSpread
      <3> QED
        BY <3>1, <3>2
    <2>9. MainInv'
      BY DEF MainInv, Scanned
    <2>10. \A e \in Domain : DomainInv(e)'
      BY <2>4, <2>5 DEF DomainInv, AllReturned
    <2> QED
      BY <1>0, <2>6, <2>7, <2>8, <2>9, <2>10
  <1>5. ASSUME NEW d \in Domain, WriteReport(d) PROVE ScanInv'
    <2> USE <1>5 DEF WriteReport, SlotOf, world, errs
    <2>1. TypeOK'
      BY <1>0 DEF TypeOK, Place
    <2>2. AtMostLimit'
      BY SmallerHeld DEF Held, TypeOK
    <2>3. FailureDoesNotSpread'
      BY DEF FailureDoesNotSpread
    <2>4. MainInv'
      BY DEF MainInv, TypeOK, Scanned
    <2>5. \A e \in Domain : DomainInv(e)'
      BY DEF DomainInv, AllReturned, TypeOK
    <2> QED
      BY <1>0, <2>1, <2>2, <2>3, <2>4, <2>5
  <1>6. ASSUME NEW d \in Domain, Release(d) PROVE ScanInv'
    <2> USE <1>6 DEF Release, world, errs
    <2>1. TypeOK'
      BY <1>0 DEF TypeOK, Place
    <2>2. AtMostLimit'
      BY SmallerHeld DEF Held, TypeOK
    <2>3. FailureDoesNotSpread'
      BY DEF FailureDoesNotSpread
    <2>4. MainInv'
      BY DEF MainInv, TypeOK, Scanned
    <2>5. \A e \in Domain : DomainInv(e)'
      BY DEF DomainInv, AllReturned, TypeOK
    <2> QED
      BY <1>0, <2>1, <2>2, <2>3, <2>4, <2>5
  <1>7. ASSUME NEW d \in Domain, Expire(d) PROVE ScanInv'
    <2> USE <1>7 DEF Expire, world, errs
    <2>1. TypeOK'
      BY <1>0 DEF TypeOK
    <2>2. AtMostLimit'
      BY SmallerHeld DEF Held
    <2>3. FailureDoesNotSpread'
      BY DEF FailureDoesNotSpread
    <2>4. MainInv'
      BY DEF MainInv, Scanned
    <2>5. \A e \in Domain : DomainInv(e)'
      BY DEF DomainInv, AllReturned, TypeOK
    <2> QED
      BY <1>0, <2>1, <2>2, <2>3, <2>4, <2>5
  <1>8. CASE Terminated
    BY <1>1, <1>8 DEF Terminated
  <1> QED
    BY <1>1, <1>2, <1>3, <1>4, <1>5, <1>6, <1>7, <1>8 DEF Next, MainStep, DomainStep

-----------------------------------------------------------------------------

\* The invariant holds throughout.
THEOREM ScanInvariant == Spec => []ScanInv
  BY InitScanInv, StepScanInv, PTL DEF Spec

\* Every variable stays of its type; a report is its domain's or the zero one.
THEOREM TypeCorrect == Spec => []TypeOK
  <1>1. ScanInv => TypeOK
    BY DEF ScanInv
  <1> QED
    BY <1>1, ScanInvariant, PTL

\* cli.go:181: --concurrency bounds the domains in flight.
THEOREM LimitHolds == Spec => []AtMostLimit
  <1>1. ScanInv => AtMostLimit
    BY DEF ScanInv
  <1> QED
    BY <1>1, ScanInvariant, PTL

\* cli.go:172-190: what is written out is, for every domain, its own report of
\* what all of its probes returned.
THEOREM ReportsAreWhole == Spec => []EveryReportIsWhole
  <1>1. ScanInv => EveryReportIsWhole
    BY ReportIsNoZero DEF ScanInv, MainInv, DomainInv, EveryReportIsWhole, AllReturned
  <1> QED
    BY <1>1, ScanInvariant, PTL

\* classifier.go:63-70, cli.go:180-190: no probe and no domain can spoil what
\* another observes, however many there are: no goroutine gives its group an
\* error, so no context ends before its budget.
THEOREM FailuresAreContained == Spec => []FailureDoesNotSpread
  <1>1. ScanInv => FailureDoesNotSpread
    BY DEF ScanInv
  <1> QED
    BY <1>1, ScanInvariant, PTL

\* A slot whose servers are down holds what its probe makes of no answer.
SilenceInv ==
    \A d \in Domain, i \in Index : <<d, i>> \in down =>
        \/ perProbe[d][i] = NoFeatures
        \/ \E o \in Verdict[ProbeList[i]]["failed"] : perProbe[d][i] = FeaturesWith(i, o)

LEMMA StepSilenceInv == ScanInv /\ SilenceInv /\ [Next]_vars => SilenceInv'
  <1> SUFFICES ASSUME ScanInv, SilenceInv, [Next]_vars PROVE SilenceInv'
    OBVIOUS
  <1>1. ASSUME UNCHANGED <<perProbe, down>> PROVE SilenceInv'
    BY <1>1 DEF SilenceInv
  <1>2. ASSUME NEW d \in Domain, NEW i \in Index, ProbeReturns(d, i) PROVE SilenceInv'
    <2>1. PICK h \in MayHear(d, i) : \E o \in Verdict[ProbeList[i]][h] :
             perProbe' = [perProbe EXCEPT ![d][i] = FeaturesWith(i, o)]
      BY <1>2 DEF ProbeReturns
    <2>2. PICK o \in Verdict[ProbeList[i]][h] :
             perProbe' = [perProbe EXCEPT ![d][i] = FeaturesWith(i, o)]
      BY <2>1
    <2>3. down' = down /\ perProbe \in [Domain -> SlotArrays]
      BY <1>2 DEF ProbeReturns, world, ScanInv, TypeOK
    <2> SUFFICES ASSUME NEW e \in Domain, NEW j \in Index, <<e, j>> \in down
                 PROVE  \/ perProbe'[e][j] = NoFeatures
                        \/ \E a \in Verdict[ProbeList[j]]["failed"] :
                              perProbe'[e][j] = FeaturesWith(j, a)
      BY <2>3 DEF SilenceInv
    <2>4. CASE e = d /\ j = i
      <3>1. h = "failed"
        BY <2>4 DEF MayHear
      <3>2. perProbe'[e][j] = FeaturesWith(i, o)
        BY <2>2, <2>3, <2>4 DEF SlotArrays
      <3> QED
        BY <2>4, <3>1, <3>2
    <2>5. CASE ~(e = d /\ j = i)
      <3>1. perProbe'[e][j] = perProbe[e][j]
        BY <2>2, <2>3, <2>5 DEF SlotArrays
      <3> QED
        BY <3>1 DEF SilenceInv
    <2> QED
      BY <2>4, <2>5
  <1> QED
    BY <1>1, <1>2
    DEF Next, MainStep, DomainStep, SetupFails, SetupDone, Go, WaitReturns, WriteReports,
        WriteStats, OutputFails, Decide, Begin, WriteReport, Release, Expire, Terminated, vars, world, errs

\* signals.go:12-24: whatever else happens, a probe that nobody answers reports
\* nothing as there, for every table in which no single probe does so.
THEOREM SilenceHolds == Spec => []SilenceIsNoEvidence
  <1>1. Init => SilenceInv
    BY DEF Init, SilenceInv
  <1>2. SilenceInv => SilenceIsNoEvidence
    <2> SUFFICES ASSUME SilenceInv, NEW d \in Domain, NEW i \in Index, <<d, i>> \in down,
                        NEW k \in DOMAIN perProbe[d][i]
                 PROVE  perProbe[d][i][k].status \notin {"present", "misconfigured"}
      BY DEF SilenceIsNoEvidence
    <2>1. perProbe[d][i] # NoFeatures
      BY DEF NoFeatures
    <2>2. PICK o \in Verdict[ProbeList[i]]["failed"] : perProbe[d][i] = FeaturesWith(i, o)
      BY <2>1 DEF SilenceInv
    <2>3. k \in DOMAIN o /\ perProbe[d][i][k].status = o[k]
      BY <2>2 DEF FeaturesWith
    <2> QED
      BY <2>3, FailedRowsAssumption
  <1> QED
    BY <1>1, <1>2, StepSilenceInv, ScanInvariant, PTL DEF Spec

-----------------------------------------------------------------------------
(* The features of a report: classifier.Run's flattening and sorting.      *)

\* The places of the elements in a sequence of sequences.
Cells(seqs) == {c \in (DOMAIN seqs) \X Nat : c[2] \in DOMAIN seqs[c[1]]}

\* That flat has each element of the first n of seqs once.
Flattened(T, seqs, n, flat) ==
    /\ flat \in Seq(T)
    /\ \E at \in [1 .. Len(flat) -> {c \in Cells(seqs) : c[1] <= n}] :
          /\ \A k \in 1 .. Len(flat) : flat[k] = seqs[at[k][1]][at[k][2]]
          /\ \A k, l \in 1 .. Len(flat) : at[k] = at[l] => k = l
          /\ \A c \in Cells(seqs) : c[1] <= n => \E k \in 1 .. Len(flat) : at[k] = c

LEMMA FlattenedFirst ==
  ASSUME NEW T, NEW seqs \in Seq(Seq(T)), seqs # <<>>
  PROVE  Flattened(T, seqs, 1, seqs[1])
  <1> DEFINE flat == seqs[1]
             at == [k \in 1 .. Len(flat) |-> <<1, k>>]
  <1>1. 1 \in DOMAIN seqs /\ flat \in Seq(T)
    OBVIOUS
  <1>2. Len(flat) \in Nat /\ DOMAIN flat = 1 .. Len(flat)
    BY <1>1
  <1>3. \A k \in 1 .. Len(flat) : <<1, k>> \in {c \in Cells(seqs) : c[1] <= 1}
    BY <1>1, <1>2 DEF Cells
  <1>4. at \in [1 .. Len(flat) -> {c \in Cells(seqs) : c[1] <= 1}]
    BY <1>3
  <1>5. \A k \in 1 .. Len(flat) : at[k] = <<1, k>> /\ at[k][1] = 1 /\ at[k][2] = k
    OBVIOUS
  <1>6. ASSUME NEW c \in Cells(seqs), c[1] <= 1
        PROVE  \E k \in 1 .. Len(flat) : at[k] = c
    <2>1. c[1] = 1 /\ c = <<c[1], c[2]>> /\ c[2] \in 1 .. Len(flat)
      BY <1>2, <1>6 DEF Cells
    <2> QED
      BY <1>5, <2>1
  <1>7. \A k \in 1 .. Len(flat) : flat[k] = seqs[at[k][1]][at[k][2]]
    BY <1>5
  <1>8. \A k, l \in 1 .. Len(flat) : at[k] = at[l] => k = l
    BY <1>5
  <1> HIDE DEF at, flat
  <1>9. Flattened(T, seqs, 1, flat)
    BY <1>1, <1>4, <1>6, <1>7, <1>8 DEF Flattened
  <1> QED
    BY <1>9 DEF flat

LEMMA FlattenedNext ==
  ASSUME NEW T, NEW seqs \in Seq(Seq(T)), NEW m \in 1 .. Len(seqs) - 1, NEW flat,
         Flattened(T, seqs, m, flat)
  PROVE  Flattened(T, seqs, m + 1, flat \o seqs[m + 1])
  <1> DEFINE more == seqs[m + 1]
             whole == flat \o more
             n == Len(flat)
             Upto(i) == {c \in Cells(seqs) : c[1] <= i}
  <1>1. PICK at \in [1 .. n -> Upto(m)] :
           /\ \A k \in 1 .. n : flat[k] = seqs[at[k][1]][at[k][2]]
           /\ \A k, l \in 1 .. n : at[k] = at[l] => k = l
           /\ \A c \in Cells(seqs) : c[1] <= m => \E k \in 1 .. n : at[k] = c
    BY DEF Flattened
  <1>2. /\ m + 1 \in DOMAIN seqs /\ more \in Seq(T) /\ flat \in Seq(T)
        /\ n \in Nat /\ Len(more) \in Nat /\ DOMAIN more = 1 .. Len(more)
    BY DEF Flattened
  <1>3. /\ whole \in Seq(T) /\ Len(whole) = n + Len(more)
        /\ \A k \in 1 .. n : whole[k] = flat[k]
        /\ \A k \in 1 .. Len(whole) : ~(k <= n) => whole[k] = more[k - n] /\ k - n \in 1 .. Len(more)
    BY <1>2
  <1> DEFINE to == [k \in 1 .. Len(whole) |-> IF k <= n THEN at[k] ELSE <<m + 1, k - n>>]
  <1> HIDE DEF whole, more, n
  <1>4. ASSUME NEW k \in 1 .. Len(whole), k <= n
        PROVE  /\ k \in 1 .. n /\ to[k] = at[k] /\ at[k] \in Upto(m)
               /\ to[k] \in Upto(m + 1)
               /\ whole[k] = seqs[to[k][1]][to[k][2]]
    <2>1. k \in 1 .. n /\ to[k] = at[k]
      BY <1>2, <1>3, <1>4
    <2>2. at[k] \in Upto(m)
      BY <2>1
    <2>3. at[k] \in Upto(m + 1)
      BY <2>2, SMTT(40) DEF Cells
    <2> HIDE DEF to
    <2> QED
      BY <1>1, <1>3, <2>1, <2>2, <2>3
  <1>5. ASSUME NEW k \in 1 .. Len(whole), ~(k <= n)
        PROVE  /\ to[k] = <<m + 1, k - n>> /\ to[k] \in Upto(m + 1)
               /\ whole[k] = seqs[to[k][1]][to[k][2]]
    <2>1. to[k] = <<m + 1, k - n>> /\ k - n \in DOMAIN more
      BY <1>2, <1>3, <1>5
    <2>2. <<m + 1, k - n>> \in Upto(m + 1)
      BY <1>2, <2>1, SMTT(40) DEF Cells, more
    <2> HIDE DEF to
    <2> QED
      BY <1>3, <1>5, <2>1, <2>2, SMTT(40) DEF more
  <1>6. to \in [1 .. Len(whole) -> Upto(m + 1)]
    <2>1. \A k \in 1 .. Len(whole) : to[k] \in Upto(m + 1)
      BY <1>4, <1>5
    <2>2. to = [k \in 1 .. Len(whole) |-> to[k]]
      OBVIOUS
    <2> HIDE DEF to, Upto
    <2> QED
      BY <2>1, <2>2
  <1>7. \A k \in 1 .. Len(whole) : whole[k] = seqs[to[k][1]][to[k][2]]
    BY <1>4, <1>5
  <1>8. ASSUME NEW k \in 1 .. Len(whole), NEW l \in 1 .. Len(whole), to[k] = to[l]
        PROVE  k = l
    <2>1. CASE k <= n /\ l <= n
      <3>1. k \in 1 .. n /\ l \in 1 .. n /\ at[k] = at[l]
        BY <1>4, <1>8, <2>1
      <3> QED
        BY <1>1, <3>1
    <2>2. CASE ~(k <= n) /\ ~(l <= n)
      <3>1. <<m + 1, k - n>> = <<m + 1, l - n>>
        BY <1>5, <1>8, <2>2
      <3>2. k - n = l - n
        BY <3>1
      <3> QED
        BY <1>2, <3>2
    <2>3. ASSUME NEW i \in 1 .. Len(whole), NEW j \in 1 .. Len(whole), i <= n, ~(j <= n)
          PROVE  to[i] # to[j]
      <3>1. to[i] \in Upto(m)
        BY <1>4, <2>3
      <3>2. to[i][1] <= m /\ to[j][1] = m + 1
        BY <1>5, <2>3, <3>1
      <3> QED
        BY <3>2
    <2> QED
      BY <1>8, <2>1, <2>2, <2>3
  <1>9. ASSUME NEW c \in Cells(seqs), c[1] <= m + 1
        PROVE  \E k \in 1 .. Len(whole) : to[k] = c
    <2>1. c[1] \in Int /\ c[2] \in Nat /\ c = <<c[1], c[2]>> /\ c[2] \in DOMAIN seqs[c[1]]
      BY DEF Cells
    <2>2. CASE c[1] <= m
      <3>1. PICK k \in 1 .. n : at[k] = c
        BY <1>1, <2>2
      <3>2. k \in 1 .. Len(whole) /\ k <= n
        BY <1>2, <1>3
      <3> QED
        BY <1>4, <3>1, <3>2
    <2>3. CASE c[1] = m + 1
      <3>1. c[2] \in 1 .. Len(more)
        BY <1>2, <2>1, <2>3 DEF more
      <3>2. /\ n + c[2] \in 1 .. Len(whole) /\ ~(n + c[2] <= n)
            /\ (n + c[2]) - n = c[2]
        <4>1. \A e \in 1 .. Len(more) : n + e \in 1 .. Len(whole) /\ ~(n + e <= n) /\ (n + e) - n = e
          BY <1>2, <1>3
        <4> QED
          BY <3>1, <4>1
      <3>3. to[n + c[2]] = <<m + 1, c[2]>>
        <4>1. to[n + c[2]] = <<m + 1, (n + c[2]) - n>>
          BY <1>5, <3>2
        <4> QED
          BY <3>2, <4>1
      <3> QED
        BY <2>1, <2>3, <3>2, <3>3
    <2> QED
      BY <1>9, <2>1, <2>2, <2>3
  <1> HIDE DEF to
  <1> QED
    BY <1>3, <1>6, <1>7, <1>8, <1>9 DEF Flattened, whole, more

\* FlattenSeq has every element of every sequence once, and nothing else.
LEMMA FlattenCells ==
  ASSUME NEW T, NEW seqs \in Seq(Seq(T)), seqs # <<>>
  PROVE  Flattened(T, seqs, Len(seqs), FlattenSeq(seqs))
  <1> DEFINE L == Len(seqs)
  <1>1. L \in Nat \ {0}
    OBVIOUS
  <1>2. PICK f : /\ FlattenSeq(seqs) = f[L] /\ f[1] = seqs[1]
                 /\ \A m \in 1 .. L - 1 : f[m + 1] = f[m] \o seqs[m + 1]
    BY <1>1, FlattenUnfolds
  <1> DEFINE K == {m \in 1 .. L : Flattened(T, seqs, m, f[m])}
  <1>3. 1 \in K
    BY <1>1, <1>2, FlattenedFirst
  <1>4. ASSUME NEW m \in 1 .. L - 1, m \in K PROVE m + 1 \in K
    <2>1. Flattened(T, seqs, m + 1, f[m] \o seqs[m + 1])
      BY <1>4, FlattenedNext
    <2>2. m + 1 \in 1 .. L
      <3> HIDE DEF L, K
      <3> QED
        BY <1>1
    <2>3. f[m + 1] = f[m] \o seqs[m + 1]
      BY <1>2
    <2> QED
      BY <2>1, <2>2, <2>3
  <1>5. L \in K
    <2>1. L \in Nat /\ L \in 1 .. L
      BY <1>1
    <2> HIDE DEF K, L
    <2> QED
      BY <1>3, <1>4, <2>1, PositionInduction
  <1> QED
    BY <1>2, <1>5

\* Canonical sorts: the k-th of the result is the one with k - 1 before it, and
\* none is lost.
LEMMA CanonicalSorts ==
  ASSUME NEW T, NEW fs \in Seq(T)
  PROVE  /\ Canonical(fs) \in Seq(T) /\ Len(Canonical(fs)) = Len(fs)
         /\ \E from \in [1 .. Len(fs) -> 1 .. Len(fs)] :
               /\ \A k \in 1 .. Len(fs) : Canonical(fs)[k] = fs[from[k]]
               /\ \A i \in 1 .. Len(fs) : \E k \in 1 .. Len(fs) : from[k] = i
               /\ \A k, l \in 1 .. Len(fs) : k < l =>
                     /\ from[k] # from[l]
                     /\ featureOrder(fs[from[k]].name) <= featureOrder(fs[from[l]].name)
  <1> DEFINE n == Len(fs)
             D == DOMAIN fs
             order(i) == featureOrder(fs[i].name)
             Before(i, j) == order(i) < order(j) \/ (order(i) = order(j) /\ i < j)
             R == {p \in D \X D : Before(p[1], p[2])}
             sorted == Canonical(fs)
  <1>1. n \in Nat /\ D = 1 .. n
    OBVIOUS
  <1>2. \A i \in D : order(i) \in Int /\ i \in Int
    BY <1>1 DEF featureOrder
  <1> HIDE DEF order
  <1>3. \A x, y \in D : <<x, y>> \in R <=> Before(x, y)
    OBVIOUS
  <1>4. Orders(R, D)
    <2> HIDE DEF R, D
    <2> QED
      BY <1>2, <1>3 DEF Orders
  <1>5. sorted = [k \in D |-> fs[CHOOSE i \in D : RankIn(D, R, i) = k - 1]]
    <2>1. sorted = [k \in D |-> fs[CHOOSE i \in D : Cardinality({j \in D : Before(j, i)}) = k - 1]]
      BY DEF Canonical, order
    <2>2. \A i \in D : {j \in D : <<j, i>> \in R} = {j \in D : Before(j, i)}
      OBVIOUS
    <2> HIDE DEF R, D
    <2>3. \A i \in D : RankIn(D, R, i) = Cardinality({j \in D : Before(j, i)})
      BY <2>2 DEF RankIn
    <2> QED
      BY <2>1, <2>3, ZenonT(60)
  <1> HIDE DEF sorted, R
  <1>6. sorted \in Seq(T) /\ Len(sorted) = n
    BY <1>4, <1>5, RankedSorts
  <1>7. Sorts(fs, sorted, R)
    BY <1>4, <1>5, RankedSorts
  <1>8. \A x, y \in 1 .. n : <<x, y>> \in R => order(x) <= order(y)
    BY <1>1, <1>2, <1>3
  <1>9. \E from \in [1 .. n -> 1 .. n] :
           /\ \A k \in 1 .. n : sorted[k] = fs[from[k]]
           /\ \A i \in 1 .. n : \E k \in 1 .. n : from[k] = i
           /\ \A k, l \in 1 .. n : k < l =>
                 from[k] # from[l] /\ order(from[k]) <= order(from[l])
    <2>1. PICK from \in [1 .. n -> 1 .. n] :
             /\ \A k \in 1 .. n : sorted[k] = fs[from[k]]
             /\ \A i \in 1 .. n : \E k \in 1 .. n : from[k] = i
             /\ \A k, l \in 1 .. n : k < l =>
                   from[k] # from[l] /\ <<from[k], from[l]>> \in R
      BY <1>7 DEF Sorts
    <2>2. \A k, l \in 1 .. n : k < l => order(from[k]) <= order(from[l])
      BY <1>8, <2>1
    <2> QED
      BY <2>1, <2>2
  <1> QED
    BY <1>6, <1>9 DEF sorted, order

\* A slot that is filled holds an outcome of its own probe.
SlotsInv ==
    \A d \in Domain, i \in Index :
        \/ perProbe[d][i] = NoFeatures
        \/ \E h \in Heard : \E o \in Verdict[ProbeList[i]][h] : perProbe[d][i] = FeaturesWith(i, o)

LEMMA StepSlotsInv == ScanInv /\ SlotsInv /\ [Next]_vars => SlotsInv'
  <1> SUFFICES ASSUME ScanInv, SlotsInv, [Next]_vars PROVE SlotsInv'
    OBVIOUS
  <1>1. ASSUME UNCHANGED perProbe PROVE SlotsInv'
    BY <1>1 DEF SlotsInv
  <1>2. ASSUME NEW d \in Domain, NEW i \in Index, ProbeReturns(d, i) PROVE SlotsInv'
    <2>1. PICK h \in MayHear(d, i) : \E o \in Verdict[ProbeList[i]][h] :
             perProbe' = [perProbe EXCEPT ![d][i] = FeaturesWith(i, o)]
      BY <1>2 DEF ProbeReturns
    <2>2. PICK o \in Verdict[ProbeList[i]][h] :
             perProbe' = [perProbe EXCEPT ![d][i] = FeaturesWith(i, o)]
      BY <2>1
    <2>3. h \in Heard /\ perProbe \in [Domain -> SlotArrays]
      BY MayHearType DEF ScanInv, TypeOK
    <2> SUFFICES ASSUME NEW e \in Domain, NEW j \in Index
                 PROVE  \/ perProbe'[e][j] = NoFeatures
                        \/ \E g \in Heard : \E a \in Verdict[ProbeList[j]][g] :
                              perProbe'[e][j] = FeaturesWith(j, a)
      BY DEF SlotsInv
    <2>4. CASE e = d /\ j = i
      <3>1. perProbe'[e][j] = FeaturesWith(i, o)
        BY <2>2, <2>3, <2>4 DEF SlotArrays
      <3> QED
        BY <2>3, <2>4, <3>1
    <2>5. CASE ~(e = d /\ j = i)
      <3>1. perProbe'[e][j] = perProbe[e][j]
        BY <2>2, <2>3, <2>5 DEF SlotArrays
      <3> QED
        BY <3>1 DEF SlotsInv
    <2> QED
      BY <2>4, <2>5
  <1> QED
    BY <1>1, <1>2
    DEF Next, MainStep, DomainStep, SetupFails, SetupDone, Go, WaitReturns, WriteReports,
        WriteStats, OutputFails, Decide, Begin, WriteReport, Release, Expire, Terminated, vars, world, errs

FeatureName == {"spf", "dmarc", "dkim", "mx", "starttls", "dane", "mta-sts", "tls-rpt",
                "bimi", "dnssec"}
Row == [name : FeatureName, status : Status]

LEMMA FeaturesOfProbe ==
  ASSUME NEW p \in ProbeName
  PROVE  /\ FeaturesOf(p) \in Seq(FeatureName)
         /\ p # "mtatls" => FeaturesOf(p) = <<p>>
         /\ p = "mtatls" => FeaturesOf(p) = <<"starttls", "dane">>
  <1>1. \A a, b \in FeatureName : <<a>> \in Seq(FeatureName) /\ <<a, b>> \in Seq(FeatureName)
    OBVIOUS
  <1>2. CASE p # "mtatls"
    <2>1. p \in FeatureName
      BY <1>2 DEF ProbeName, FeatureName
    <2>2. FeaturesOf(p) = <<p>>
      BY <1>2 DEF FeaturesOf
    <2> QED
      BY <1>1, <1>2, <2>1, <2>2
  <1>3. CASE p = "mtatls"
    <2>1. "starttls" \in FeatureName /\ "dane" \in FeatureName
      BY DEF FeatureName
    <2>2. FeaturesOf(p) = <<"starttls", "dane">>
      BY <1>3 DEF FeaturesOf
    <2> QED
      BY <1>1, <1>3, <2>1, <2>2
  <1> QED
    BY <1>2, <1>3

\* No two names have one place in the order.
LEMMA OrderDiffers ==
  ASSUME NEW a \in FeatureName, NEW b \in FeatureName, a # b
  PROVE  featureOrder(a) # featureOrder(b)
  BY DEF FeatureName, featureOrder

\* No two features of the list have one name.
LEMMA NamesDiffer ==
  ASSUME NEW i \in Index, NEW j \in Index,
         NEW k \in DOMAIN FeaturesOf(ProbeList[i]), NEW l \in DOMAIN FeaturesOf(ProbeList[j]),
         FeaturesOf(ProbeList[i])[k] = FeaturesOf(ProbeList[j])[l]
  PROVE  i = j /\ k = l
  <1>1. \A p \in ProbeName : /\ p # "mtatls" => FeaturesOf(p) = <<p>>
                             /\ p = "mtatls" => FeaturesOf(p) = <<"starttls", "dane">>
    BY FeaturesOfProbe
  <1>2. ASSUME NEW p \in ProbeName, NEW q \in ProbeName,
               NEW s \in DOMAIN FeaturesOf(p), NEW t \in DOMAIN FeaturesOf(q),
               FeaturesOf(p)[s] = FeaturesOf(q)[t]
        PROVE  p = q /\ s = t
    <2>1. CASE p # "mtatls" /\ q # "mtatls"
      <3>1. FeaturesOf(p) = <<p>> /\ FeaturesOf(q) = <<q>>
        BY <1>1, <2>1
      <3>2. s = 1 /\ t = 1
        BY <3>1
      <3> QED
        BY <1>2, <3>1, <3>2
    <2>2. CASE p = "mtatls" /\ q # "mtatls"
      <3>1. FeaturesOf(p) = <<"starttls", "dane">> /\ FeaturesOf(q) = <<q>>
        BY <1>1, <2>2
      <3>2. q \in {"starttls", "dane"}
        BY <1>2, <3>1
      <3> QED
        BY <3>2 DEF ProbeName
    <2>3. CASE p # "mtatls" /\ q = "mtatls"
      <3>1. FeaturesOf(q) = <<"starttls", "dane">> /\ FeaturesOf(p) = <<p>>
        BY <1>1, <2>3
      <3>2. p \in {"starttls", "dane"}
        BY <1>2, <3>1
      <3> QED
        BY <3>2 DEF ProbeName
    <2>4. CASE p = "mtatls" /\ q = "mtatls"
      <3>1. FeaturesOf(p) = <<"starttls", "dane">> /\ FeaturesOf(q) = <<"starttls", "dane">>
        BY <1>1, <2>4
      <3> QED
        BY <1>2, <2>4, <3>1
    <2> QED
      BY <2>1, <2>2, <2>3, <2>4
  <1>3. ProbeList[i] \in ProbeName /\ ProbeList[j] \in ProbeName
    BY ScanAssumption DEF Index
  <1>4. ProbeList[i] = ProbeList[j] /\ k = l
    BY <1>2, <1>3
  <1> QED
    BY <1>4, ProbesAssumption

\* What a slot that is filled looks like.
LEMMA SlotFacts ==
  ASSUME SlotsInv, NEW d \in Domain, AllReturned(d), NEW i \in Index
  PROVE  /\ DOMAIN perProbe[d][i] = DOMAIN FeaturesOf(ProbeList[i])
         /\ perProbe[d][i] \in Seq(Row)
         /\ \A k \in DOMAIN perProbe[d][i] :
               perProbe[d][i][k].name = FeaturesOf(ProbeList[i])[k]
  <1>1. PICK h \in Heard : \E o \in Verdict[ProbeList[i]][h] : perProbe[d][i] = FeaturesWith(i, o)
    BY DEF SlotsInv, AllReturned
  <1>2. PICK o \in Verdict[ProbeList[i]][h] : perProbe[d][i] = FeaturesWith(i, o)
    BY <1>1
  <1>3. ProbeList[i] \in ProbeName
    BY ScanAssumption DEF Index
  <1> DEFINE names == FeaturesOf(ProbeList[i])
  <1>4. names \in Seq(FeatureName)
    BY <1>3, FeaturesOfProbe
  <1>5. o \in [DOMAIN names -> Status]
    BY ScanAssumption
  <1>6. perProbe[d][i] = [k \in DOMAIN names |-> [name |-> names[k], status |-> o[k]]]
    BY <1>2, <1>5 DEF FeaturesWith
  <1> HIDE DEF names
  <1>7. \A k \in DOMAIN names : [name |-> names[k], status |-> o[k]] \in Row
    BY <1>4, <1>5 DEF Row
  <1>8. Len(names) \in Nat /\ DOMAIN names = 1 .. Len(names)
    BY <1>4
  <1>9. perProbe[d][i] \in Seq(Row)
    BY <1>6, <1>7, <1>8
  <1> QED
    BY <1>6, <1>9 DEF names

\* The rows of a report are the features of its slots, sorted.
LEMMA ReportRows ==
  ASSUME ScanInv, SlotsInv, NEW d \in Domain, AllReturned(d)
  PROVE  LET rows == Report(d, perProbe[d]).features
         IN  /\ rows \in Seq(Row)
             /\ \A i \in Index : \A k \in DOMAIN perProbe[d][i] :
                   \E m \in DOMAIN rows : rows[m] = perProbe[d][i][k]
             /\ \A m \in DOMAIN rows : \E i \in Index : \E k \in DOMAIN perProbe[d][i] :
                   rows[m] = perProbe[d][i][k]
             /\ \A l, m \in DOMAIN rows : l < m =>
                   featureOrder(rows[l].name) < featureOrder(rows[m].name)
  <1> DEFINE slots == perProbe[d]
             flat == FlattenSeq(slots)
             rows == Canonical(flat)
  <1>1. /\ slots \in Seq(Seq(Row)) /\ slots # <<>>
        /\ DOMAIN slots = Index /\ Len(slots) = Len(ProbeList)
    <2>1. Len(ProbeList) \in Nat \ {0}
      BY ScanAssumption
    <2>2. DOMAIN slots = Index /\ slots = [i \in Index |-> slots[i]]
      BY DEF ScanInv, TypeOK, SlotArrays
    <2>3. \A i \in Index : slots[i] \in Seq(Row)
      BY SlotFacts
    <2> HIDE DEF slots
    <2> QED
      BY <2>1, <2>2, <2>3 DEF Index
  <1>2. Report(d, perProbe[d]).features = rows
    BY DEF Report
  <1>3. Flattened(Row, slots, Len(slots), flat)
    BY <1>1, FlattenCells
  <1>4. \A c \in Cells(slots) : /\ c[1] \in Index /\ c[2] \in DOMAIN slots[c[1]]
                                /\ c[1] <= Len(slots) /\ c = <<c[1], c[2]>>
    <2>1. Len(ProbeList) \in Nat
      BY ScanAssumption
    <2> QED
      BY <1>1, <2>1 DEF Cells, Index
  <1>5. ASSUME NEW i \in Index, NEW k \in DOMAIN slots[i]
        PROVE  <<i, k>> \in Cells(slots)
    <2>1. k \in Nat
      BY <1>1, SequenceElements
    <2> QED
      BY <1>1, <2>1 DEF Cells
  <1> HIDE DEF flat
  <1>6. flat \in Seq(Row)
    BY <1>3 DEF Flattened
  <1>7. PICK at \in [1 .. Len(flat) -> {c \in Cells(slots) : c[1] <= Len(slots)}] :
           /\ \A k \in 1 .. Len(flat) : flat[k] = slots[at[k][1]][at[k][2]]
           /\ \A k, l \in 1 .. Len(flat) : at[k] = at[l] => k = l
           /\ \A c \in Cells(slots) : c[1] <= Len(slots) => \E k \in 1 .. Len(flat) : at[k] = c
    BY <1>3 DEF Flattened
  <1>8. \A k \in 1 .. Len(flat) : at[k] \in Cells(slots)
    OBVIOUS
  <1>9. /\ rows \in Seq(Row) /\ Len(rows) = Len(flat)
        /\ \E from \in [1 .. Len(flat) -> 1 .. Len(flat)] :
               /\ \A k \in 1 .. Len(flat) : rows[k] = flat[from[k]]
               /\ \A i \in 1 .. Len(flat) : \E k \in 1 .. Len(flat) : from[k] = i
               /\ \A k, l \in 1 .. Len(flat) : k < l =>
                     /\ from[k] # from[l]
                     /\ featureOrder(flat[from[k]].name) <= featureOrder(flat[from[l]].name)
    BY <1>6, CanonicalSorts
  <1> HIDE DEF rows
  <1>10. DOMAIN rows = 1 .. Len(flat)
    BY <1>9
  <1>11. PICK from \in [1 .. Len(flat) -> 1 .. Len(flat)] :
               /\ \A k \in 1 .. Len(flat) : rows[k] = flat[from[k]]
               /\ \A i \in 1 .. Len(flat) : \E k \in 1 .. Len(flat) : from[k] = i
               /\ \A k, l \in 1 .. Len(flat) : k < l =>
                     /\ from[k] # from[l]
                     /\ featureOrder(flat[from[k]].name) <= featureOrder(flat[from[l]].name)
    BY <1>9
  <1>12. ASSUME NEW i \in Index, NEW k \in DOMAIN slots[i]
         PROVE  \E m \in DOMAIN rows : rows[m] = slots[i][k]
    <2>1. <<i, k>> \in Cells(slots)
      BY <1>5
    <2>2. PICK l \in 1 .. Len(flat) : at[l] = <<i, k>>
      BY <1>4, <1>7, <2>1
    <2>3. flat[l] = slots[i][k]
      BY <1>7, <2>2
    <2>4. PICK m \in 1 .. Len(flat) : from[m] = l
      BY <1>11
    <2> QED
      BY <1>10, <1>11, <2>3, <2>4
  <1>13. ASSUME NEW m \in DOMAIN rows
         PROVE  /\ from[m] \in 1 .. Len(flat) /\ at[from[m]] \in Cells(slots)
                /\ rows[m] = slots[at[from[m]][1]][at[from[m]][2]]
    BY <1>7, <1>8, <1>10, <1>11
  <1>16. ASSUME NEW c \in Cells(slots), NEW e \in Cells(slots),
                slots[c[1]][c[2]].name = slots[e[1]][e[2]].name
         PROVE  c = e
    <2> DEFINE i == c[1]
               j == e[1]
               k == c[2]
               l == e[2]
    <2>1. i \in Index /\ k \in DOMAIN slots[i] /\ c = <<i, k>>
      BY <1>4
    <2>2. j \in Index /\ l \in DOMAIN slots[j] /\ e = <<j, l>>
      BY <1>4
    <2> HIDE DEF i, j, k, l
    <2>3. /\ k \in DOMAIN FeaturesOf(ProbeList[i]) /\ l \in DOMAIN FeaturesOf(ProbeList[j])
          /\ slots[i][k].name = FeaturesOf(ProbeList[i])[k]
          /\ slots[j][l].name = FeaturesOf(ProbeList[j])[l]
      BY <2>1, <2>2, SlotFacts
    <2>4. FeaturesOf(ProbeList[i])[k] = FeaturesOf(ProbeList[j])[l]
      BY <1>16, <2>3 DEF i, j, k, l
    <2>5. /\ i \in Index /\ j \in Index
          /\ k \in DOMAIN FeaturesOf(ProbeList[i]) /\ l \in DOMAIN FeaturesOf(ProbeList[j])
      BY <2>1, <2>2, <2>3
    <2>6. i = j /\ k = l
      BY <2>4, <2>5, NamesDiffer
    <2> QED
      BY <2>1, <2>2, <2>6
  <1>14. ASSUME NEW l \in DOMAIN rows, NEW m \in DOMAIN rows, l < m
         PROVE  featureOrder(rows[l].name) < featureOrder(rows[m].name)
    <2> DEFINE a == at[from[l]]
               b == at[from[m]]
    <2>1. /\ a \in Cells(slots) /\ b \in Cells(slots) /\ a # b
          /\ rows[l] = slots[a[1]][a[2]] /\ rows[m] = slots[b[1]][b[2]]
          /\ featureOrder(rows[l].name) <= featureOrder(rows[m].name)
      <3>1. from[l] # from[m] /\ from[l] \in 1 .. Len(flat) /\ from[m] \in 1 .. Len(flat)
        BY <1>10, <1>11, <1>14
      <3>2. a # b
        BY <1>7, <3>1
      <3>3. featureOrder(flat[from[l]].name) <= featureOrder(flat[from[m]].name)
        BY <1>10, <1>11, <1>14
      <3>4. rows[l] = flat[from[l]] /\ rows[m] = flat[from[m]]
        BY <1>10, <1>11
      <3> QED
        BY <1>13, <3>2, <3>3, <3>4
    <2> HIDE DEF a, b
    <2>2. rows[l].name # rows[m].name
      BY <1>16, <2>1
    <2>3. rows[l].name \in FeatureName /\ rows[m].name \in FeatureName
      <3>1. rows[l] \in Row /\ rows[m] \in Row
        BY <1>9, SequenceElements
      <3> QED
        BY <3>1 DEF Row
    <2>4. featureOrder(rows[l].name) # featureOrder(rows[m].name)
      BY <2>2, <2>3, OrderDiffers
    <2>5. featureOrder(rows[l].name) \in Int /\ featureOrder(rows[m].name) \in Int
      BY DEF featureOrder
    <2> QED
      BY <2>1, <2>4, <2>5
  <1>15. ASSUME NEW m \in DOMAIN rows
         PROVE  \E i \in Index : \E k \in DOMAIN slots[i] : rows[m] = slots[i][k]
    BY <1>4, <1>13
  <1> QED
    BY <1>2, <1>9, <1>12, <1>14, <1>15

LEMMA SlotsInvariant == Spec => []SlotsInv
  <1>1. Init => SlotsInv
    BY DEF Init, SlotsInv
  <1> QED
    BY <1>1, StepSlotsInv, ScanInvariant, PTL DEF Spec

\* Once main has gone on, each domain has its report of all of its slots.
LEMMA ScannedFacts ==
  ASSUME ScanInv, Scanned, NEW d \in Domain
  PROVE  AllReturned(d) /\ reports[d] = Report(d, perProbe[d])
  BY DEF ScanInv, MainInv, DomainInv

\* classifier.go:74-80: every report lists the features of the probe list, each
\* once and in the canonical order, whatever list of different probes that is
\* and whatever they found.
THEOREM ReportsLineUp == Spec => []RowsLineUp
  <1>1. ASSUME ScanInv, SlotsInv, Scanned, NEW d \in Domain
        PROVE  LET rows == reports[d].features
               IN  /\ {rows[k].name : k \in DOMAIN rows} =
                         UNION {ToSet(FeaturesOf(ProbeList[i])) : i \in Index}
                   /\ \A k \in 1 .. Len(rows) - 1 :
                         featureOrder(rows[k].name) < featureOrder(rows[k + 1].name)
    <2> DEFINE rows == reports[d].features
               slots == perProbe[d]
    <2>1. AllReturned(d) /\ reports[d] = Report(d, perProbe[d])
      BY <1>1, ScannedFacts
    <2>2. /\ rows \in Seq(Row)
          /\ \A i \in Index : \A k \in DOMAIN slots[i] : \E m \in DOMAIN rows : rows[m] = slots[i][k]
          /\ \A m \in DOMAIN rows : \E i \in Index : \E k \in DOMAIN slots[i] : rows[m] = slots[i][k]
          /\ \A l, m \in DOMAIN rows : l < m =>
                featureOrder(rows[l].name) < featureOrder(rows[m].name)
      BY <1>1, <2>1, ReportRows
    <2>3. ASSUME NEW i \in Index
          PROVE  /\ DOMAIN slots[i] = DOMAIN FeaturesOf(ProbeList[i])
                 /\ \A k \in DOMAIN slots[i] : slots[i][k].name = FeaturesOf(ProbeList[i])[k]
      BY <1>1, <2>1, SlotFacts
    <2> HIDE DEF rows, slots
    <2>4. ASSUME NEW m \in DOMAIN rows
          PROVE  \E i \in Index : rows[m].name \in ToSet(FeaturesOf(ProbeList[i]))
      <3>1. PICK i \in Index : \E k \in DOMAIN slots[i] : rows[m] = slots[i][k]
        BY <2>2
      <3>2. PICK k \in DOMAIN slots[i] : rows[m] = slots[i][k]
        BY <3>1
      <3> QED
        BY <2>3, <3>2 DEF ToSet
    <2>5. ASSUME NEW i \in Index, NEW name \in ToSet(FeaturesOf(ProbeList[i]))
          PROVE  \E m \in DOMAIN rows : rows[m].name = name
      <3>1. PICK k \in DOMAIN FeaturesOf(ProbeList[i]) : name = FeaturesOf(ProbeList[i])[k]
        BY DEF ToSet
      <3>2. k \in DOMAIN slots[i] /\ slots[i][k].name = name
        BY <2>3, <3>1
      <3> QED
        BY <2>2, <3>2
    <2>6. {rows[k].name : k \in DOMAIN rows} =
             UNION {ToSet(FeaturesOf(ProbeList[i])) : i \in Index}
      BY <2>4, <2>5
    <2>7. \A k \in 1 .. Len(rows) - 1 :
             featureOrder(rows[k].name) < featureOrder(rows[k + 1].name)
      <3> TAKE k \in 1 .. Len(rows) - 1
      <3>1. Len(rows) \in Nat /\ DOMAIN rows = 1 .. Len(rows)
        BY <2>2, SequenceElements
      <3>2. k \in DOMAIN rows /\ k + 1 \in DOMAIN rows /\ k < k + 1
        BY <3>1
      <3> QED
        BY <2>2, <3>2
    <2> QED
      BY <2>6, <2>7 DEF rows
  <1>2. ScanInv /\ SlotsInv => RowsLineUp
    BY <1>1 DEF RowsLineUp
  <1> QED
    BY <1>2, ScanInvariant, SlotsInvariant, PTL

-----------------------------------------------------------------------------
(* Scan implements FanOut: every step of a scan is a step of the group of   *)
(* domains or leaves it alone.                                             *)

\* The domains whose task is under way in the group's eyes.
InFlight == {d \in Domain : pc[d] \in {"spawned", "probing"}}

LEMMA RefinesInit == Init => Group!Init
  BY DEF Init, Group!Init

\* FanOut counts as Scan does: Cardinality is the same operator in both.
LEMMA SameCardinality ==
  ASSUME NEW S PROVE Group!Cardinality(S) = Cardinality(S)
  BY DEF Cardinality, Group!Cardinality

\* In flight is fewer than holding a token, so a free token is enough room.
LEMMA RoomForOne == Room(Cardinality(Held)) => Group!Room(Group!Cardinality(InFlight))
  <1>1. InFlight \subseteq Held
    BY DEF InFlight, Held
  <1>2. Cardinality(InFlight) <= Cardinality(Held) /\ Cardinality(InFlight) \in Nat
    BY <1>1, HeldFinite, FS_Subset, FS_CardinalityType
  <1> QED
    BY <1>2, HeldFinite, SameCardinality, ScanAssumption DEF Room, Group!Room

LEMMA RefinesStep == ScanInv /\ [Next]_vars => [Group!Next]_(Group!vars)
  <1> SUFFICES ASSUME ScanInv, [Next]_vars PROVE [Group!Next]_(Group!vars)
    OBVIOUS
  <1> USE ScanAssumption DEF ScanInv
  <1>1. CASE SetupDone
    <2>1. Group!Open(Domain)
      BY <1>1 DEF SetupDone, Group!Open
    <2> QED
      BY <2>1 DEF Group!Next
  <1>2. CASE WaitReturns
    <2>1. \A d \in Domain : pc[d] = "done"
      BY <1>2, AllDone
    <2>2. \A d \in Domain : reports[d] # NoReport
      BY <2>1, ReportIsNoZero DEF DomainInv
    <2>3. Group!Gather
      BY <1>2, <2>2 DEF WaitReturns, Group!Gather, Group!Filled
    <2> QED
      BY <2>3 DEF Group!Next
  <1>3. ASSUME NEW d \in Domain, Go(d) PROVE Group!Next
    <2>1. pc[d] = "queued" /\ reports[d] = NoReport
      BY <1>3 DEF Go, MainInv, DomainInv, TypeOK, Domain
    <2>2. InFlight' = InFlight \cup {d}
      BY <1>3 DEF Go, InFlight, TypeOK
    <2>3. Group!Start(d)
      BY <1>3, <2>1, <2>2, RoomForOne DEF Go, Group!Start, InFlight
    <2> QED
      BY <2>3 DEF Group!Next
  <1>4. ASSUME NEW d \in Domain, WriteReport(d) PROVE Group!Next
    <2>1. Report(d, perProbe[d]) \in ReportValue
      BY DEF ReportValue, TypeOK
    <2>2. InFlight' = InFlight \ {d}
      BY <1>4 DEF WriteReport, InFlight, TypeOK
    <2>3. Group!Finish(d)
      BY <1>4, <2>1, <2>2 DEF WriteReport, SlotOf, Group!Finish, InFlight
    <2> QED
      BY <2>3 DEF Group!Next
  <1>5. ASSUME NEW d \in Domain, Begin(d) \/ Release(d)
        PROVE  UNCHANGED Group!vars
    <2>1. InFlight' = InFlight
      BY <1>5 DEF Begin, Release, InFlight, TypeOK
    <2> QED
      BY <1>5, <2>1 DEF Begin, Release, Group!vars, InFlight
  <1>6. ASSUME \/ SetupFails \/ WriteStats \/ OutputFails \/ Decide
               \/ \E more \in BOOLEAN : WriteReports(more)
               \/ \E d \in Domain, i \in Index : ProbeReturns(d, i)
               \/ \E d \in Domain : Expire(d)
               \/ Terminated \/ UNCHANGED vars
        PROVE  UNCHANGED Group!vars
    BY <1>6 DEF SetupFails, WriteStats, OutputFails, Decide, WriteReports,
                ProbeReturns, Expire, Terminated, vars, world, errs, Group!vars
  <1> QED
    BY <1>1, <1>2, <1>3, <1>4, <1>5, <1>6 DEF Next, MainStep, DomainStep

\* cli.go:179-190: a scan keeps the contract of a fan-out group.
THEOREM ScanIsFanOut == Spec => ImplementsFanOut
  BY RefinesInit, RefinesStep, ScanInvariant, PTL DEF Spec, ImplementsFanOut, Group!Spec
=============================================================================
