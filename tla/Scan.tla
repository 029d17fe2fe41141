-------------------------------- MODULE Scan --------------------------------
(***************************************************************************)
(* One run of mailsec-probe: internal/cli/cli.go `run' and the             *)
(* classifier.Runner it drives.                                            *)
(*                                                                         *)
(* The main goroutine spawns one goroutine per domain through an errgroup  *)
(* limited to --concurrency tokens; each gives its domain a budget, runs   *)
(* every probe of the list in parallel, each into its own slot, sorts the  *)
(* features into the canonical order and fills reports[d].  When all are   *)
(* done the main goroutine writes the output and picks the exit code.      *)
(*                                                                         *)
(* Time is abstracted to one fact per domain: whether its budget           *)
(* (context.WithTimeout, opts.timeout*2) has run out.  Which servers never *)
(* answer (`down'), and which lose single requests to timeouts shorter     *)
(* than the budget (`flaky'), is the environment's choice; what a probe    *)
(* makes of answers is the constant table Verdict, computed for model      *)
(* checking from the modules that translate the probes.                    *)
(***************************************************************************)
EXTENDS Integers, FiniteSets, Sequences, SequencesExt

CONSTANTS
    NumDomains,  \* domains left after mergeDomains
    Limit,       \* --concurrency, as handed to errgroup.SetLimit
    ProbeList,   \* the probes, in the order buildProbes lists them
    Verdict      \* probe -> how much it heard -> the outcomes it may return

Status == {"present", "absent", "unknown", "misconfigured", "skipped"}

\* How much of what a probe asked was answered.
Heard == {"answered", "partial", "failed"}

ProbeName == {"spf", "dmarc", "dkim", "mx", "mta-sts", "tls-rpt", "bimi",
              "dnssec", "mtatls"}

\* A probe's features: one named after it, except the active SMTP probe's two.
FeaturesOf(p) == IF p = "mtatls" THEN <<"starttls", "dane">> ELSE <<p>>

Domain == 1 .. NumDomains
Index == 1 .. Len(ProbeList)

ASSUME ScanAssumption ==
    /\ NumDomains \in Nat \ {0}
    /\ Limit \in Int
    /\ ProbeList \in Seq(ProbeName)
    /\ ProbeList # <<>>
    /\ \A i \in Index :
          /\ Verdict[ProbeList[i]]["answered"] # {}
          /\ Verdict[ProbeList[i]]["failed"] # {}
          /\ \A h \in Heard : \A o \in Verdict[ProbeList[i]][h] :
                o \in [DOMAIN FeaturesOf(ProbeList[i]) -> Status]

\* buildProbes lists no probe twice.
ASSUME ProbesAssumption ==
    \A i, j \in Index : ProbeList[i] = ProbeList[j] => i = j

\* No probe takes a failed request for a finding.
ASSUME FailedRowsAssumption ==
    \A i \in Index : \A o \in Verdict[ProbeList[i]]["failed"] :
        \A k \in DOMAIN o : o[k] \notin {"present", "misconfigured"}

-----------------------------------------------------------------------------
(* Features and reports.                                                   *)

\* The canonical display position of a feature; an unlisted one goes last.
featureOrder(name) ==
    CASE name = "spf"      -> 1
      [] name = "dmarc"    -> 2
      [] name = "dkim"     -> 3
      [] name = "mx"       -> 4
      [] name = "starttls" -> 5
      [] name = "dane"     -> 6
      [] name = "mta-sts"  -> 7
      [] name = "tls-rpt"  -> 8
      [] name = "bimi"     -> 9
      [] name = "dnssec"   -> 10
      [] OTHER             -> 99

\* What probe i writes to its slot for an outcome (a status per feature).
FeaturesWith(i, outcome) ==
    [k \in DOMAIN outcome |->
        [name |-> FeaturesOf(ProbeList[i])[k], status |-> outcome[k]]]

Outcomes(i) ==
    {FeaturesWith(i, o) : o \in UNION {Verdict[ProbeList[i]][h] : h \in Heard}}

NoFeatures == <<>>  \* a nil slot of perProbe

SlotArrays ==
    [Index -> {NoFeatures} \cup UNION {Outcomes(i) : i \in Index}]

\* sort.SliceStable by featureOrder: ties keep the order they had.
Canonical(features) ==
    LET Before(i, j) ==
            \/ featureOrder(features[i].name) < featureOrder(features[j].name)
            \/ /\ featureOrder(features[i].name) = featureOrder(features[j].name)
               /\ i < j
        Rank(i) == Cardinality({j \in DOMAIN features : Before(j, i)})
    IN  [k \in DOMAIN features |->
            features[CHOOSE i \in DOMAIN features : Rank(i) = k - 1]]

\* A bug this guards against: sorting forgotten, rows in probe order.
Report_Unsorted(d, slots) ==
    [domain |-> d, features |-> FlattenSeq(slots)]

Report(d, slots) ==
    [domain |-> d, features |-> Canonical(FlattenSeq(slots))]

NoReport == [domain |-> 0, features |-> <<>>]  \* the zero signals.Report

-----------------------------------------------------------------------------

VARIABLES
    main,      \* the main goroutine: where it is in `run'
    next,      \* the next domain its loop hands to g.Go
    pc,        \* domain -> where its goroutine is
    ctx,       \* domain -> its context: "none", "live" or "done"
    perProbe,  \* domain -> the slots of classifier.Run
    reports,   \* domain -> its report
    late,      \* the domains whose budget ran out while they were probed
    groupErr,  \* domain -> the first error returned to classifier.Run's group
    runErr,    \* the first error returned to the group of `run'
    down,      \* the <<domain, probe index>> pairs whose servers never answer
    flaky,     \* those some of whose requests fail, each by its own timeout
    out,       \* the blocks written to stdout
    exit       \* the exit code, NoExit until then

world == <<down, flaky>>
errs == <<groupErr, runErr>>
vars == <<main, next, pc, ctx, perProbe, reports, late, world, errs, out, exit>>

Main == {"setup", "refused", "spawn", "render", "stats", "decide", "exited"}
Place == {"queued", "spawned", "probing", "reported", "done"}
NoExit == -1
Error == {"nil", "error"}

\* The domains whose goroutine holds a token of the errgroup.
Held == {d \in Domain : pc[d] \in {"spawned", "probing", "reported"}}

TypeOK ==
    /\ main \in Main
    /\ next \in 1 .. NumDomains + 1
    /\ pc \in [Domain -> Place]
    /\ ctx \in [Domain -> {"none", "live", "done"}]
    /\ perProbe \in [Domain -> SlotArrays]
    /\ DOMAIN reports = Domain
    /\ \A d \in Domain : reports[d] \in {NoReport, Report(d, perProbe[d])}
    /\ late \in SUBSET Domain
    /\ groupErr \in [Domain -> Error]
    /\ runErr \in Error
    /\ down \in SUBSET (Domain \X Index)
    /\ flaky \in SUBSET (Domain \X Index)
    /\ out \in {<<>>, <<"reports">>, <<"reports", "stats">>}
    /\ exit \in {NoExit, 0, 1, 2}

Init ==
    /\ main = "setup"
    /\ next = 1
    /\ pc = [d \in Domain |-> "queued"]
    /\ ctx = [d \in Domain |-> "none"]
    /\ perProbe = [d \in Domain |-> [i \in Index |-> NoFeatures]]
    /\ reports = [d \in Domain |-> NoReport]
    /\ late = {}
    /\ groupErr = [d \in Domain |-> "nil"]
    /\ runErr = "nil"
    /\ down \in SUBSET (Domain \X Index)
    /\ flaky \in SUBSET (Domain \X Index \ down)
    /\ out = <<>>
    /\ exit = NoExit

-----------------------------------------------------------------------------
(* The main goroutine up to the loop.                                      *)

\* Unreadable --input, no domain, a bad --dnssec-mode or selector file, a
\* transport that cannot be built: `run' returns before anything is scanned.
SetupFails ==
    /\ main = "setup"
    /\ main' = "refused"
    /\ exit' = 2
    /\ UNCHANGED <<next, pc, ctx, perProbe, reports, late, world, errs, out>>

SetupDone ==
    /\ main = "setup"
    /\ main' = "spawn"
    /\ UNCHANGED <<next, pc, ctx, perProbe, reports, late, world, errs, out, exit>>

\* Bugs: SetLimit is forgotten; a finished goroutine keeps its token.
Room_Unlimited(n) == TRUE
Room_Leaky(n) == Limit < 0 \/ next <= Limit

\* errgroup.Group.Go blocks while Limit goroutines hold a token; a negative
\* limit is none at all.
Room(n) == Limit < 0 \/ n < Limit

\* The loop hands domain d to g.Go.
Go(d) ==
    /\ main = "spawn"
    /\ d = next
    /\ Room(Cardinality(Held))
    /\ pc' = [pc EXCEPT ![d] = "spawned"]
    /\ next' = next + 1
    /\ UNCHANGED <<main, ctx, perProbe, reports, late, world, errs, out, exit>>

-----------------------------------------------------------------------------
(* A domain's goroutine and its probes.                                    *)

\* The goroutine runs: its context gets its whole budget now, however long
\* the domain was queued, and classifier.Run starts every probe at once.
Begin(d) ==
    /\ pc[d] = "spawned"
    /\ pc' = [pc EXCEPT ![d] = "probing"]
    /\ ctx' = [ctx EXCEPT ![d] = "live"]
    /\ UNCHANGED <<main, next, perProbe, reports, late, world, errs, out, exit>>

\* The budget of a domain being probed runs out.
Expire(d) ==
    /\ pc[d] = "probing"
    /\ ctx[d] = "live"
    /\ ctx' = [ctx EXCEPT ![d] = "done"]
    /\ late' = late \cup {d}
    /\ UNCHANGED <<main, next, pc, perProbe, reports, world, errs, out, exit>>

\* What probe i of domain d runs under: a context that ends with the budget,
\* with the first error of a sibling, and with the first error of a domain.
Live(d) == ctx[d] = "live" /\ groupErr[d] = "nil" /\ runErr = "nil"

\* What probe i of domain d may have heard by the time it returns: nothing
\* where nobody answers; everything, if it had the time and lost no request to
\* a timeout shorter than the budget (a lookup's, an HTTP client's); otherwise
\* anything, since each request may have come before or after.
MayHear(d, i) ==
    IF <<d, i>> \in down THEN {"failed"}
    ELSE IF Live(d) /\ <<d, i>> \notin flaky THEN {"answered"}
    ELSE Heard

\* errgroup keeps the first error it is given, and cancels its context.
First(err, new) == IF err = "nil" THEN new ELSE err

\* A bug: a probe that could not observe anything says so to its group.
ProbeError_Unknown(features) ==
    IF \A k \in DOMAIN features : features[k].status = "unknown" THEN "error" ELSE "nil"

\* What the goroutine of a probe returns to its group, and that of a domain.
ProbeError(features) == "nil"
DomainError(report) == "nil"

\* A bug: results are appended as they come instead of stored by index.
ProbeReturns_InCompletionOrder(d, i) ==
    /\ pc[d] = "probing"
    /\ \E j \in Index :
          /\ perProbe[d][j] = NoFeatures /\ \A k \in 1 .. j - 1 : perProbe[d][k] # NoFeatures
          /\ \E h \in MayHear(d, i) : \E o \in Verdict[ProbeList[i]][h] :
                perProbe' = [perProbe EXCEPT ![d][j] = FeaturesWith(i, o)]
    /\ UNCHANGED <<main, next, pc, ctx, reports, late, world, errs, out, exit>>

\* Probe i of domain d returns: its features go to its slot, its error to the
\* group.
ProbeReturns(d, i) ==
    /\ pc[d] = "probing"
    /\ perProbe[d][i] = NoFeatures
    /\ \E h \in MayHear(d, i) : \E o \in Verdict[ProbeList[i]][h] :
          /\ perProbe' = [perProbe EXCEPT ![d][i] = FeaturesWith(i, o)]
          /\ groupErr' = [groupErr EXCEPT ![d] = First(@, ProbeError(FeaturesWith(i, o)))]
    /\ UNCHANGED <<main, next, pc, ctx, reports, late, runErr, world, out, exit>>

\* A bug: the classifier does not wait for its probes.
AllReturned_NoWait(d) == TRUE

AllReturned(d) == \A i \in Index : perProbe[d][i] # NoFeatures

\* A bug: the closure reads the loop variable when it runs, not when it was
\* made, and so writes the slot the loop has reached.
SlotOf_SharedLoopVariable(d) == next - 1

\* The slot of `reports' that the goroutine of domain d writes.
SlotOf(d) == d

\* classifier.Run's Wait returns: the slots are flattened and sorted, the
\* report goes to reports[d], and the deferred cancel ends the context.
WriteReport(d) ==
    /\ pc[d] = "probing"
    /\ AllReturned(d)
    /\ reports' = [reports EXCEPT ![SlotOf(d)] = Report(d, perProbe[d])]
    /\ ctx' = [ctx EXCEPT ![d] = "done"]
    /\ pc' = [pc EXCEPT ![d] = "reported"]
    /\ UNCHANGED <<main, next, perProbe, late, world, errs, out, exit>>

\* The goroutine returns and gives its token back.
Release(d) ==
    /\ pc[d] = "reported"
    /\ pc' = [pc EXCEPT ![d] = "done"]
    /\ runErr' = First(runErr, DomainError(reports[d]))
    /\ UNCHANGED <<main, next, ctx, perProbe, reports, late, groupErr, world, out, exit>>

-----------------------------------------------------------------------------
(* The main goroutine after the loop.                                      *)

\* A bug: the main goroutine goes on once every domain is spawned.
WaitReturns_Early ==
    /\ main = "spawn"
    /\ next > NumDomains
    /\ main' = "render"
    /\ UNCHANGED <<next, pc, ctx, perProbe, reports, late, world, errs, out, exit>>

\* g.Wait() returns once the goroutine of every domain has returned.
WaitReturns ==
    /\ main = "spawn"
    /\ next > NumDomains
    /\ Held = {}
    /\ main' = "render"
    /\ UNCHANGED <<next, pc, ctx, perProbe, reports, late, world, errs, out, exit>>

\* The reports are written in the format of --output (json carries the
\* statistics in the same document), followed with --stats by a block of
\* their own in the other formats.
WriteReports(more) ==
    /\ main = "render"
    /\ out' = <<"reports">>
    /\ main' = IF more THEN "stats" ELSE "decide"
    /\ UNCHANGED <<next, pc, ctx, perProbe, reports, late, world, errs, exit>>

WriteStats ==
    /\ main = "stats"
    /\ out' = <<"reports", "stats">>
    /\ main' = "decide"
    /\ UNCHANGED <<next, pc, ctx, perProbe, reports, late, world, errs, exit>>

\* A write to stdout fails, or the format is unknown, which is found out
\* only here, after the scan.
OutputFails ==
    /\ main \in {"render", "stats"}
    /\ main' = "exited"
    /\ exit' = 2
    /\ UNCHANGED <<next, pc, ctx, perProbe, reports, late, world, errs, out>>

\* Some domain has no feature, or nothing but unknown ones.  (Errors, which
\* the code also looks at, are set only for an empty domain name, and
\* mergeDomains lets none through.)
AnyDomainFailed ==
    \E d \in Domain :
        \A k \in DOMAIN reports[d].features :
            reports[d].features[k].status = "unknown"

Decide ==
    /\ main = "decide"
    /\ main' = "exited"
    /\ exit' = IF AnyDomainFailed THEN 1 ELSE 0
    /\ UNCHANGED <<next, pc, ctx, perProbe, reports, late, world, errs, out>>

\* The process is gone.
Terminated == main \in {"refused", "exited"} /\ UNCHANGED vars

-----------------------------------------------------------------------------

DomainStep(d) ==
    \/ Begin(d)
    \/ \E i \in Index : ProbeReturns(d, i)
    \/ WriteReport(d)
    \/ Release(d)

MainStep ==
    \/ SetupFails
    \/ SetupDone
    \/ \E d \in Domain : Go(d)
    \/ WaitReturns
    \/ \E more \in BOOLEAN : WriteReports(more)
    \/ WriteStats
    \/ OutputFails
    \/ Decide

Next ==
    \/ MainStep
    \/ \E d \in Domain : DomainStep(d) \/ Expire(d)
    \/ Terminated

Spec == Init /\ [][Next]_vars

\* The Go scheduler runs every goroutine that can run, and the budget of a
\* domain ends.  A probe is sure to return only then: its lookups and requests
\* end with the context (over DoH, where the timeouts of three providers add up
\* past the budget, nothing else ends one in time), its SMTP sessions by their
\* own deadline.
Fairness ==
    /\ WF_vars(MainStep)
    /\ \A d \in Domain :
          /\ WF_vars(Begin(d) \/ WriteReport(d) \/ Release(d))
          /\ WF_vars(Expire(d))
          /\ \A i \in Index : WF_vars(~Live(d) /\ ProbeReturns(d, i))

FairSpec == Spec /\ Fairness

-----------------------------------------------------------------------------
(* Properties.                                                             *)

Scanned == main \in {"render", "stats", "decide", "exited"}

\* cli.go:172-190: by the time anything is written every domain has its own
\* report in its own slot, made of what all of its probes returned, whatever
\* order domains and probes finished in.
EveryReportIsWhole ==
    Scanned => \A d \in Domain :
        /\ \A i \in Index : perProbe[d][i] # NoFeatures
        /\ reports[d].domain = d
        /\ reports[d] = Report(d, perProbe[d])

\* cli.go:181: at most --concurrency domains are in flight.
AtMostLimit == Limit >= 0 => Cardinality(Held) <= Limit

\* classifier.go:63-70, cli.go:180-190: failure does not spread.  The groups
\* share contexts, and an error given to one would cancel every sibling; yet a
\* probe that loses no request of its own, of a domain whose own budget holds,
\* returns a verdict on complete answers, whatever its siblings and the other
\* domains run into before it.
FailureDoesNotSpread ==
    \A d \in Domain \ late, i \in Index :
        \/ perProbe[d][i] = NoFeatures
        \/ <<d, i>> \in down \cup flaky
        \/ \E o \in Verdict[ProbeList[i]]["answered"] :
               perProbe[d][i] = FeaturesWith(i, o)

\* signals.go:12-24: silence is no evidence.  A probe nobody answered never
\* reports its feature as there, nor as there and broken.
SilenceIsNoEvidence ==
    \A d \in Domain, i \in Index : <<d, i>> \in down =>
        \A k \in DOMAIN perProbe[d][i] :
            perProbe[d][i][k].status \notin {"present", "misconfigured"}

\* classifier.go:74-80: every report lists all features of the probe list, each
\* once, in the canonical order, so the rows of two domains line up.
RowsLineUp ==
    Scanned => \A d \in Domain :
        LET rows == reports[d].features
        IN  /\ {rows[k].name : k \in DOMAIN rows} =
                   UNION {ToSet(FeaturesOf(ProbeList[i])) : i \in Index}
            /\ \A k \in 1 .. Len(rows) - 1 :
                   featureOrder(rows[k].name) < featureOrder(rows[k + 1].name)

\* README.md "Exit codes": "1 - at least one domain failed observation
\* outright (DNS unreachable etc.)".  So a scan in which no server answered a
\* single probe of some domain does not end with 0.
UnreachableIsNotSuccess ==
    exit = 0 => \A d \in Domain : \E i \in Index : <<d, i>> \notin down

\* Every accepted command line leads to an exit: the loop is never stuck
\* waiting for a token, nor Wait for a goroutine.
EveryScanEnds == <>(main \in {"refused", "exited"})
=============================================================================
