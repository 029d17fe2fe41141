------------------------------ MODULE Program ------------------------------
(***************************************************************************)
(* A whole call of mailsec-probe: the domains it is given (Input), their   *)
(* scan (Scan) and the statistics of --stats (Stats).  Domain d of Scan is *)
(* the d-th of the merged names.                                           *)
(***************************************************************************)
EXTENDS ScanFanOut, Input, Stats

\* The names on command lines and the lines of their --input files.
CONSTANT CommandLines

\* The different names that a command line gives.
Given(c) == {normal[s] : s \in ToSet(c.args) \cup (ToSet(c.file) \ Comment)} \ {NoName}

\* Each gives as many as Scan has domains, or none.
ASSUME ProgramAssumption ==
    /\ CommandLines \subseteq [args : Seq(DOMAIN normal), file : Seq(DOMAIN normal)]
    /\ \A c \in CommandLines : Cardinality(Given(c)) \in {0, NumDomains}

VARIABLES
    args,    \* the positional arguments
    file,    \* the lines of the --input file, none without one
    noDKIM,  \* --no-dkim was given
    names,   \* what mergeDomains returned
    summary  \* the statistics written to stdout, NoSummary without any

input == <<args, file, noDKIM>>
programVars == <<vars, input, names, summary>>

NoSummary == [domains |-> 0, features |-> <<>>]

ProgramInit ==
    /\ Init
    /\ \E c \in CommandLines : args = c.args /\ file = c.file
    /\ noDKIM \in BOOLEAN
    /\ names = <<>>
    /\ summary = NoSummary

\* With SetupDone: the arguments come before the file; no name, no scan.
TakesNames ==
    IF main = "setup" /\ main' = "spawn"
    THEN /\ names' = mergeDomains(args, readDomainsFile(file))
         /\ names' # <<>>
    ELSE UNCHANGED names

\* With ProbeReturns: buildProbes put the stub in the place of the DKIM probe
\* if it was told to, and for all domains.
DkimAsListed ==
    \A d \in Domain, i \in Index : \A k \in DOMAIN perProbe'[d][i] :
        perProbe'[d][i][k].status = "skipped" <=> noDKIM /\ ProbeList[i] = "dkim"

\* With WriteStats, and in json with WriteReports, if --stats asks for them.
WritesSummary ==
    IF main = "stats" /\ main' = "decide" THEN summary' = Compute(reports)
    ELSE IF main = "render" /\ main' = "decide" THEN summary' \in {NoSummary, Compute(reports)}
    ELSE UNCHANGED summary

ProgramNext ==
    /\ Next
    /\ TakesNames
    /\ DkimAsListed
    /\ WritesSummary
    /\ UNCHANGED input

ProgramSpec == ProgramInit /\ [][ProgramNext]_programVars
ProgramFairSpec == ProgramSpec /\ Fairness

-----------------------------------------------------------------------------
(* Properties.                                                             *)

\* What was typed, comments aside, in the order of first mention.
Typed == args \o Picked(file, {k \in DOMAIN file : file[k] \notin Comment})
FirstMention(name) ==
    CHOOSE k \in DOMAIN Typed : /\ normal[Typed[k]] = name
                                /\ \A j \in 1 .. k - 1 : normal[Typed[j]] # name

\* input.go:54-74, README.md "Batch scanning": every domain that was given, in
\* whatever spelling, is scanned, and once; reports come in the order in which
\* the domains were first given, arguments before the file.
InputIsMerged ==
    main \notin {"setup", "refused"} =>
        /\ ToSet(names) = {normal[s] : s \in ToSet(Typed)} \ {NoName}
        /\ Len(names) = NumDomains
        /\ \A i, j \in DOMAIN names :
              i < j => FirstMention(names[i]) < FirstMention(names[j])

\* stats.go:18-21, 46-50: the table written is that of the final reports; each
\* row covers all domains of the scan, and a skipped feature has none, so that
\* it lowers no percentage.
StatsAddUp ==
    summary # NoSummary =>
        /\ TableOf(summary, reports)
        /\ \A k \in DOMAIN summary.features :
              /\ summary.features[k].total = NumDomains
              /\ noDKIM => summary.features[k].feature # "dkim"
=============================================================================
