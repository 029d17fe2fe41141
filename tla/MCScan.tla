------------------------------- MODULE MCScan -------------------------------
(***************************************************************************)
(* Scan for TLC, with the outcomes of the translated probes.               *)
(***************************************************************************)
EXTENDS Scan, Verdicts, Stats

\* Parts of the list of buildProbes: TLC cannot run all probes for several
\* domains.  The active probe comes last in the list, and its two features
\* before bimi's in the report.
TwoProbes == <<"bimi", "mtatls">>

\* The whole list, without --active.
CLIProbes == <<"spf", "dmarc", "dkim", "mx", "mta-sts", "tls-rpt", "bimi", "dnssec">>

\* stats.go:40-83, stats_test.go:51-66: what Compute's loops count is the table,
\* also where the reports differ in their features, and so rows in their totals.
Row1 == {<<>>} \cup {<<[name |-> "spf", status |-> s]>> : s \in {"present", "absent", "skipped"}}
Row2 == {<<>>} \cup {<<[name |-> "dkim", status |-> s]>> : s \in {"present", "unknown", "skipped"}}
AnyReport == {[features |-> r1 \o r2] : r1 \in Row1, r2 \in Row2}
ASSUME ComputeCounts == \A reps \in [1 .. 3 -> AnyReport] : TableOf(Compute(reps), reps)

\* At most one probe of one domain loses requests within the budget; any number
\* of others hears nothing at all.
OneFlaky == Init /\ Cardinality(flaky) <= 1
OneFlakySpec == OneFlaky /\ [][Next]_vars

\* A scan of domains none of whose servers can be reached.
NothingAnswers == Init /\ down = Domain \X Index
NothingAnswersSpec == NothingAnswers /\ [][Next]_vars
=============================================================================
