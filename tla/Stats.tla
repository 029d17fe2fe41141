------------------------------- MODULE Stats -------------------------------
(***************************************************************************)
(* internal/output/stats.go: how many domains have a feature, over the     *)
(* reports of a scan.                                                      *)
(***************************************************************************)
EXTENDS Integers, FiniteSets, Sequences, SequencesExt

Measured == {"present", "absent", "misconfigured", "unknown"}

\* How string comparison orders the names of features.
alphabetical(name) ==
    CASE name = "bimi"     -> 1
      [] name = "dane"     -> 2
      [] name = "dkim"     -> 3
      [] name = "dmarc"    -> 4
      [] name = "dnssec"   -> 5
      [] name = "mta-sts"  -> 6
      [] name = "mx"       -> 7
      [] name = "spf"      -> 8
      [] name = "starttls" -> 9
      [] name = "tls-rpt"  -> 10

FeatureStat(name) == [feature |-> name, total |-> 0, of |-> [s \in Measured |-> 0]]

Bumped(row, status) == [row EXCEPT !.total = @ + 1, !.of[status] = @ + 1]

\* A bug: a feature that was skipped counts as one that was looked at.
Counted_Skipped(rows, f) ==
    LET at == {k \in DOMAIN rows : rows[k].feature = f.name}
        s  == IF f.status = "skipped" THEN "unknown" ELSE f.status
    IN  IF at = {} THEN Append(rows, Bumped(FeatureStat(f.name), s))
        ELSE [rows EXCEPT ![CHOOSE k \in at : TRUE] = Bumped(@, s)]

\* One feature of one report is counted, in a new row if it is the first of
\* its name.
Counted(rows, f) ==
    LET at == {k \in DOMAIN rows : rows[k].feature = f.name}
    IN  IF f.status = "skipped" THEN rows
        ELSE IF at = {} THEN Append(rows, Bumped(FeatureStat(f.name), f.status))
        ELSE [rows EXCEPT ![CHOOSE k \in at : TRUE] = Bumped(@, f.status)]

\* By total, the largest first, then by name.
Above(r1, r2) ==
    \/ r1.total > r2.total
    \/ r1.total = r2.total /\ alphabetical(r1.feature) < alphabetical(r2.feature)

\* sort.SliceStable: ties keep the order they had.
InOrder(rows) ==
    LET Before(i, j) == Above(rows[i], rows[j]) \/ (~Above(rows[j], rows[i]) /\ i < j)
        Rank(i) == Cardinality({j \in DOMAIN rows : Before(j, i)})
    IN  [k \in DOMAIN rows |-> rows[CHOOSE i \in DOMAIN rows : Rank(i) = k - 1]]

Compute(reports) ==
    LET features == FlattenSeq([d \in DOMAIN reports |-> reports[d].features])
    IN  [domains  |-> Len(reports),
         features |-> InOrder(FoldLeft(Counted, <<>>, features))]

\* The share that a cell of the table shows, rounded down; a row has a total.
countCell(n, total) == [n |-> n, percent |-> (n * 100) \div total]

-----------------------------------------------------------------------------

\* What a table has to say, without counting loops: a row for every feature
\* that some report has a verdict on, the domains with that verdict in its
\* columns, the largest rows first, and percentages that lack less than a
\* point each of a hundred.
TableOf(stats, reports) ==
    LET rows == stats.features
        With(name, S) == {d \in DOMAIN reports :
            \E k \in DOMAIN reports[d].features :
                /\ reports[d].features[k].name = name
                /\ reports[d].features[k].status \in S}
        Share(row, s) == countCell(row.of[s], row.total).percent
        Shares(row) == Share(row, "present") + Share(row, "absent")
                         + Share(row, "misconfigured") + Share(row, "unknown")
    IN  /\ stats.domains = Len(reports)
        /\ {rows[k].feature : k \in DOMAIN rows} =
               {f.name : f \in {g \in UNION {ToSet(reports[d].features) : d \in DOMAIN reports} :
                                   g.status \in Measured}}
        /\ \A k \in DOMAIN rows :
              /\ rows[k].total = Cardinality(With(rows[k].feature, Measured))
              /\ \A s \in Measured : rows[k].of[s] = Cardinality(With(rows[k].feature, {s}))
              /\ Shares(rows[k]) \in 97 .. 100
        /\ \A j, k \in DOMAIN rows : j < k => Above(rows[j], rows[k])
=============================================================================
