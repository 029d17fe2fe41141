# mailsec-probe in TLA+

`mailsec-probe` observes the e-mail security of a list of domains: it asks DNS,
a policy web server and, on request, the mail servers of each domain, and
reports ten features (SPF, DMARC, DKIM, MX, STARTTLS, DANE, MTA-STS, TLS-RPT,
BIMI, DNSSEC) as present, absent, unknown, misconfigured or skipped. It keeps
nothing on disk and talks to nobody but the servers it observes and those whom
their web servers redirect it to; what is hard about it is that everything happens
at once, that every server may fail to answer, and that the budget of a domain may
run out at any point of it. A report must nevertheless be the domain's own,
complete, in order, and must not turn silence into a finding.

These modules model that, TLC checks them on small instances, and TLAPS proves
the main results for instances of every size.

    tlc -workers 2 -config MCScan.cfg MCScan.tla     # check a run
    tlapm Scan_proofs.tla                            # check a module's proofs

`PROJECT.json` lists the runs, the source lines behind every definition, the
hazards and which property watches which of them, the findings and the theorems.
Paths below are relative to `src/`.

## 1. The system and its parts

| component | code | state it keeps | operations | asks / is asked by |
|---|---|---|---|---|
| command line and run loop | `internal/cli/cli.go` | the list of domains, `reports[i]`, an errgroup with `--concurrency` tokens | set up, one goroutine per domain, output, exit code | drives the classifier |
| classifier | `internal/classifier`, `internal/signals` | `perProbe[i]`, one slot per probe | `Run`: all probes at once, wait, flatten, stable sort | runs the probes under the domain's context |
| dkim probe | `internal/probe/dkim` | selectors of this call, `results[i]` | infer selectors from SPF, look each up, judge | DNS client |
| mtatls probe | `internal/probe/mtatls` | hosts of this call, `mxResults[i]`, `tlsaResults[i]`, `tlsaErrs[i]` | MX lookup, SMTP sessions, TLSA lookups, two verdicts | DNS client, mail servers |
| mta-sts probe | `internal/probe/mtasts`, `httpfetcher` | what was seen so far | TXT marker, policy over HTTPS, MX check, verdict | DNS client, policy host |
| dmarc probe | `internal/probe/dmarc`, `txttag`, `httpfetcher` | none | one lookup, pick and parse the record, HEAD requests to `rua=`, judge | DNS client, web servers |
| other single-lookup probes | `spf`, `mx`, `tlsrpt`, `bimi` | none | one lookup, parse, judge | DNS client |
| dnssec probe | `internal/probe/dnssec` | none (a cache inside `dnsdata-go`) | validate the chain, or read the AD flag and DS | DNS client, verifier |
| DNS client | `internal/probe/dnsclient` | list of servers | exchange over UDP with failover and a TCP retry, or over DoH; decode the answer | all probes |
| domain input | `internal/cli/input.go` | none | read a file, merge with the arguments | run loop |
| statistics, output | `internal/output` | none | count, format | run loop |

How they interact. `run` hands each domain to `g.Go`, which blocks while
`--concurrency` goroutines are in flight. A goroutine gives its domain a context
that ends after `timeout*2` and calls the classifier, which starts all probes in
parallel under that context; the dkim probe fans out once more over selectors
and the mtatls probe twice over MX hosts, each through an errgroup with a limit
of its own. All these goroutines share memory in one way only: an array, each
goroutine writing the slot of its index, the owner reading after `Wait`. No
goroutine ever returns an error to its errgroup, so that no failure cancels a
sibling. Probes share the DNS client, which has no mutable state.

What makes a component correct:

* fan-outs: the limit holds; every slot is written once, before it is read; with
  a positive limit the owner always gets to read;
* run loop and classifier: every report is whole and in its own slot, rows line
  up between domains, failure stays where it happened, a scan always ends;
* dkim: what is looked up is the configured list and what SPF implies, none
  twice; present only for a key in force, absent only if answers were heard, as many
  as the code asks for;
* mtatls: a host's TLSA records are compared with the certificate of that host,
  though both come from different phases; nothing a timeout cut off is called
  present; one connection per MX;
* mta-sts: present only for a domain with marker, policy and covered MX hosts;
  a mismatch is blamed on no host that is covered;
* DNS client: one outcome per lookup; an answer is all records of the type asked
  for or, after an error code, none, never a cut answer; failover reaches the
  first server that answers if there is time for it; both transports tell the
  probes the same of the same zone;
* dmarc: the verdict is that of the first v=DMARC1 record, whatever becomes of
  the endpoints; the mark at `rua` is earned, redirects included;
* input and statistics: every domain given is scanned once, in the order given;
  the table adds up, and what was skipped is not in it.

What is hard to test about it is listed, line by line, under `hazards` in
`PROJECT.json`: completion orders of three levels of goroutines, a context that
ends between any two steps, servers that fail in any combination, integer
division at small numbers, MX names under several spellings, repeated policy
lines, silent servers that use up the time of those after them, redirects. A unit
test fixes one schedule and one failure.

## 2. The modules

| module | models | is used by |
|---|---|---|
| `FanOut` | the abstract contract of errgroup + indexed slots + `Wait` | implemented by Scan, Dkim, MtaTls (twice) |
| `Verdicts` | the judgement at the end of every probe, and the table of what a probe may say by how much it heard | Dkim, MtaTls, MtaSts; MCScan |
| `Pick` | loops that keep some elements of a slice, in order | Dkim, MtaTls, MtaSts, Input, Program |
| `Scan`, `ScanFanOut` | `run` and `classifier.Run`; its refinement of FanOut | |
| `Dkim`, `DkimFanOut` | the dkim probe; its refinement | |
| `MtaTls`, `MtaTlsFanOut` | the active SMTP probe; both its refinements | |
| `MtaSts` | the mta-sts probe | |
| `Lookup` | what a probe may expect of one DNS lookup | implemented by Dns |
| `Dns` | one lookup over UDP/TCP or DoH: servers, deadlines, decoding | Dmarc |
| `TxtTag` | tag=value records | Dmarc |
| `Dmarc` | the dmarc probe on top of Dns and TxtTag | |
| `Input`, `Stats` | the domains of a scan; the counting of `--stats` | Program |
| `Program` | Input, Scan and Stats composed: a whole call | |
| `MC*` | instances for TLC | |
| `*_proofs` | theorems (FanOut, Scan, Pick, Dkim, MtaTls, MtaSts, Program, Dns with Dmarc) | |

In all of them operators whose name has a suffix (`Room_Leaky`,
`Hit_BareFirst`) are bugs: each is the neighbouring definition changed the way a
plausible slip in the code would change it, and `PROJECT.json` says which
property catches it. They take no part in the specifications.

**Scan.** `main` is where the main goroutine is in `run`, `next` the loop
variable, `pc[d]` where domain d's goroutine is, `ctx[d]` its context,
`perProbe[d]` the slots of `classifier.Run`, `reports` the slice of that name.
`SetupFails`/`SetupDone` stand for everything before the loop (files, selector
list, transports, DNSSEC mode), `Go` for `g.Go`, `Begin` for the goroutine's
first statement, which starts the budget only then, however long the domain
was queued, `ProbeReturns` for one probe filling its slot, `WriteReport` for
`Wait`, flatten, sort and the store into `reports`, `Release` for the return
that frees the token; then `WaitReturns`, `WriteReports`, `WriteStats`,
`OutputFails`, `Decide`. The contexts hang together as in the code: the
probes of a domain run under the context of `classifier.Run`'s group, which hangs
on the budget of the domain, which hangs on the context of `run`'s group.
`groupErr[d]` and `runErr` are the first errors that goroutines returned to these
groups; each would end what hangs on it (`Live`). The goroutines return nil
(`ProbeError`, `DomainError`), and with `ProbeError_Unknown` for the first of them
`FailureDoesNotSpread` breaks. The environment chooses which probes' servers are
`down`, which probes are `flaky`, that is, may lose some of their requests to a
timeout shorter than the budget (dnsclient.go:199, httpfetcher.go:33) or to an
error, and when a budget ends (`Expire`); `MayHear` says what that leaves a probe.
What a probe makes of its answers is the constant `Verdict`, which the runs bind to
`Verdicts!VerdictTable`; the proofs hold for every table.

**Dkim.** `InferHears`/`InferSkips` are `inferSelectorsFromSPF` and the merge
behind it, `Go`, `Hears`, `Fails` the goroutines over selectors, `Judge` all of
`runOne` after `Wait`. TXT answers are sequences of record kinds, since what the
verdict depends on is which of several records is taken (first `v=DKIM1`, else
first with `p=` or `k=`) and whether it is revoked.

**MtaTls.** `MxFails`, `MxRefusesMail`, `MxHears` are the lookup and its early
returns; `Connects`, `DialFails`, `SessionReturns` an SMTP session, whose dial
heeds the domain's context while the rest heeds only its own deadline;
`WaitSessions` the boundary of the phases; `LookupReturns` the TLSA lookups;
`Judge` the assembly of both features. A session is abstracted to the stage at
which it ends and the chain of certificates its host presents (`chainOf`), of which
only the leaf counts; a TLSA record names the certificate that it is of. So a
certificate has an identity of its own, and comparing one host's records with
another's, or with an issuer's, makes a difference. Names are normalised by a given
function.

**MtaSts.** Three requests in sequence, each answered or failed, `Wanted` the
condition of the third; `parsePolicy` and `compareMXAgainstPolicy` are modelled
on names as sequences of labels, trailing dots and upper case included.

**Verdicts.** One operator per closing `switch`. For the probes that are not
modelled step by step this is all that is modelled of them. `VerdictTable`
enumerates an operator's observations; `OutcomeAsTabulated` (MtaTls, MtaSts)
checks that the table that Scan gets agrees with the step-by-step models.

**Dns.** One `exchange` or `Resolve`, from `started` to an outcome. `server` is
the loop variable of `exchange`; `Deadline` is when the request that is made now
ends: over UDP the end of `dctx`, which is made once before the loop, over DoH
the timeout of one provider, in both cases not after the domain's budget.
`UdpAnswers`, `UdpCut` (TC bit), `UdpFails`, `TcpAnswers`, `TcpFails` are the
branches of the loop, `Failover` its next round or its end, `DohAnswers` and
`DohFails` the one call of `Resolve`, whose list of providers belongs to
`dnsdata-go` and is modelled after README.md:211-221. `clock` jumps to the moment
at which a request ends. `DohReads`, `UdpReads` and `Records` are the loops over
an answer section; a TXT record goes through the presentation form that
`dnsdata-go` gives it and back through `decodeTXTPresentation`. That form is not in
the repository. It is modelled as that of zone files and of `miekg/dns`: quotes and
backslashes behind a backslash, bytes outside `' '..'~'` as a backslash and three
digits (`Printed`, by the given function `decimal`); doh.go:126-128 mentions quotes
and backslashes only. Whether a TLSA record's data can be decoded (hexadecimal for
UDP, a handler for DoH) is an input, and records that cannot are skipped, as in the
code; nothing is claimed of the transports' agreement on TLSA and DS.

**Dmarc.** `LookupFailed`, `NoRecord`, `HasRecord` are the branches after the
lookup, `Skips` the rounds of the loop over the `rua=` list that send nothing,
`HeadSends` the start of the others: the HTTP client has no `CheckRedirect`
(httpfetcher.go:31-39), so that it goes on to whom it is sent (`HeadRedirected`),
on any host, up to `MaxRequests` requests (ten in `net/http`), all under the one
timeout of the client and the domain's context (`HeadDeadline`); `HeadAnswers` is the
status that is not followed, or the error of one redirect too many, `HeadTimesOut`
the end of the time. `visited` is the chain of requests so far, `began` the time of
its first. `Judge` is the rest of `runOne`; the mark is what `Summary` makes of
the checks. Texts are sequences of tokens, the characters the code looks for and
words between them. Behaviours with `mine` FALSE are lookups of other probes,
of any type and begun anywhere in the budget.

**Program.** Adds to every step of Scan what it does to `names` and `summary`:
`TakesNames` with `SetupDone`, `WritesSummary` with the output steps, and
`DkimAsListed`, by which `--no-dkim` holds for all domains of a call.

In Scan, Dkim, MtaTls and MtaSts time is modelled by its one effect: after `Expire`
every request of the domain that has not been answered fails, and so does every later one. In Scan, where
a probe of several requests is one step, a probe that returns after `Expire`, or
that is `flaky`, may have heard all, some or none of its answers. In Dkim, MtaTls
and MtaSts each request is a step, and may fail at any time for names that are
`dead`.

## 3. The runs

| run | bounds | question |
|---|---|---|
| `fan_out` | 3 tasks, limit 2, 2 values | do limit, completeness, finality and termination follow from the steps of a group? |
| `scan` | 2 domains, limit 2, probes bimi and mtatls (three features, whose list order is not the report order), all outcomes, all `down` sets, at most one `flaky` probe | whole, ordered, uncontaminated reports |
| `scan_limit` | 3 domains, limit 2, one probe, 3 command lines, `--no-dkim` or not | names, limit, refinement of FanOut, statistics, every scan ends |
| `dkim` | 2 configured selectors, 2 implied (one of them configured), limit 2, all mixes of up to 2 records as wildcards and 27 zones that differ per selector, all sets of dead names | selectors tried, verdict, refinement, termination |
| `mtatls` | 2 hosts in 3 spellings and the root, 6 MX answers, all 5 session stages per host, a chain of leaf and common issuer for each, 4 TLSA answers (none, one's own, the other's and the issuer's, both), all dead sets, limit 2 | both phases, both verdicts, both refinements, termination |
| `mtasts` | every policy of up to 3 lines out of 7, 3 TXT answers, 4 MX answers; every pattern against every host of up to 3 labels; all dead sets | verdict against the deployment, MX comparison |
| `dmarc` | 2 servers, each with any of 7 ways and 2 delays, 2 starts, 4 types, 7 answer sections (one with a byte that cannot be printed, one the null MX), lists of up to 5 endpoints, 20 webs (answers, redirects to a login that answers or not, to itself, to the other endpoint), chains of up to 3 requests, both transports | contract of a lookup, failover, transports, verdict, mark |
| `scan_zero`, `scan_unreachable`, `dkim_majority`, `dmarc_nullmx`, `mtatls_blocked` | as above, smaller | the findings of section 6 |

Why these bounds are enough to mean something. Slots belong to one goroutine
each, so what can go wrong between goroutines needs two of them, and what can go
wrong with tokens needs one goroutine more than tokens: `scan_limit` has that,
`dkim` (three selectors, two tokens) and `mtatls` (with two hosts and two tokens
the limit itself is not put to the test there; `fan_out` and the proofs are
where it is). Verdicts are about "all", "some" and "none" of a set, which two
hosts or selectors tell apart; "most" needs three, which `dkim_majority` has.
A wildcard pattern is about the first label and the rest: three labels tell one
label from several. In `dmarc` the units of time stand in the proportions of the
defaults: `Timeout` and `ProviderTimeout` 4 (10 s), `Budget` 8 (`timeout*2`),
`HeadTimeout` 3 (5 s, rounded up so that a redirect can come in time, just in time
or too late with web delays of 1 and 2), `MaxRequests` 3 (10); with delays 1
and 3 a first server leaves enough, just enough or too little time, a start at 6 meets the end of the budget before any
timeout, and the endpoints of one record can use the budget up. Two servers are
enough for a failover and its failure. `ComputeCounts` (MCScan) compares
`stats.Compute` with its table on all mixes of three reports of two features.
`scan` runs two of nine probes; its properties and `StatsAddUp` are proved
for every list in `Scan_proofs` and `Program_proofs`. `UnreachableIsNotSuccess` does depend on
the list, and `scan_unreachable` has that of `buildProbes`. Nothing
that the code counts without bound is in the models; there is no state
constraint.

Deadlock is checked: `Terminated` stutters where the program has ended, so any
other state without a step is an error. It is off for FanOut, which has no such
action, and for `scan_zero`, where being stuck is the finding.

**Fairness.** Go's scheduler runs every goroutine that can go on, which gives
weak fairness of each goroutine's own steps and of the main goroutine. The
budget of a domain ends (`WF(Expire)`: cli.go:184), and what is under way then
fails: lookups and requests because they take that context, SMTP sessions by
the dial's `Timeout` and `SetDeadline` (dialer.go:66-73). So a lookup or a probe is
assumed to return only once the context is done (the fairness conditions have
`expired` or `~Live(d)` as a conjunct); no server is assumed to answer, and
nothing to return before the budget ends. Shorter timeouts exist
(dnsclient.go:199 for UDP, httpfetcher.go:33, ten seconds per DoH provider) but
are not relied upon: those of three DoH providers add up past the budget. The
flag `--timeout` is called "per-domain observation timeout", the budget is twice
that. The safety runs `scan`, `mtasts` and `dmarc` assume no fairness at all; the
liveness runs are `fan_out`, `scan_limit`, `dkim`, `mtatls`.

## 4. What is proved

TLAPS proves, for every value of the constants that the named assumptions allow:

* `FanOut_proofs` (from `FanOutAssumption`: finitely many tasks, an integer
  limit, a zero value that is no result): types, the limit, completeness at
  `Gather`, and that results are final. The invariant `IndInv` adds to these
  that a running task's slot is still empty and that nothing outside the group
  runs or is filled.
* `Scan_proofs` (from `ScanAssumption`: at least one domain and one probe, a
  table with outcomes of the right shape; `Limit` may be any integer): types,
  limit, `EveryReportIsWhole`, `FailureDoesNotSpread`, and that `Spec` implements
  `FanOut!Spec`. None of these is inductive. `ScanInv` says in addition how far
  the main goroutine is from each domain's (`MainInv`: the loop has handed out
  exactly the domains below `next`, and after `Wait` all are done) and what each
  goroutine has done to its slots by where it is (`DomainInv`: nothing before it
  is probing, no report before it has reported, its own report afterwards, a
  live context while it probes within the budget), and `NoErrors` that no group has
  been given an error; so for a probe within its budget `Live` holds, and `MayHear`
  leaves it nothing but complete answers unless it loses requests of its own. Two
  more properties each need one invariant besides:
  - `SilenceIsNoEvidence`: `SilenceInv` (a slot without servers holds what the
    table has for silence) and `FailedRowsAssumption`, by which no such row is a
    finding;
  - `RowsLineUp`: `SlotsInv` (a filled slot holds a row of the table for its
    probe), that flattening loses and doubles no cell (`FlattenCells`), and that
    the stable sort gives every name the position that is its rank
    (`CanonicalSorts`). `ProbesAssumption`, that no probe is listed twice, is what
    `buildProbes` does, and makes the names of a report distinct.
* `Pick_proofs`: a picking loop returns exactly the picked elements, as many as
  there are positions, the first of them first; first occurrences cover the
  same elements once each. It also holds the arguments about positions that
  other modules use: a least and a greatest position, the rank of a position
  under an order (`RankedSorts`: putting elements at their ranks sorts them), where
  a picked element comes from (`FromFacts`), `PositionInduction` and `CountInduction`; and what flattening
  computes (`GluedNext`): the parts one after the other, and where each part is one
  element or none, the elements picked (`FlattenPicks`).
* `Dkim_proofs` (from `DkimAssumption`: distinct configured selectors, rules and
  zones of the right types): types, `EverySelectorIsTried`, `PresentIffLiveKey`,
  `AbsentWasHeard`, and the implementation of FanOut. `DkimInv` relates each
  slot to the loop and to the world: slots from `next` on and those under way
  are empty, every other holds what its selector's zone gives or a failure that
  a dead name or the end of the context explains, and a verdict was computed
  from the final slots. The integer division in the verdict is reasoned about
  for every number of selectors: what is not below the half, rounded down, is the
  half but for the rounding, and with two selectors or more it is not none.
* `MtaTls_proofs` (from `MtaTlsAssumption`: types of the constants): types,
  `ConnectsOncePerMX`, `EachHostByItsOwnCertificate`, `TimeoutInventsNothing`,
  `OutcomeAsTabulated`, and that both fan-outs implement FanOut. `MtaTlsInv` is
  that of Dkim with two phases: in the first, TLSA slots are empty; in the
  second, every session slot is filled and stays; each slot is explained by its
  own host's servers or by the end of the context; hosts are distinct under
  normalisation. That a TLSA answer is matched with the right certificate is
  then that both slots of an index are explained by one host (`SlotTells`, `AllSeen`).
  An answer without a host is judged over no hosts at all (`NobodyToJudge`). For the table,
  `OneHostIsEnough`: with any number of hosts the verdicts depend on no more than
  whether all, some or none did what `Verdicts` enumerates.
* `MtaSts_proofs` (from `MtaStsAssumption`: types, and no label but the empty one is
  empty in lower case):
  types, `PresentIffDeployed`, `MismatchIsReal`, `OutcomeAsTabulated`, for policies
  of any length and names of any number of labels. `MtaStsInv` says which of the
  three requests is over and what came of it (`MarkerInv`, `PolicyInv`,
  `MatchInv`) and that the verdict is `Judge` of that (`Judged`). The lemmas are
  about the parser (the last line of a key wins: `ValueIsLast`) and the matcher
  (it agrees with what a pattern covers: `MatchIsCover`).
* `Program_proofs` (from `ProgramAssumption`: command lines are sequences of
  spellings and give as many different names as Scan has domains, or none):
  `InputIsMerged`. Its proof compares the order of first mentions in the
  arguments followed by the file with that in `merged`, through embeddings of
  sequences (`Embeds`, `Nested`); `MergeInv` adds that `names` is the merged list from
  the end of the set-up on.

  `StatsAddUp`, for any domains, probes and findings. Three facts about the table
  alone: `CountedTallies`, the fold over the features of all reports has a row for
  each name with a verdict, and in it how often the name occurs with each; since no
  report has a name twice, that is in how many reports (`GluedCounts`);
  `InOrderSorts`, putting each row at its rank sorts the rows, all of them and each
  once; and `SharesAddUp`, shares rounded down lack less than a point each.
  `ComputedTable` puts them together. Two invariants say that it is the right table:
  `SkipInv` (skipped is dkim's row and no other, only with `--no-dkim` and then in all
  reports) and `SummaryInv` (what
  is written is computed from the reports after `Wait`, which have not changed
  since). That every row counts every domain is `SlotsInv` of Scan again: a
  feature that one report has a verdict on is of a probe that ran for all.
* `Dmarc_proofs` (from `DnsAssumption`: positive timeouts and delays, a lookup
  begins within the budget; `SchemesAssumption`: the words of a `rua=` list in the
  zones are those the model knows the scheme of; `ZonesAssumption`: the answer
  sections are sequences of resource records; `DecimalAssumption`: bytes that cannot
  be printed are none of the characters that the presentation form is made of):
  types; every lookup of
  `Dmarc!Spec` implements `Lookup`; one without an answer is never past its
  deadline; and `FailoverReaches`, for any number of servers, any delays and any
  timeouts. `LookupInv` adds where each transport's states are, that nothing is
  handed over before the end (`PlaceInv`), and that the clock stays below the
  lookup's end until there is an answer (`TimeInv`; afterwards the HEAD requests go
  on with it). `ReachInv` adds what the clock shows while the lookup lasts: what
  the servers before this one took, and what has been waited for this one, or
  the lookup's end if that is earlier; and that no server that was sure to answer
  has been passed over before the end.

  `TransportsAgree`, for every answer section and texts of any content and length,
  needs no more than the types as an invariant; it is about what the two
  transports make of a section. `PresentationIsReversed` says that the decoder of
  doh.go gives back the strings of every TXT record, with three digits for each byte
  that cannot be printed (`Legible`): what the decoder's state is
  after `v \o <<c>>` follows from its state after `v` (`DecodedNext`), inside a string
  it takes the escapes of one character away again (`WrittenIsRead`), and so of a
  text, a quoted string and a list of strings. `TxtIsEscaped` says that what UDP
  hands over is the glued text with its escapes. Both transports' loops are picking
  loops (`PartsArePicked`), and leaving the root's records out afterwards is the same
  as not picking them (`PickedTwice`).

  `RecordDecides` and `RuaMarkIsEarned` compare the parser, which cuts a text and
  trims and cuts its parts again, with what the text says position by position
  (`Says`, `Values`, `Words`), for every text. `SplitOnCuts` says where the fold of
  `SplitOn` cuts; `ItemsAreCut` that the trimmed parts are exactly what is left of a
  text between its separators, spaces aside; `SegmentSays` what `PairOf` makes of one
  such part. So a tag that the text says is in just one pair (`PairsSay`), `Get` has
  the value of the first (`GetFacts`), the version test of `PickByVersion` is
  `IsDmarc` (`VersionFacts`), and the URIs of the `rua=` list are its `Words`
  (`RuaFacts`). `TextsTold` says that what a lookup of texts is answered with is a
  list of texts. `RecordInv` is about the probe: from the record on it holds the
  pairs and the targets of that record, each check shows what its own endpoint did,
  or that the budget is over, and what was judged was judged by these; and between
  the checks `OnTheWay`: the requests made for an endpoint are a way that the web
  leads from it, and the clock shows what the sites before the last one took. A
  redirect makes the way longer (`WayGoesOn`), its end tells what the endpoint has
  shown (`ChainTakes`, `NextShown`).

The remaining assumption (`DmarcAssumption`: types, and web servers take some time)
is evaluated by TLC on each run, as
all of them are. Nothing is assumed without a name.

Induction over data. The library's induction theorems take an operator as an
argument, which the provers cannot instantiate, so there is no theorem here of
the form "for every recursive definition". What a particular fold computes is
proved all the same where a property needs it (`FlattenUnfolds`, `SumUnfolds`,
`DecodedNext`, `CountedTallies`, `SplitOnCuts`): a set of positions that holds 1 and with each position its successor
holds all (`PositionInduction`, by the least counterexample), and the function that
a fold is defined by exists because it can be continued by one position
(`FoldSolvable`, for an operation given as a function). This has to be brought to
each fold anew.

Only model-checked:

* liveness (`Gathers`, `EveryScanEnds`, `ProbeEnds`), out of the prover's reach
  under fairness;
* what the violation runs show, which are counterexamples.

## 5. What is not modelled

* What `dnsdata-go` does over DoH beyond trying its providers in order and giving
  records their presentation form: whether it takes an error code for an answer is
  left open, the AD flag is left out.
* Redirects of the MTA-STS policy. `Get` follows them as `Head` does, against RFC
  8461 §3.3; MtaSts has one request that is answered with a policy or not, whoever
  answers in the end.
* Whether UDP and DoH agree on TLSA and DS records, which depends on two libraries.
* The lists of selectors and keys in DKIM's summary; Dkim has the verdict.
* The choice of servers by `dnsclient.New`. In the CLI a UDP client has exactly one
  server (cli.go:283), so failover over UDP happens only for callers that leave
  `Server` empty (resolv.conf); Dns models the client, with any number.
* The other probes see a lookup as one step that is answered or fails; only Dmarc
  stands on Dns. `Lookup` is what all of them assume.
* The text of records other than DMARC's: SPF, BIMI and TLS-RPT tags, DER, base64,
  certificates, formatting, colour. What a probe concludes from a record is
  modelled, how it cuts the record up is not.
* PKIX validity, key sizes, confidences and reasons: they reach the report but
  decide no status.
* Reading of files: an unreadable one is one of the ways in which set-up fails.
* DNSSEC chain validation, which happens in `dnsdata-go`; its verdict is an
  input.
* One zone read by several probes at different times: each probe has a zone of
  its own that does not change while it runs.

## 6. Where code and documents disagree

With a run that shows it (`findings` in `PROJECT.json` has the quotations):

1. `--concurrency 0` is accepted and the scan never gets past the first domain
   (`scan_zero`).
2. With no server reachable the exit code is 0 (`scan_unreachable`): mta-sts
   says absent when neither request is answered, so not every feature is unknown.
   Since mta-sts is in every list that `buildProbes` makes (cli.go:346-355) and never
   says unknown (mtasts.go:221-226), exit code 1 does not occur at all.
3. DKIM can be absent with fewer than half of the lookups answered
   (`dkim_majority`).
4. README.md:70 promises that a null MX is reported with its reason. Over DoH, the
   default transport, `decodeMXPresentation` refuses the empty host (doh.go:184), so the
   mx probe hears of no records (`dmarc_nullmx`), and mta-sts skips the comparison
   that it makes over UDP.
5. With port 25 blocked DANE is misconfigured, not absent, for a domain with TLSA
   records (`mtatls_blocked`).

Noticed while modelling, without a run of their own:

* dialer.go:22-23 says that all fields of an `MXProbeResult` are zero when
  `ConnectErr` is set; `Connected` stays true when the greeting or EHLO fails.
* docs/DKIM_SELECTORS.md:53-55 says an early hit short-circuits the lookups; all
  selectors are always looked up. It and docs/ARCHITECTURE.md:176 give the limit
  as 8; it is 11.
* `DurationMs` is set in a deferred function on a result that is returned by
  value, and so is always 0 (dialer.go:61-63).
* README.md:84 promises unknown for failed observation; mta-sts says absent or
  misconfigured, and DANE absent when every TLSA lookup fails.
* An unknown `--output` is rejected only after the scan (cli.go:217).
* `RCode` is stored and never read (dnsclient.go:126, doh.go:46): SERVFAIL and
  REFUSED pass for empty answers, and so for absent records, against README.md:84;
  over UDP they cause no failover (`Lookup` has this as its one exception).
* A quote or a backslash in a TXT record keeps its escape over UDP (`miekg/dns`
  hands it over so) and loses it over DoH. A byte that cannot be printed is a
  backslash and three digits over UDP, and over DoH the digits alone: doh.go:151-156
  takes the first digit for the character that was escaped (`TransportsAgree`).
* The HTTP client follows redirects. dmarc.go:203-204 says "Any 2xx or 3xx is
  considered reachable; many DMARC report receivers respond with redirects to their
  auth flow", but a redirect's own status is never seen: what counts is the status
  at the end of the chain, so that a login that answers 401 gives the cross; and the
  requests go to hosts that README.md:303 ("Nothing else") does not have
  (`RuaMarkIsEarned`, whose `Ways` are these chains).
* The human summary shows the selectors sorted and the key size of the first in
  list order (dkim.go:116-119, 232), which can be that of another selector.
* With ten seconds for each DoH provider and a budget of twenty, the third of the
  default list (README.md:211-221) is never asked if the first two are silent
  (`FailoverReaches`, with the default `--timeout`).
* The cross at `rua` may stand for a good endpoint if the requests before it used
  up the budget (`RuaMarkIsEarned`).
* A final dot makes another name for `mergeDomains`, so `example.org` and
  `example.org.` are scanned both.

## 7. Plan

Written, in this order: FanOut, Scan, Verdicts, Dkim, MtaTls, MtaSts, so that
what everything else stands on came first; then Lookup, Dns, TxtTag, Dmarc and the
composition Program with Input and Stats.

Next, more of the model: several probes that read one zone, which may change
between their lookups (mtatls.go:156); the other probes on top of `Lookup`.

Every safety and action property of the passing runs is proved, so what is left for
proofs is what a longer model would state.
