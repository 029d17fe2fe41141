-------------------------------- MODULE Dkim --------------------------------
(***************************************************************************)
(* The DKIM probe of one domain: internal/probe/dkim/dkim.go runOne and    *)
(* inference.go.                                                           *)
(*                                                                         *)
(* The probe first looks up the apex SPF record and lets it add selectors  *)
(* to the list, then looks every selector up through an errgroup of its    *)
(* own, each lookup filling its slot, and when all are back judges the     *)
(* results.  A TXT answer is a sequence of record kinds:                   *)
(*   "key" / "revoked"            v=DKIM1 first, with / without a p= value *)
(*   "bare-key" / "bare-revoked"  no v=DKIM1, but a p= or k= tag           *)
(*   "other"                      anything else                            *)
(* The world (which records the zone holds, which names never answer) is   *)
(* fixed at the start; the budget of the domain may run out at any time.   *)
(***************************************************************************)
EXTENDS Integers, FiniteSets, Sequences, Pick, Verdicts

CONSTANTS
    Base,         \* the configured selectors, in list order, no duplicates
    Rules,        \* the inference rules, one [match, add] entry for each selector
                  \* a rule adds; none with --no-spf-inference
    Provider,     \* what include: and redirect= may point at
    Concurrency,  \* --dkim-concurrency
    Zones         \* the zones considered: selector -> TXT records

defaultConcurrency == 11

\* Every selector that may be tried.
Selector ==
    {Base[i] : i \in DOMAIN Base} \cup {Rules[r].add : r \in DOMAIN Rules}

\* Slots are numbered like the selectors they belong to.
Slot == 1 .. Cardinality(Selector)

Kind == {"key", "revoked", "bare-key", "bare-revoked", "other"}

ASSUME DkimAssumption ==
    /\ Concurrency \in Int
    /\ Base \in Seq(Selector)
    /\ \A i, j \in DOMAIN Base : Base[i] = Base[j] => i = j
    /\ Rules \in Seq([match : Provider, add : Selector])
    /\ Zones \subseteq [Selector -> Seq(Kind)]

-----------------------------------------------------------------------------
(* Pure parts.                                                             *)

\* The first of the records that is one of the kinds, or "none".
FirstOf(records, kinds) ==
    LET hits == {i \in DOMAIN records : records[i] \in kinds}
    IN  IF hits = {} THEN "none" ELSE Picked(records, hits)[1]

\* A bug: a record without v=DKIM1 comes first.
Hit_BareFirst(records) ==
    IF FirstOf(records, {"bare-key", "bare-revoked"}) # "none"
    THEN FirstOf(records, {"bare-key", "bare-revoked"})
    ELSE FirstOf(records, {"key", "revoked"})

\* The record taken for the selector's key: the first v=DKIM1 one, and only
\* without any the first that has a p= or k= tag.
Hit(records) ==
    IF FirstOf(records, {"key", "revoked"}) # "none"
    THEN FirstOf(records, {"key", "revoked"})
    ELSE FirstOf(records, {"bare-key", "bare-revoked"})

InForce == {"key", "bare-key"}  \* the kinds parseKey does not mark revoked

\* Bugs: nothing is removed; the last of equal selectors stays.
dedupe_Keeps(s) == s
dedupe_KeepsLast(s) ==
    Picked(s, {i \in DOMAIN s : \A j \in DOMAIN s : s[j] = s[i] => j <= i})

\* The first of equal selectors stays, in the order of first appearance.
dedupe(s) == Picked(s, Firsts(s, DOMAIN s))

Added == [r \in DOMAIN Rules |-> Rules[r].add]

Matching(targets) == {r \in DOMAIN Rules : Rules[r].match \in targets}

\* The selectors that the rules add for the targets of an SPF record, each once.
Implied(targets) == Picked(Added, Firsts(Added, Matching(targets)))

\* Zero and negative --dkim-concurrency mean the built-in default.
Conc == IF Concurrency <= 0 THEN defaultConcurrency ELSE Concurrency

-----------------------------------------------------------------------------

VARIABLES
    pc,        \* "infer", "scan", then "done"
    selectors, \* the selectors of this call
    inferred,  \* those the SPF record added
    next,      \* the next slot the loop hands to g.Go
    running,   \* the slots whose lookup is under way
    results,   \* slot -> what its lookup came to, or NoResult
    expired,   \* the domain's context is done
    feature,   \* the verdict, or NoFeature
    zone,      \* selector -> its TXT records
    targets,   \* the providers the apex SPF record points at
    dead       \* the names that are never answered ("apex", or a selector)

world == <<zone, targets, dead>>
vars == <<pc, selectors, inferred, next, running, results, expired, feature, world>>

NoResult == [ok |-> FALSE, hit |-> "pending"]
Result == [ok : {TRUE}, hit : Kind \cup {"none"}] \cup {[ok |-> FALSE, hit |-> "none"]}
NoFeature == [status |-> "pending"]

\* The slots of this call.
Tried == 1 .. Len(selectors)

TypeOK ==
    /\ pc \in {"infer", "scan", "done"}
    /\ selectors \in Seq(Selector) /\ Len(selectors) <= Cardinality(Selector)
    /\ inferred \in Seq(Selector)
    /\ next \in 1 .. Len(selectors) + 1
    /\ running \in SUBSET Tried
    /\ results \in [Slot -> Result \cup {NoResult}]
    /\ expired \in BOOLEAN
    /\ zone \in Zones
    /\ targets \in SUBSET Provider
    /\ dead \in SUBSET (Selector \cup {"apex"})

Init ==
    /\ pc = "infer"
    /\ selectors = Base
    /\ inferred = <<>>
    /\ next = 1
    /\ running = {}
    /\ results = [i \in Slot |-> NoResult]
    /\ expired = FALSE
    /\ feature = NoFeature
    /\ zone \in Zones
    /\ targets \in SUBSET Provider
    /\ dead \in SUBSET (Selector \cup {"apex"})

-----------------------------------------------------------------------------

\* Whether a lookup of the name may be answered, and whether it may fail: an
\* exchange ends with the context, and none starts after it.
MayAnswer(n) == n \notin dead /\ ~expired
MayFail(n) == n \in dead \/ expired

Expire ==
    /\ ~expired
    /\ pc # "done"
    /\ expired' = TRUE
    /\ UNCHANGED <<pc, selectors, inferred, next, running, results, feature, world>>

\* inferSelectorsFromSPF heard the SPF record: what it implies joins the list.
InferHears ==
    /\ pc = "infer"
    /\ MayAnswer("apex")
    /\ inferred' = Implied(targets)
    /\ selectors' = IF Implied(targets) = <<>> THEN selectors
                    ELSE dedupe(selectors \o Implied(targets))
    /\ pc' = "scan"
    /\ UNCHANGED <<next, running, results, expired, feature, world>>

\* Its lookup failed: the list stays as it is.
InferSkips ==
    /\ pc = "infer"
    /\ MayFail("apex")
    /\ pc' = "scan"
    /\ UNCHANGED <<selectors, inferred, next, running, results, expired, feature, world>>

\* g.Go takes a token for the next selector.
Go ==
    /\ pc = "scan"
    /\ next \in Tried
    /\ Cardinality(running) < Conc
    /\ running' = running \cup {next}
    /\ next' = next + 1
    /\ UNCHANGED <<pc, selectors, inferred, results, expired, feature, world>>

\* The lookup of slot i is answered.
Hears(i) ==
    /\ i \in running
    /\ MayAnswer(selectors[i])
    /\ results' = [results EXCEPT ![i] = [ok |-> TRUE, hit |-> Hit(zone[selectors[i]])]]
    /\ running' = running \ {i}
    /\ UNCHANGED <<pc, selectors, inferred, next, expired, feature, world>>

\* A bug: a lookup that failed is tried again, and so on.
Fails_Retried(i) ==
    /\ i \in running
    /\ MayFail(selectors[i])
    /\ UNCHANGED vars

\* The lookup of slot i fails; the goroutine still returns nil.
Fails(i) ==
    /\ i \in running
    /\ MayFail(selectors[i])
    /\ results' = [results EXCEPT ![i] = [ok |-> FALSE, hit |-> "none"]]
    /\ running' = running \ {i}
    /\ UNCHANGED <<pc, selectors, inferred, next, expired, feature, world>>

-----------------------------------------------------------------------------

AnsweredSlots == {i \in Tried : results[i].ok}
HitSlots == {i \in AnsweredSlots : results[i].hit # "none"}
LiveSlots == {i \in HitSlots : results[i].hit \in InForce}

\* A bug: the main goroutine does not wait for the last lookups.
AllIn_Spawned == next > Len(selectors)

AllIn == next > Len(selectors) /\ running = {}

\* What the closing switch of runOne counts.
Tally == [tried    |-> Len(selectors),
          answered |-> Cardinality(AnsweredSlots),
          hits     |-> Cardinality(HitSlots),
          live     |-> Cardinality(LiveSlots)]

\* Wait returns: the results are read in list order and judged.
Judge ==
    /\ pc = "scan"
    /\ AllIn
    /\ feature' = [status |-> DkimVerdict(Tally)]
    /\ pc' = "done"
    /\ UNCHANGED <<selectors, inferred, next, running, results, expired, world>>

Terminated == pc = "done" /\ UNCHANGED vars

Next ==
    \/ Expire
    \/ InferHears
    \/ InferSkips
    \/ Go
    \/ \E i \in Tried : Hears(i) \/ Fails(i)
    \/ Judge
    \/ Terminated

Spec == Init /\ [][Next]_vars

\* The context ends (context.WithTimeout), and with it every lookup that is
\* under way; over DoH, where the timeouts of three providers add up past the
\* budget, nothing else ends one in time.  The loop and Wait go on as they can.
Fairness ==
    /\ WF_vars(Expire)
    /\ WF_vars(expired /\ InferSkips)
    /\ WF_vars(Go)
    /\ \A i \in Slot : WF_vars(expired /\ Fails(i))
    /\ WF_vars(Judge)

FairSpec == Spec /\ Fairness

-----------------------------------------------------------------------------
(* Properties.                                                             *)

Done == pc = "done"

\* A key in force, the zone read as the documentation has it: v=DKIM1 records
\* come before those without, and of either sort the first one counts.
LiveAt(records) == \E i \in DOMAIN records :
    \/ records[i] = "key" /\ \A j \in 1 .. i - 1 : records[j] # "revoked"
    \/ /\ records[i] = "bare-key"
       /\ \A j \in DOMAIN records : records[j] \notin {"key", "revoked"}
       /\ \A j \in 1 .. i - 1 : records[j] # "bare-revoked"

\* dkim.go:253-269, whatever order the lookups came back in: DKIM is called
\* present only for a key in force at a selector that answers, and, unless the
\* budget ran out, for every such key.
PresentIffLiveKey ==
    Done =>
        LET live == {i \in Tried : selectors[i] \notin dead /\ LiveAt(zone[selectors[i]])}
        IN  /\ feature.status = "present" => live # {}
            /\ live # {} /\ ~expired => feature.status = "present"

\* dkim.go:148-155, 428-443: what is looked up is the configured list in its
\* order, followed by what the SPF record implies and nothing else, no selector
\* twice; nothing implied is left out if the SPF record could be had.
EverySelectorIsTried ==
    pc # "infer" =>
        LET implied == {Rules[r].add : r \in {q \in DOMAIN Rules : Rules[q].match \in targets}}
        IN  /\ \A i \in DOMAIN Base : i \in Tried /\ selectors[i] = Base[i]
            /\ \A i, j \in Tried : selectors[i] = selectors[j] => i = j
            /\ \A i \in Tried : i > Len(Base) => selectors[i] \in implied
            /\ "apex" \notin dead /\ ~expired =>
                   \A s \in implied : \E i \in Tried : selectors[i] = s

\* dkim.go:271-319: what absent rests on was heard.  A scan of several
\* selectors calls DKIM absent only if some lookup was answered, in time and by
\* a server there is; if half of them were, but for the rounding, or one of
\* them found a key; and if no key that was heard of is in force.
AbsentWasHeard ==
    Done /\ feature.status = "absent" /\ Len(selectors) > 1 =>
        LET heard == {i \in Tried : results[i].ok /\ selectors[i] \notin dead}
        IN  /\ heard # {}
            /\ \/ 2 * Cardinality(heard) + 1 >= Len(selectors)
               \/ \E i \in heard : \E k \in DOMAIN zone[selectors[i]] :
                      zone[selectors[i]][k] # "other"
            /\ \A i \in heard : ~LiveAt(zone[selectors[i]])

\* dkim.go:287-288: "We had network errors; can't say absent with confidence.
\* If at least most lookups succeeded we still report absent."
AbsentNeedsMostAnswers ==
    Done /\ feature.status = "absent" =>
        HitSlots # {} \/ 2 * Cardinality(AnsweredSlots) >= Len(selectors)

\* dkim.go:141-144, 207: the probe always returns, --dkim-concurrency 0
\* included.
ProbeEnds == <>Done
=============================================================================
