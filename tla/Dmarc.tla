------------------------------- MODULE Dmarc --------------------------------
(***************************************************************************)
(* internal/probe/dmarc: one TXT lookup (Dns), then a HEAD request to each *)
(* https endpoint of the record's rua= list, one after the other, in what  *)
(* is left of the domain's budget.  The HTTP client follows redirects.     *)
(*                                                                         *)
(* Behaviours in which `mine' is FALSE are lookups of the other probes:    *)
(* any type, begun anywhere in the budget, and over with their answer.     *)
(***************************************************************************)
EXTENDS Dns, TxtTag, Verdicts

CONSTANTS
    HeadTimeout,  \* of the HTTP client that New makes
    MaxRequests,  \* how often it asks before it gives up a chain of redirects
    schemeOf,     \* word of a rua= list -> the scheme it has as an URI
    Elsewhere,    \* where else a redirect may lead
    WebDelay,     \* how long a web server may take
    Webs          \* the ways in which the web servers may behave

URI == DOMAIN schemeOf

Site == URI \cup Elsewhere

\* What a web server says to HEAD: 2xx, or a 3xx that the client does not
\* follow; one that it follows; any other status, or an error; nothing.
Reply == {"ok", "redirect", "not-ok", "silent"}

Web == [Site -> [reply : Reply, to : Site, delay : WebDelay]]

ASSUME DmarcAssumption ==
    /\ HeadTimeout \in Nat \ {0}
    /\ MaxRequests \in Nat \ {0}
    /\ WebDelay \subseteq Nat \ {0}
    /\ Webs # {} /\ Webs \subseteq Web

VARIABLES
    stage,   \* "lookup", "heads", "done"; "other" if the lookup is not ours
    pairs,   \* those of the record that was picked
    targets, \* the URIs of the rua= list
    checks,  \* what checkRUAReachability found for those it is done with
    visited, \* whom the client has asked for the endpoint at hand, the last of
             \* them not done; empty between endpoints
    began,   \* when it asked the first
    feature, \* the status, and the mark at rua in the summary
    mine,    \* this is the DMARC probe's lookup
    enabled, \* --no-rua-check was not given
    web      \* site -> its server's reply, where it sends one to, its delay

dmarcWorld == <<mine, enabled, web>>
chain == <<visited, began>>
dmarcVars == <<stage, pairs, targets, checks, chain, feature, dmarcWorld>>
vars == <<dnsVars, dmarcVars>>

NoFeature == [status |-> "pending", mark |-> "none"]
Mark == {"none", "rua", "tick", "cross"}

Done == stage = "done"

TypeOK ==
    /\ DnsTypeOK
    /\ stage \in {"lookup", "heads", "done", "other"}
    /\ stage \in {"lookup", "other"} => pairs = <<>>
    /\ targets \in Seq(URI)
    /\ Len(checks) <= Len(targets)
    /\ \A k \in DOMAIN checks : checks[k] \in [checked : BOOLEAN, reachable : BOOLEAN]
    /\ visited \in Seq(Site) /\ Len(visited) <= MaxRequests
    /\ began \in 0 .. clock
    /\ feature \in [status : {"present", "absent", "misconfigured", "unknown"}, mark : Mark]
                       \cup {NoFeature}
    /\ mine \in BOOLEAN /\ enabled \in BOOLEAN
    /\ web \in Webs

Init ==
    /\ DnsInit
    /\ mine \in BOOLEAN
    /\ mine => question = "TXT" /\ started = 0
    /\ stage = IF mine THEN "lookup" ELSE "other"
    /\ pairs = <<>>
    /\ targets = <<>>
    /\ checks = <<>>
    /\ visited = <<>>
    /\ began = 0
    /\ feature = NoFeature
    /\ enabled \in BOOLEAN
    /\ web \in Webs
    /\ ~mine => enabled /\ web = CHOOSE w \in Webs : TRUE  \* they play no part

-----------------------------------------------------------------------------

Lookup == DnsNext /\ UNCHANGED dmarcVars

LookupFailed ==
    /\ stage = "lookup"
    /\ pc = "failed"
    /\ feature' = [status |-> DmarcVerdict([ok |-> FALSE]), mark |-> "none"]
    /\ stage' = "done"
    /\ UNCHANGED <<dnsVars, pairs, targets, checks, chain, dmarcWorld>>

Record == PickByVersion(answer, "DMARC1")

NoRecord ==
    /\ stage = "lookup"
    /\ pc = "answered"
    /\ Record = <<>>
    /\ feature' = [status |-> DmarcVerdict([ok |-> TRUE, found |-> FALSE]), mark |-> "none"]
    /\ stage' = "done"
    /\ UNCHANGED <<dnsVars, pairs, targets, checks, chain, dmarcWorld>>

\* The URIs of a rua= value: cut at the commas, trimmed, empty ones dropped.  One
\* is told from another by its first word.
URIs(value) ==
    LET items == Items(value, ",")
    IN  [k \in DOMAIN items |-> items[k][1]]

\* Every word of a list has a scheme, if only that of no URI.
ASSUME SchemesAssumption ==
    \A over \in {"udp", "doh"}, section \in Zones :
        LET record == PickByVersion(Reading[over]["TXT"][section], "DMARC1")
        IN  record # <<>> => URIs(Get(Parse(record), "rua")) \in Seq(URI)

HasRecord ==
    /\ stage = "lookup"
    /\ pc = "answered"
    /\ Record # <<>>
    /\ pairs' = Parse(Record)
    /\ targets' = URIs(Get(pairs', "rua"))
    /\ stage' = "heads"
    /\ UNCHANGED <<dnsVars, checks, chain, feature, dmarcWorld>>

-----------------------------------------------------------------------------
(* checkRUAReachability.                                                   *)

More == stage = "heads" /\ Len(checks) < Len(targets)
This == targets[Len(checks) + 1]

\* Only https endpoints are contacted, and those not with --no-rua-check.
Wanted(uri) == enabled /\ schemeOf[uri] = "https"

Found(checked, reachable) ==
    /\ checks' = Append(checks, [checked |-> checked, reachable |-> reachable])
    /\ visited' = <<>>
    /\ UNCHANGED <<pc, server, answer, dnsWorld, stage, pairs, targets, began, feature, dmarcWorld>>

Skips ==
    /\ More
    /\ ~Wanted(This)
    /\ Found(FALSE, FALSE)
    /\ UNCHANGED clock

\* client.Do sends the request that Head has made.
HeadSends ==
    /\ More
    /\ Wanted(This)
    /\ visited = <<>>
    /\ visited' = <<This>>
    /\ began' = clock
    /\ UNCHANGED <<dnsVars, stage, pairs, targets, checks, feature, dmarcWorld>>

\* The HTTP client's own timeout, one for all redirects, under the domain's
\* context.
HeadDeadline == Earlier(began + HeadTimeout, Budget)

\* Who is being asked, whether the answer may come, or may come too late.
Asked == web[Last(visited)]
Replies ==
    /\ More /\ visited # <<>>
    /\ Asked.reply # "silent"
    /\ clock + Asked.delay <= HeadDeadline
TooLate ==
    /\ More /\ visited # <<>>
    /\ Asked.reply = "silent" \/ clock + Asked.delay >= HeadDeadline

\* The client asks whom it is sent to, on whatever host, http too.
HeadRedirected ==
    /\ Replies
    /\ Asked.reply = "redirect"
    /\ Len(visited) < MaxRequests
    /\ visited' = Append(visited, Asked.to)
    /\ clock' = clock + Asked.delay
    /\ UNCHANGED <<pc, server, answer, dnsWorld, stage, pairs, targets, checks, began, feature,
                   dmarcWorld>>

\* The chain ends with a status that is not followed, or with an error: there
\* have been too many redirects.
HeadAnswers ==
    /\ Replies
    /\ Asked.reply = "redirect" => Len(visited) = MaxRequests
    /\ clock' = clock + Asked.delay
    /\ Found(TRUE, Asked.reply = "ok")

HeadTimesOut ==
    /\ TooLate
    /\ clock' = HeadDeadline
    /\ Found(TRUE, FALSE)

Checked == {k \in DOMAIN checks : checks[k].checked}

\* A bug: one reachable endpoint is enough for the tick.
RuaMark_Any ==
    CASE Get(pairs, "rua") = <<>> -> "none"
      [] Get(pairs, "rua") # <<>> /\ Checked = {} -> "rua"
      [] Checked # {} ->
            IF \E k \in Checked : checks[k].reachable THEN "tick" ELSE "cross"

\* summarizeRUA, as Summary shows it.
RuaMark ==
    CASE Get(pairs, "rua") = <<>> -> "none"
      [] Get(pairs, "rua") # <<>> /\ Checked = {} -> "rua"
      [] Checked # {} ->
            IF \A k \in Checked : checks[k].reachable THEN "tick" ELSE "cross"

\* A bug: a record none of whose endpoints can be reached is broken.
PolicySeen_IfReachable ==
    IF RuaMark = "cross" \/ Get(pairs, "p") = <<>> THEN "" ELSE "none"

\* The p= tag as DmarcVerdict tells it apart.
PolicySeen == IF Get(pairs, "p") = <<>> THEN "" ELSE "none"

Judge ==
    /\ stage = "heads"
    /\ Len(checks) = Len(targets)
    /\ feature' = [status |-> DmarcVerdict([ok |-> TRUE, found |-> TRUE, policy |-> PolicySeen]),
                   mark |-> RuaMark]
    /\ stage' = "done"
    /\ UNCHANGED <<dnsVars, pairs, targets, checks, chain, dmarcWorld>>

\* The probe has returned, or whoever asked has its answer.
Terminated == (Done \/ (stage = "other" /\ LookedUp)) /\ UNCHANGED vars

Next ==
    \/ Lookup
    \/ LookupFailed \/ NoRecord \/ HasRecord
    \/ Skips \/ HeadSends \/ HeadRedirected \/ HeadAnswers \/ HeadTimesOut
    \/ Judge
    \/ Terminated

Spec == Init /\ [][Next]_vars

-----------------------------------------------------------------------------
(* Properties.                                                             *)

\* What a text says, read without Parse: a tag stands alone, spaces aside,
\* behind a semicolon or at the start, and before "=", a semicolon or the end;
\* its value is what follows the "=" up to a semicolon or the end.
Says(text, tag) ==
    {i \in DOMAIN text :
        /\ text[i] = tag
        /\ \A j \in 1 .. i - 1 : text[j] = Blank \/ \E m \in j .. i - 1 : text[m] = Semicolon
        /\ \A j \in i + 1 .. Len(text) :
              text[j] = Blank \/ \E m \in i + 1 .. j : text[m] \in {"=", Semicolon}}
Values(text, i) ==
    {j \in i + 1 .. Len(text) :
        /\ text[j] # Blank
        /\ \E e \in i + 1 .. j - 1 : text[e] = "="
        /\ \A m \in i + 1 .. j : text[m] # Semicolon}

\* It begins with the version; of several p= the first one counts.
IsDmarc(text) ==
    \E i \in Says(text, "v") \cup Says(text, "V") :
        /\ \A j \in 1 .. i - 1 : text[j] \in {Blank, Semicolon}
        /\ \E j \in Values(text, i) : Values(text, i) = {j} /\ text[j] \in {"DMARC1", "dmarc1"}
HasPolicy(text) ==
    \E i \in Says(text, "p") : Values(text, i) # {} /\ \A j \in Says(text, "p") : i <= j

\* The first text that is a DMARC record, <<>> without one.
FirstDmarc ==
    LET texts == {k \in DOMAIN answer : IsDmarc(answer[k])}
    IN  IF texts = {} THEN <<>> ELSE answer[CHOOSE k \in texts : \A j \in texts : k <= j]

\* dmarc.go:107-174: the status is that of the first v=DMARC1 record that was
\* answered, and unknown without an answer; the requests to its endpoints, and
\* the time they take, have no part in it.
RecordDecides ==
    Done => feature.status =
        CASE pc = "failed" -> "unknown"
          [] pc = "answered" /\ FirstDmarc = <<>> -> "absent"
          [] pc = "answered" /\ FirstDmarc # <<>> ->
                IF HasPolicy(FirstDmarc) THEN "present" ELSE "misconfigured"

\* The https URIs that the record lists: in the value of the first rua=, at the
\* start or behind a comma.
Words(text) ==
    {j \in DOMAIN text : \E i \in Says(text, "rua") :
        /\ \A k \in Says(text, "rua") : i <= k
        /\ j \in Values(text, i) /\ text[j] # ","
        /\ \A m \in Values(text, i) : m < j => \E c \in m .. j - 1 : text[c] = ","}
Listed == {uri \in {FirstDmarc[j] : j \in Words(FirstDmarc)} : schemeOf[uri] = "https"}

\* Where the web leads the client from a URI, as far as it may go, and how long
\* the sites on the way take together.
Ways(uri) ==
    {way \in UNION {[1 .. n -> Site] : n \in 1 .. MaxRequests} :
        /\ way[1] = uri
        /\ \A k \in 1 .. Len(way) - 1 :
              web[way[k]].reply = "redirect" /\ way[k + 1] = web[way[k]].to}
TimeOf(way) == Together([k \in DOMAIN way |-> web[way[k]].delay], Len(way))

\* An endpoint answers if its way ends well in time; it does not if it ends
\* badly, or not in time, or not at all.
Answers(uri) ==
    \E way \in Ways(uri) : web[Last(way)].reply = "ok" /\ TimeOf(way) <= HeadTimeout
FailsToAnswer(uri) ==
    \E way \in Ways(uri) :
        \/ web[Last(way)].reply \in {"not-ok", "silent"}
        \/ web[Last(way)].reply = "redirect" /\ Len(way) = MaxRequests
        \/ TimeOf(way) >= HeadTimeout

\* dmarc.go:72-81, 183-211, httpfetcher.go:31-39: the tick at rua is earned, each
\* https endpoint of the record having answered in time, itself or whoever it
\* sends to; the cross is deserved, one of them not having done so or the lookup
\* and the endpoints before it having used up the budget; and a request is made
\* of nobody but those endpoints and whom they send to.
RuaMarkIsEarned ==
    /\ \A k \in Checked : schemeOf[targets[k]] = "https" /\ enabled
    /\ visited # <<>> => enabled /\ \E uri \in Listed : visited \in Ways(uri)
    /\ Done /\ feature.mark = "tick" => Listed # {} /\ \A uri \in Listed : Answers(uri)
    /\ Done /\ feature.mark = "cross" =>
           (\E uri \in Listed : FailsToAnswer(uri)) \/ clock = Budget
    /\ Done /\ enabled /\ pc = "answered" /\ Listed # {} => feature.mark \in {"tick", "cross"}
=============================================================================
