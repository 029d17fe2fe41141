------------------------------ MODULE Verdicts ------------------------------
(***************************************************************************)
(* The judgement at the end of every probe: from what its lookups said to  *)
(* the status of its feature (two for the active SMTP probe).  Each        *)
(* operator is the closing switch of the probe's runOne; its argument is a *)
(* record of what the switch reads.  Confidence and wording are left out.  *)
(* The modules that model how a probe gathers its answers use these        *)
(* operators for their last step, and VerdictTable gathers them all for    *)
(* Scan.                                                                   *)
(***************************************************************************)
EXTENDS Integers, FiniteSets

-----------------------------------------------------------------------------
(* Probes that make one lookup: ok says whether it was answered.           *)

\* spf: the number of v=spf1 records at the apex, the qualifier of the last
\* `all', and whether there is a redirect= (the record is read if it is alone).
SpfVerdict(o) ==
    CASE ~o.ok -> "unknown"
      [] o.ok /\ o.records = 0 -> "absent"
      [] o.ok /\ o.records > 1 -> "misconfigured"
      [] o.ok /\ o.records = 1 ->
            IF o.all = "pass" \/ (o.all = "missing" /\ ~o.redirect)
            THEN "misconfigured" ELSE "present"

\* dmarc: the p= tag of the first v=DMARC1 record, "" when it has none.
DmarcVerdict(o) ==
    CASE ~o.ok -> "unknown"
      [] o.ok /\ ~o.found -> "absent"
      [] o.ok /\ o.found -> IF o.policy = "" THEN "misconfigured" ELSE "present"

\* mx: a lone "0 ." is an explicit refusal of mail.
MxVerdict(o) ==
    CASE ~o.ok -> "unknown"
      [] o.ok -> IF o.records = 0 \/ (o.records = 1 /\ o.null)
                 THEN "absent" ELSE "present"

\* tls-rpt: the rua= tag of the first v=TLSRPTv1 record.
TlsRptVerdict(o) ==
    CASE ~o.ok -> "unknown"
      [] o.ok /\ ~o.found -> "absent"
      [] o.ok /\ o.found -> IF o.rua THEN "present" ELSE "misconfigured"

BimiVerdict(o) ==
    IF ~o.ok THEN "unknown" ELSE IF o.found THEN "present" ELSE "absent"

\* dnssec, validate mode: the verifier's verdict on the chain.
ValidateVerdict(o) ==
    CASE ~o.ok -> "unknown"
      [] o.ok /\ o.chain \in {"secure", "secure-nodata", "secure-nxdomain"} -> "present"
      [] o.ok /\ o.chain = "insecure" -> "absent"
      [] o.ok /\ o.chain = "bogus" -> "misconfigured"
      [] o.ok /\ o.chain = "indeterminate" -> "unknown"

-----------------------------------------------------------------------------
(* Probes that make several lookups.                                       *)

\* dnssec, ad-only mode: a failed TXT lookup leaves AD unset and a failed DS
\* lookup leaves DS unset, and only when both fail is that noticed.
ADOnlyVerdict(o) ==
    CASE ~o.txtOk /\ ~o.dsOk -> "unknown"
      [] o.txtOk \/ o.dsOk ->
            IF (o.dsOk /\ o.ds) \/ (o.txtOk /\ o.ad) THEN "present" ELSE "absent"

\* A bug: the scan that is to have answered half is one selector too short.
DkimVerdict_HalfOfOthers(o) ==
    CASE o.live > 0 -> "present"
      [] o.live = 0 /\ o.hits > 0 -> "absent"
      [] o.hits = 0 ->
            IF o.answered < o.tried /\ o.answered < (o.tried - 1) \div 2
            THEN "unknown" ELSE "absent"

\* dkim: how many selectors were looked up, answered, hit, and hit a key that
\* is not revoked.  The comparison is Go's integer division.
DkimVerdict(o) ==
    CASE o.live > 0 -> "present"
      [] o.live = 0 /\ o.hits > 0 -> "absent"
      [] o.hits = 0 ->
            IF o.answered < o.tried /\ o.answered < o.tried \div 2
            THEN "unknown" ELSE "absent"

\* mta-sts: whether the TXT marker was seen, whether a policy was fetched, its
\* mode, and what the MX check said ("skipped" when it was not made).  A lookup
\* that failed looks like one that found nothing.
MtaStsVerdict(o) ==
    CASE o.txt /\ o.policy ->
            IF o.mode = "none" \/ o.mx = "unmatched" THEN "misconfigured" ELSE "present"
      [] o.txt # o.policy -> "misconfigured"
      [] ~o.txt /\ ~o.policy -> "absent"

\* mtatls: over the MX hosts, whether a host was connected to, accepted
\* STARTTLS, and what its TLSA lookup came to.  (A bug: one host is enough.)
StartTlsVerdict_Any(hosts) ==
    CASE \A h \in DOMAIN hosts : ~hosts[h].connected -> "unknown"
      [] \E h \in DOMAIN hosts : hosts[h].connected ->
            IF \E h \in DOMAIN hosts : hosts[h].accepted
            THEN "present" ELSE "misconfigured"

StartTlsVerdict(hosts) ==
    CASE \A h \in DOMAIN hosts : ~hosts[h].connected -> "unknown"
      [] \E h \in DOMAIN hosts : hosts[h].connected ->
            IF \A h \in DOMAIN hosts : hosts[h].accepted
            THEN "present" ELSE "misconfigured"

DaneVerdict(hosts) ==
    CASE \A h \in DOMAIN hosts : hosts[h].tlsa \in {"failed", "none"} -> "absent"
      [] \E h \in DOMAIN hosts : hosts[h].tlsa \in {"match", "mismatch"} ->
            IF \A h \in DOMAIN hosts : hosts[h].tlsa = "match"
            THEN "present" ELSE "misconfigured"

\* mtatls as a whole: without an MX to probe both features share one status.
MtaTlsVerdict(o) ==
    CASE ~o.ok -> <<"unknown", "unknown">>
      [] o.ok /\ o.noMail -> <<"absent", "absent">>
      [] o.ok /\ ~o.noMail -> <<StartTlsVerdict(o.hosts), DaneVerdict(o.hosts)>>

-----------------------------------------------------------------------------
(* The observations each operator may be given, and the table of outcomes. *)

Answered(o) == IF o.ok THEN "answered" ELSE "failed"

SpfObs == [ok : BOOLEAN, records : 0 .. 2, redirect : BOOLEAN,
           all : {"fail", "softfail", "neutral", "pass", "missing"}]
DmarcObs == [ok : BOOLEAN, found : BOOLEAN, policy : {"", "none", "reject"}]
MxObs == [ok : BOOLEAN, records : 0 .. 2, null : BOOLEAN]
TlsRptObs == [ok : BOOLEAN, found : BOOLEAN, rua : BOOLEAN]
BimiObs == [ok : BOOLEAN, found : BOOLEAN]
ValidateObs ==
    [ok : BOOLEAN, chain : {"secure", "secure-nodata", "secure-nxdomain",
                            "insecure", "bogus", "indeterminate"}]

ADOnlyObs == [txtOk : BOOLEAN, dsOk : BOOLEAN, ad : BOOLEAN, ds : BOOLEAN]
ADOnlyHeard(o) ==
    CASE o.txtOk /\ o.dsOk -> "answered"
      [] ~o.txtOk /\ ~o.dsOk -> "failed"
      [] o.txtOk # o.dsOk -> "partial"

\* Of the selectors tried: how many lookups were answered, how many of those
\* hit, and how many hits are keys in force.
DkimObs ==
    {o \in [tried : {1, 4}, answered : 0 .. 4, hits : 0 .. 4, live : 0 .. 4] :
        o.live <= o.hits /\ o.hits <= o.answered /\ o.answered <= o.tried}
DkimHeard(o) ==
    CASE o.answered = o.tried -> "answered"
      [] o.answered = 0 -> "failed"
      [] OTHER -> "partial"

\* sts: the two halves as the domain serves them, and which lookups fail.
MtaStsObs ==
    {o \in [txt : BOOLEAN, policy : BOOLEAN, mode : {"enforce", "none"},
            mx : {"matched", "unmatched", "skipped"},
            txtOk : BOOLEAN, httpOk : BOOLEAN] :
        /\ o.txt => o.txtOk
        /\ o.policy => o.httpOk
        /\ ~(o.txt /\ o.policy) => o.mx = "skipped"}
MtaStsHeard(o) ==
    CASE o.txtOk /\ o.httpOk -> "answered"
      [] ~o.txtOk /\ ~o.httpOk -> "failed"
      [] OTHER -> "partial"

HostObs ==
    {h \in [connected : BOOLEAN, accepted : BOOLEAN,
            tlsa : {"failed", "none", "match", "mismatch"}] :
        /\ h.accepted => h.connected
        /\ h.tlsa = "match" => h.accepted}
MtaTlsObs == [ok : BOOLEAN, noMail : BOOLEAN, hosts : UNION {[1 .. n -> HostObs] : n \in 0 .. 2}]
MtaTlsHeard(o) ==
    CASE ~o.ok -> "failed"
      [] o.ok /\ (o.noMail \/ \A i \in DOMAIN o.hosts :
                        o.hosts[i].connected /\ o.hosts[i].tlsa # "failed") -> "answered"
      [] OTHER -> "partial"

\* For each amount heard, the verdicts V on the observations O that heard it.
Row(O, V(_), H(_)) ==
    [h \in {"answered", "partial", "failed"} |-> {V(o) : o \in {x \in O : H(x) = h}}]

\* --no-dkim puts a stub in the list that asks nothing and says "skipped".
SkippedRow == [h \in {"answered", "partial", "failed"} |-> {<<"skipped">>}]

\* Whichever of two the command line chose.
Either(r1, r2) == [h \in DOMAIN r1 |-> r1[h] \cup r2[h]]

VerdictTable ==
    [p \in {"spf", "dmarc", "dkim", "mx", "mta-sts", "tls-rpt", "bimi", "dnssec",
            "mtatls"} |->
        CASE p = "spf"     -> Row(SpfObs, LAMBDA o : <<SpfVerdict(o)>>, Answered)
          [] p = "dmarc"   -> Row(DmarcObs, LAMBDA o : <<DmarcVerdict(o)>>, Answered)
          [] p = "dkim"    ->
                Either(Row(DkimObs, LAMBDA o : <<DkimVerdict(o)>>, DkimHeard), SkippedRow)
          [] p = "mx"      -> Row(MxObs, LAMBDA o : <<MxVerdict(o)>>, Answered)
          [] p = "mta-sts" -> Row(MtaStsObs, LAMBDA o : <<MtaStsVerdict(o)>>, MtaStsHeard)
          [] p = "tls-rpt" -> Row(TlsRptObs, LAMBDA o : <<TlsRptVerdict(o)>>, Answered)
          [] p = "bimi"    -> Row(BimiObs, LAMBDA o : <<BimiVerdict(o)>>, Answered)
          [] p = "dnssec"  ->
                Either(Row(ValidateObs, LAMBDA o : <<ValidateVerdict(o)>>, Answered),
                       Row(ADOnlyObs, LAMBDA o : <<ADOnlyVerdict(o)>>, ADOnlyHeard))
          [] p = "mtatls"  -> Row(MtaTlsObs, MtaTlsVerdict, MtaTlsHeard)]
=============================================================================
