------------------------------- MODULE MtaTls -------------------------------
(***************************************************************************)
(* The active SMTP probe of one domain: internal/probe/mtatls/mtatls.go    *)
(* Run and dialer.go.                                                      *)
(*                                                                         *)
(* After an MX lookup the probe fans out twice over the MX hosts, each     *)
(* time through an errgroup of its own: first an SMTP session per host,    *)
(* then a TLSA lookup per host.  The verdicts are read off both arrays.    *)
(*                                                                         *)
(* A session is abstracted to the stage at which it ends and the chain of  *)
(* certificates its server showed; a TLSA record to the certificate that   *)
(* its data is taken from (one that nobody shows, if its selector or its   *)
(* matching type is unsupported).  PKIX validity, which no verdict reads,  *)
(* is left out.                                                            *)
(***************************************************************************)
EXTENDS Integers, FiniteSets, Sequences, Pick, Verdicts

CONSTANTS
    RawHost,     \* host names as MX records spell them
    Host,        \* host names in lower case without a trailing dot
    NoHost,      \* what "" and "." are normalised to
    normal,      \* RawHost -> Host or NoHost
    MXAnswers,   \* the MX answers considered: sequences of [pref, host]
    Certificate, \* the certificates there are
    chainOf,     \* host -> the chain its server shows, the leaf first
    TLSAAnswers, \* the TLSA answers considered: sequences of certificates
    MaxMX,       \* the length of the longest MX answer
    Concurrency  \* Probe.Concurrency

defaultConcurrency == 4

Slot == 1 .. MaxMX

ASSUME MtaTlsAssumption ==
    /\ Concurrency \in Int
    /\ MaxMX \in Nat
    /\ NoHost \notin Host
    /\ normal \in [RawHost -> Host \cup {NoHost}]
    /\ MXAnswers \subseteq Seq([pref : Nat, host : RawHost])
    /\ \A a \in MXAnswers : Len(a) <= MaxMX
    /\ chainOf \in [Host -> Seq(Certificate) \ {<<>>}]
    /\ TLSAAnswers \subseteq Seq(Certificate)

-----------------------------------------------------------------------------
(* Pure parts.                                                             *)

isNullMX(records) ==
    Len(records) = 1 /\ records[1].pref = 0 /\ normal[records[1].host] = NoHost

Names(records) == [k \in DOMAIN records |-> normal[records[k].host]]

\* Bugs: the root, which names no host, is kept; two spellings count as two.
uniqueMXHosts_KeepsDot(records) ==
    Picked(Names(records), Firsts(Names(records), DOMAIN records))

uniqueMXHosts_Keeps(records) ==
    Picked(Names(records), {k \in DOMAIN records : Names(records)[k] # NoHost})

\* The hosts to probe: normalised, none twice, in the order of the answer.
uniqueMXHosts(records) ==
    LET named == {k \in DOMAIN records : Names(records)[k] # NoHost}
    IN  Picked(Names(records), Firsts(Names(records), named))

Conc == IF Concurrency <= 0 THEN defaultConcurrency ELSE Concurrency

\* Where a session may end: the dial fails; the greeting or EHLO fails after
\* the connection is up; STARTTLS is not offered; the handshake fails; it works.
Stage == {"refused", "greeting", "plain", "tls-error", "tls"}

\* MXProbeResult as smtpDialer.Probe leaves it for a host, and the zero one.
SessionResult(stage, h) ==
    [connected  |-> stage # "refused",
     connectErr |-> stage \in {"refused", "greeting"},
     accepted   |-> stage = "tls",
     chain      |-> IF stage = "tls" THEN chainOf[h] ELSE <<>>]
NoSession == [connected |-> FALSE, connectErr |-> FALSE, accepted |-> FALSE,
              chain |-> <<>>]

SessionResults == {SessionResult(s, h) : s \in Stage, h \in Host}

\* A lookup's entry in tlsaResults and tlsaErrs, and the zero one.  (A zero
\* entry looks like an empty answer to the code; NoLookup keeps them apart.)
LookupFailed == [ok |-> FALSE, records |-> <<>>]
LookupResult == {[ok |-> TRUE, records |-> a] : a \in TLSAAnswers} \cup {LookupFailed}
NoLookup == [ok |-> FALSE, records |-> <<"pending">>]

\* matchTLSA: some record is of the leaf certificate the session was shown.
Matched(lookup, session) ==
    /\ session.chain # <<>>
    /\ \E k \in DOMAIN lookup.records : lookup.records[k] = session.chain[1]

-----------------------------------------------------------------------------

VARIABLES
    pc,        \* "mx", "smtp", "tlsa", then "done"; or "early" right after "mx"
    hosts,     \* the hosts of this call
    next,      \* the next slot the loop of this phase hands to Go
    running,   \* the slots under way in this phase
    up,        \* those whose session is connected
    mxResults, \* slot -> its session's result
    tlsa,      \* slot -> its TLSA lookup's result
    expired,   \* the domain's context is done
    features,  \* the statuses of starttls and dane, <<>> until then
    mxRecords, \* what the MX lookup answers
    mxDead,    \* it is never answered
    server,    \* host -> the stage a session with it reaches in time
    zone,      \* host -> its TLSA records
    dead       \* the hosts whose TLSA lookup is never answered

world == <<mxRecords, mxDead, server, zone, dead>>
vars == <<pc, hosts, next, running, up, mxResults, tlsa, expired, features, world>>

Done == pc \in {"done", "early"}

\* The slots of this call.
Probed == 1 .. Len(hosts)

TypeOK ==
    /\ pc \in {"mx", "smtp", "tlsa", "done", "early"}
    /\ hosts \in Seq(Host) /\ Len(hosts) <= MaxMX
    /\ next \in 1 .. Len(hosts) + 1
    /\ running \in SUBSET Probed
    /\ up \in SUBSET running
    /\ mxResults \in [Slot -> SessionResults \cup {NoSession}]
    /\ tlsa \in [Slot -> LookupResult \cup {NoLookup}]
    /\ expired \in BOOLEAN
    /\ features \in {<<>>} \cup [1 .. 2 -> {"present", "absent", "unknown", "misconfigured"}]
    /\ mxRecords \in MXAnswers
    /\ mxDead \in BOOLEAN
    /\ server \in [Host -> Stage]
    /\ zone \in [Host -> TLSAAnswers]
    /\ dead \in SUBSET Host

Init ==
    /\ pc = "mx"
    /\ hosts = <<>>
    /\ next = 1
    /\ running = {}
    /\ up = {}
    /\ mxResults = [i \in Slot |-> NoSession]
    /\ tlsa = [i \in Slot |-> NoLookup]
    /\ expired = FALSE
    /\ features = <<>>
    /\ mxRecords \in MXAnswers
    /\ mxDead \in BOOLEAN
    /\ server \in [Host -> Stage]
    /\ zone \in [Host -> TLSAAnswers]
    /\ dead \in SUBSET Host

-----------------------------------------------------------------------------

Expire ==
    /\ ~expired
    /\ ~Done
    /\ expired' = TRUE
    /\ UNCHANGED <<pc, hosts, next, running, up, mxResults, tlsa, features, world>>

\* A bug: a failed MX lookup is taken for a domain without mail.
MxFails_AsNoMail ==
    /\ pc = "mx"
    /\ mxDead \/ expired
    /\ features' = MtaTlsVerdict([ok |-> TRUE, noMail |-> TRUE])
    /\ pc' = "early"
    /\ UNCHANGED <<hosts, next, running, up, mxResults, tlsa, expired, world>>

\* The MX lookup fails: both features are unknown.
MxFails ==
    /\ pc = "mx"
    /\ mxDead \/ expired
    /\ features' = MtaTlsVerdict([ok |-> FALSE])
    /\ pc' = "early"
    /\ UNCHANGED <<hosts, next, running, up, mxResults, tlsa, expired, world>>

\* No MX, or the null MX: both are absent.
MxRefusesMail ==
    /\ pc = "mx"
    /\ ~mxDead /\ ~expired
    /\ mxRecords = <<>> \/ isNullMX(mxRecords)
    /\ features' = MtaTlsVerdict([ok |-> TRUE, noMail |-> TRUE])
    /\ pc' = "early"
    /\ UNCHANGED <<hosts, next, running, up, mxResults, tlsa, expired, world>>

MxHears ==
    /\ pc = "mx"
    /\ ~mxDead /\ ~expired
    /\ mxRecords # <<>> /\ ~isNullMX(mxRecords)
    /\ hosts' = uniqueMXHosts(mxRecords)
    /\ pc' = "smtp"
    /\ UNCHANGED <<next, running, up, mxResults, tlsa, expired, features, world>>

\* g.Go, or g2.Go, takes a token for the next host.
Go ==
    /\ pc \in {"smtp", "tlsa"}
    /\ next \in Probed
    /\ Cardinality(running) < Conc
    /\ running' = running \cup {next}
    /\ next' = next + 1
    /\ UNCHANGED <<pc, hosts, up, mxResults, tlsa, expired, features, world>>

\* The dial succeeds.  It alone heeds the context: once connected a session has
\* its own deadline and goes on after the domain's budget.
Connects(i) ==
    /\ pc = "smtp"
    /\ i \in running \ up
    /\ ~expired
    /\ server[hosts[i]] # "refused"
    /\ up' = up \cup {i}
    /\ UNCHANGED <<pc, hosts, next, running, mxResults, tlsa, expired, features, world>>

DialFails(i) ==
    /\ pc = "smtp"
    /\ i \in running \ up
    /\ expired \/ server[hosts[i]] = "refused"
    /\ mxResults' = [mxResults EXCEPT ![i] = SessionResult("refused", hosts[i])]
    /\ running' = running \ {i}
    /\ UNCHANGED <<pc, hosts, next, up, tlsa, expired, features, world>>

\* A bug: results are stored as they come instead of by index.
SessionReturns_InCompletionOrder(i) ==
    /\ pc = "smtp"
    /\ i \in up
    /\ \E j \in Probed :
          /\ mxResults[j] = NoSession /\ \A k \in 1 .. j - 1 : mxResults[k] # NoSession
          /\ mxResults' = [mxResults EXCEPT ![j] = SessionResult(server[hosts[i]], hosts[i])]
    /\ running' = running \ {i}
    /\ up' = up \ {i}
    /\ UNCHANGED <<pc, hosts, next, tlsa, expired, features, world>>

\* A connected session ends at the stage its server lets it reach.
SessionReturns(i) ==
    /\ pc = "smtp"
    /\ i \in up
    /\ mxResults' = [mxResults EXCEPT ![i] = SessionResult(server[hosts[i]], hosts[i])]
    /\ running' = running \ {i}
    /\ up' = up \ {i}
    /\ UNCHANGED <<pc, hosts, next, tlsa, expired, features, world>>

AllIn == next > Len(hosts) /\ running = {}

\* Bugs: the TLSA phase is started while sessions are under way; its loop goes
\* on where the first one ended.
WaitSessions_Early ==
    /\ pc = "smtp"
    /\ next > Len(hosts)
    /\ pc' = "tlsa"
    /\ next' = 1
    /\ running' = {}
    /\ up' = {}
    /\ UNCHANGED <<hosts, mxResults, tlsa, expired, features, world>>

WaitSessions_NoReset ==
    /\ pc = "smtp"
    /\ AllIn
    /\ pc' = "tlsa"
    /\ UNCHANGED <<hosts, next, running, up, mxResults, tlsa, expired, features, world>>

\* g.Wait: every session is over, the second group starts from the first host.
WaitSessions ==
    /\ pc = "smtp"
    /\ AllIn
    /\ pc' = "tlsa"
    /\ next' = 1
    /\ UNCHANGED <<hosts, running, up, mxResults, tlsa, expired, features, world>>

\* The TLSA lookup for slot i fails, or answers what the zone holds.
LookupAnswers(i) ==
    IF hosts[i] \in dead \/ expired THEN {LookupFailed}
    ELSE {[ok |-> TRUE, records |-> zone[hosts[i]]]}

\* A bug: a lookup that failed is tried again, and so on.
LookupReturns_Retried(i) ==
    /\ pc = "tlsa"
    /\ i \in running
    /\ LET answers == LookupAnswers(i) \ {LookupFailed}
       IN  \/ /\ answers # {}
              /\ \E answer \in answers : tlsa' = [tlsa EXCEPT ![i] = answer]
              /\ running' = running \ {i}
           \/ answers = {} /\ UNCHANGED <<tlsa, running>>
    /\ UNCHANGED <<pc, hosts, next, up, mxResults, expired, features, world>>

LookupReturns(i) ==
    /\ pc = "tlsa"
    /\ i \in running
    /\ \E answer \in LookupAnswers(i) : tlsa' = [tlsa EXCEPT ![i] = answer]
    /\ running' = running \ {i}
    /\ UNCHANGED <<pc, hosts, next, up, mxResults, expired, features, world>>

\* What the assembly loops make of slot i.
Observation(i) ==
    [connected |-> mxResults[i].connected,
     accepted  |-> mxResults[i].accepted,
     tlsa      |-> CASE ~tlsa[i].ok -> "failed"
                     [] tlsa[i].ok /\ tlsa[i].records = <<>> -> "none"
                     [] tlsa[i].ok /\ tlsa[i].records # <<>> ->
                           IF Matched(tlsa[i], mxResults[i]) THEN "match" ELSE "mismatch"]

\* g2.Wait, and the verdicts over all slots.
Judge ==
    /\ pc = "tlsa"
    /\ AllIn
    /\ features' = MtaTlsVerdict([ok |-> TRUE, noMail |-> FALSE,
                                  hosts |-> [i \in Probed |-> Observation(i)]])
    /\ pc' = "done"
    /\ UNCHANGED <<hosts, next, running, up, mxResults, tlsa, expired, world>>

Terminated == Done /\ UNCHANGED vars

Next ==
    \/ Expire
    \/ MxFails \/ MxRefusesMail \/ MxHears
    \/ Go
    \/ \E i \in Probed : Connects(i) \/ DialFails(i) \/ SessionReturns(i) \/ LookupReturns(i)
    \/ WaitSessions
    \/ Judge
    \/ Terminated

Spec == Init /\ [][Next]_vars

\* The context ends (context.WithTimeout), and with it every lookup that is
\* under way; over DoH, where the timeouts of three providers add up past the
\* budget, nothing else ends one in time.  A dial has its own timeout and a
\* session its own deadline; the loops and the Waits go on as they can.
Fairness ==
    /\ WF_vars(Expire)
    /\ WF_vars(expired /\ MxFails)
    /\ WF_vars(Go)
    /\ \A i \in Slot :
          /\ WF_vars(Connects(i) \/ DialFails(i))
          /\ WF_vars(SessionReturns(i))
          /\ WF_vars(expired /\ LookupReturns(i))
    /\ WF_vars(WaitSessions)
    /\ WF_vars(Judge)

FairSpec == Spec /\ Fairness

-----------------------------------------------------------------------------
(* Properties.                                                             *)

\* The hosts mail for the domain goes to.
MailHosts == {normal[mxRecords[k].host] : k \in DOMAIN mxRecords} \ {NoHost}

\* mtatls.go:184-214, 297: in whatever order sessions and lookups end, each
\* host's TLSA records are held against the leaf certificate of that very host,
\* never against another's nor against an issuer's: without a timeout, DANE is
\* present exactly if every mail host has a record of the certificate it shows,
\* and STARTTLS exactly if every one completes TLS.
EachHostByItsOwnCertificate ==
    pc = "done" /\ ~expired /\ MailHosts # {} =>
        /\ features[1] = "present" <=> \A h \in MailHosts : server[h] = "tls"
        /\ features[2] = "present" <=>
               \A h \in MailHosts :
                   /\ server[h] = "tls" /\ h \notin dead
                   /\ \E k \in DOMAIN zone[h] : zone[h][k] = chainOf[h][1]

\* Neither a timeout nor an MX answer that names no host invents security: even
\* then nothing is called present that some mail host lacks, and where there is
\* no mail host nothing is called there, nor there and broken.
TimeoutInventsNothing ==
    pc = "done" =>
        /\ \A h \in MailHosts :
              /\ features[1] = "present" => server[h] = "tls"
              /\ features[2] = "present" => server[h] = "tls" /\ h \notin dead
        /\ MailHosts = {} => \A k \in 1 .. 2 : features[k] \notin {"present", "misconfigured"}

\* README.md:199: "only ever connects once per MX", however MX records spell it,
\* to each of them and to nobody else.
ConnectsOncePerMX ==
    /\ \A i, j \in Probed : hosts[i] = hosts[j] => i = j
    /\ {hosts[i] : i \in Probed} = IF pc \in {"smtp", "tlsa", "done"} THEN MailHosts ELSE {}

\* The outcomes Scan is given for this probe are those it can have: with all
\* servers up and time enough one on complete answers, with the MX lookup never
\* answered one on none.
OutcomeAsTabulated ==
    Done =>
        /\ ~expired /\ ~mxDead /\ dead = {} /\ (\A h \in Host : server[h] # "refused") =>
               features \in VerdictTable["mtatls"]["answered"]
        /\ mxDead => features \in VerdictTable["mtatls"]["failed"]

\* README.md:204-206: with port 25 blocked "STARTTLS will come back as UNKNOWN
\* and DANE will be ABSENT (no TLSA observable)".
BlockedPortIsAbsent ==
    pc = "done" /\ MailHosts # {} /\ (\A h \in Host : server[h] = "refused") =>
        features = <<"unknown", "absent">>

\* The probe always returns.
ProbeEnds == <>Done
=============================================================================
