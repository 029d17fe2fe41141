---------------------------- MODULE MtaTls_proofs ----------------------------
(***************************************************************************)
(* Proofs about the active SMTP probe, for every MX answer, every way to   *)
(* spell host names, every set of servers and TLSA zones and every         *)
(* Concurrency.                                                            *)
(***************************************************************************)
EXTENDS MtaTlsFanOut, Pick_proofs

-----------------------------------------------------------------------------
(* The pure parts.                                                         *)

\* The hosts that records name, under their normal names.
HostsNamed(records) == {normal[records[k].host] : k \in DOMAIN records} \ {NoHost}

\* uniqueMXHosts returns the hosts that the records name, each of them once.
LEMMA UniqueHosts ==
  ASSUME NEW records \in MXAnswers
  PROVE  LET hs == uniqueMXHosts(records)
         IN  /\ hs \in Seq(Host) /\ Len(hs) \in Nat /\ Len(hs) <= MaxMX
             /\ \A i, j \in DOMAIN hs : hs[i] = hs[j] => i = j
             /\ \A i \in DOMAIN hs : hs[i] \in HostsNamed(records)
             /\ \A h \in HostsNamed(records) : \E i \in DOMAIN hs : hs[i] = h
  <1> DEFINE names == Names(records)
             named == {k \in DOMAIN records : names[k] # NoHost}
             F == Firsts(names, named)
             hs == uniqueMXHosts(records)
  <1>1. /\ records \in Seq([pref : Nat, host : RawHost])
        /\ Len(records) \in Nat /\ Len(records) <= MaxMX /\ MaxMX \in Nat
        /\ DOMAIN records = 1 .. Len(records)
        /\ \A k \in DOMAIN records : records[k].host \in RawHost
    <2>1. records \in Seq([pref : Nat, host : RawHost])
      BY MtaTlsAssumption
    <2>2. Len(records) <= MaxMX /\ MaxMX \in Nat
      BY MtaTlsAssumption
    <2>3. /\ \A k \in DOMAIN records : records[k] \in [pref : Nat, host : RawHost]
          /\ Len(records) \in Nat /\ DOMAIN records = 1 .. Len(records)
      BY <2>1, SequenceElements
    <2> QED
      BY <2>1, <2>2, <2>3
  <1>2. /\ names \in Seq(Host \cup {NoHost}) /\ DOMAIN names = 1 .. Len(records)
        /\ \A k \in DOMAIN records : names[k] = normal[records[k].host]
    <2>1. \A r \in RawHost : normal[r] \in Host \cup {NoHost}
      BY MtaTlsAssumption
    <2>2. names = [k \in 1 .. Len(records) |-> normal[records[k].host]]
      BY <1>1 DEF Names
    <2>3. names \in [1 .. Len(records) -> Host \cup {NoHost}]
      BY <1>1, <2>1, <2>2
    <2> QED
      BY <1>1, <2>2, <2>3
  <1>3. named \in SUBSET (DOMAIN names) /\ F \in SUBSET named
    BY <1>1, <1>2 DEF Firsts
  <1>4. hs = Picked(names, F)
    BY DEF uniqueMXHosts
  <1>5. Cardinality(F) \in Nat /\ Cardinality(F) <= Len(records)
    <2>1. F \in SUBSET (1 .. Len(records))
      BY <1>2, <1>3
    <2> QED
      BY <1>1, <2>1, PositionsFinite
  <1> HIDE DEF names, named, F, hs
  <1>6. /\ hs \in Seq(Host \cup {NoHost}) /\ Len(hs) = Cardinality(F)
        /\ \A k \in 1 .. Cardinality(F) : \E i \in F : hs[k] = names[i]
    <2> DEFINE S == Host \cup {NoHost}
    <2>1. names \in Seq(S) /\ F \in SUBSET (DOMAIN names)
      BY <1>2, <1>3
    <2> HIDE DEF S
    <2>2. /\ hs \in Seq(S) /\ Len(hs) = Cardinality(F)
          /\ \A k \in 1 .. Cardinality(F) : \E i \in F : hs[k] = names[i]
      BY <1>4, <2>1, PickedElements
    <2> QED
      BY <2>2 DEF S
  <1>7. /\ \A k, l \in 1 .. Cardinality(F) : hs[k] = hs[l] => k = l
        /\ \A i \in named : \E k \in 1 .. Cardinality(F) : hs[k] = names[i]
    BY <1>2, <1>3, <1>4, FirstsAreDistinct DEF F
  <1>8. DOMAIN hs = 1 .. Cardinality(F)
    BY <1>6
  <1>9. ASSUME NEW k \in DOMAIN hs
        PROVE  hs[k] \in HostsNamed(records)
    <2>1. PICK i \in F : hs[k] = names[i]
      BY <1>6, <1>8
    <2>2. i \in DOMAIN records /\ names[i] # NoHost
      BY <1>3 DEF named
    <2> QED
      BY <1>2, <2>1, <2>2 DEF HostsNamed
  <1>10. ASSUME NEW h \in HostsNamed(records)
         PROVE  \E k \in DOMAIN hs : hs[k] = h
    <2>1. PICK i \in DOMAIN records : h = names[i] /\ names[i] # NoHost
      BY <1>2 DEF HostsNamed
    <2>2. i \in named
      BY <2>1 DEF named
    <2> QED
      BY <1>7, <1>8, <2>1, <2>2
  <1>11. HostsNamed(records) \subseteq Host
    BY <1>1, MtaTlsAssumption DEF HostsNamed
  <1>12. hs \in [1 .. Cardinality(F) -> Host]
    <2>1. hs \in [1 .. Cardinality(F) -> Host \cup {NoHost}]
      BY <1>6
    <2> QED
      BY <1>8, <1>9, <1>11, <2>1
  <1>13. hs \in Seq(Host)
    BY <1>5, <1>12
  <1>14. Len(hs) \in Nat /\ Len(hs) <= MaxMX
    BY <1>1, <1>5, <1>6
  <1> QED
    BY <1>7, <1>8, <1>9, <1>10, <1>13, <1>14 DEF hs

\* What a session leaves is never what an untouched slot holds, and it says
\* whether the session was connected and whether it completed TLS; the chain it
\* was shown is its own host's.
LEMMA SessionFields ==
  ASSUME NEW s \in Stage, NEW h \in Host
  PROVE  /\ SessionResult(s, h) \in SessionResults
         /\ SessionResult(s, h) # NoSession
         /\ SessionResult(s, h).connected <=> s # "refused"
         /\ SessionResult(s, h).accepted <=> s = "tls"
         /\ SessionResult(s, h).chain # <<>> <=> s = "tls"
         /\ s = "tls" => SessionResult(s, h).chain = chainOf[h]
         /\ SessionResult(s, h).connected \in BOOLEAN
         /\ SessionResult(s, h).accepted \in BOOLEAN
  <1>1. /\ SessionResult(s, h).connected = (s # "refused")
        /\ SessionResult(s, h).connectErr = (s \in {"refused", "greeting"})
        /\ SessionResult(s, h).accepted = (s = "tls")
        /\ SessionResult(s, h).chain = IF s = "tls" THEN chainOf[h] ELSE <<>>
    BY DEF SessionResult
  <1>2. NoSession.connected = FALSE /\ NoSession.connectErr = FALSE
    BY DEF NoSession
  <1>3. SessionResult(s, h) # NoSession
    <2>1. CASE s = "refused"
      BY <1>1, <1>2, <2>1
    <2>2. CASE s # "refused"
      BY <1>1, <1>2, <2>2
    <2> QED
      BY <2>1, <2>2
  <1>4. chainOf[h] # <<>>
    BY MtaTlsAssumption
  <1>5. SessionResult(s, h) \in SessionResults
    BY DEF SessionResults
  <1> QED
    BY <1>1, <1>3, <1>4, <1>5

\* What a lookup leaves is never what an untouched slot holds.
LEMMA LookupFields ==
  /\ NoLookup \notin LookupResult
  /\ LookupFailed \in LookupResult
  /\ \A a \in TLSAAnswers : [ok |-> TRUE, records |-> a] \in LookupResult
  /\ LookupFailed.ok = FALSE
  <1>1. NoLookup.ok = FALSE /\ NoLookup.records = <<"pending">>
    BY DEF NoLookup
  <1>2. LookupFailed.ok = FALSE /\ LookupFailed.records = <<>>
    BY DEF LookupFailed
  <1>3. NoLookup # LookupFailed
    BY <1>1, <1>2
  <1>4. \A a \in TLSAAnswers : [ok |-> TRUE, records |-> a] # NoLookup
    BY <1>1
  <1> QED
    BY <1>2, <1>3, <1>4 DEF LookupResult

\* Both verdicts are statuses, whatever the observations.
LEMMA VerdictStatuses ==
  ASSUME NEW hs
  PROVE  /\ StartTlsVerdict(hs) \in {"present", "unknown", "misconfigured"}
         /\ StartTlsVerdict(hs) = "present" <=>
               /\ \E h \in DOMAIN hs : hs[h].connected
               /\ \A h \in DOMAIN hs : hs[h].accepted
  <1>1. CASE \A h \in DOMAIN hs : ~hs[h].connected
    <2>1. StartTlsVerdict(hs) = "unknown"
      BY <1>1 DEF StartTlsVerdict
    <2> QED
      BY <1>1, <2>1
  <1>2. CASE \E h \in DOMAIN hs : hs[h].connected
    <2>1. StartTlsVerdict(hs) = IF \A h \in DOMAIN hs : hs[h].accepted
                                THEN "present" ELSE "misconfigured"
      BY <1>2 DEF StartTlsVerdict
    <2> QED
      BY <1>2, <2>1
  <1> QED
    BY <1>1, <1>2

LEMMA DaneStatuses ==
  ASSUME NEW hs,
         \A h \in DOMAIN hs : hs[h].tlsa \in {"failed", "none", "match", "mismatch"}
  PROVE  /\ DaneVerdict(hs) \in {"present", "absent", "misconfigured"}
         /\ DaneVerdict(hs) = "present" <=>
               /\ DOMAIN hs # {}
               /\ \A h \in DOMAIN hs : hs[h].tlsa = "match"
  <1>1. CASE \A h \in DOMAIN hs : hs[h].tlsa \in {"failed", "none"}
    <2>1. DaneVerdict(hs) = "absent"
      BY <1>1 DEF DaneVerdict
    <2>2. \A h \in DOMAIN hs : hs[h].tlsa # "match"
      BY <1>1
    <2> QED
      BY <2>1, <2>2
  <1>2. CASE \E h \in DOMAIN hs : hs[h].tlsa \in {"match", "mismatch"}
    <2>1. DaneVerdict(hs) = IF \A h \in DOMAIN hs : hs[h].tlsa = "match"
                            THEN "present" ELSE "misconfigured"
      BY <1>2 DEF DaneVerdict
    <2> QED
      BY <1>2, <2>1
  <1> QED
    BY <1>1, <1>2

-----------------------------------------------------------------------------
(* The inductive invariant.                                                *)

\* What is in the slot of a session that is over, against its own server.
SessionSeen(i) ==
    \/ mxResults[i] = SessionResult(server[hosts[i]], hosts[i])
    \/ expired /\ mxResults[i] = SessionResult("refused", hosts[i])

\* What is in the slot of a lookup that is back, against the same host's zone.
LookupSeen(i) ==
    \/ /\ tlsa[i] = [ok |-> TRUE, records |-> zone[hosts[i]]]
       /\ hosts[i] \notin dead
    \/ /\ tlsa[i] = LookupFailed
       /\ hosts[i] \in dead \/ expired

\* The slots that the loop of this phase has handed out and got back; those of
\* the sessions, all of them once the second phase has begun; those of the
\* lookups, none before.
Back == {i \in Probed : i < next} \ running
SessionsOver == IF pc \in {"tlsa", "done"} THEN Probed ELSE Back
LookupsOver == IF pc \in {"tlsa", "done"} THEN Back ELSE {}

Judged == MtaTlsVerdict([ok |-> TRUE, noMail |-> FALSE,
                         hosts |-> [i \in Probed |-> Observation(i)]])

\* Where the probe is in its two phases.
PhaseInv ==
    /\ pc \in {"mx", "early"} => hosts = <<>> /\ next = 1
    /\ pc \in {"smtp", "tlsa", "done"} => hosts = uniqueMXHosts(mxRecords)
    /\ \A i \in running : i < next
    /\ pc # "smtp" => up = {}
    /\ \A i \in up : server[hosts[i]] # "refused"
    /\ pc = "early" => \/ features = <<"unknown", "unknown">> /\ (mxDead \/ expired)
                       \/ features = <<"absent", "absent">> /\ ~mxDead
    /\ pc \in {"smtp", "tlsa", "done"} => ~mxDead
    /\ pc = "done" => AllIn /\ features = Judged

\* A slot is filled, with what its own host answers, exactly if it is over.
SessionsInv ==
    \A i \in Slot : IF i \in SessionsOver THEN SessionSeen(i) ELSE mxResults[i] = NoSession

LookupsInv ==
    \A i \in Slot : IF i \in LookupsOver THEN LookupSeen(i) ELSE tlsa[i] = NoLookup

MtaTlsInv == TypeOK /\ PhaseInv /\ SessionsInv /\ LookupsInv

\* Facts that hold in every state of the right type.
LEMMA SlotFacts ==
  ASSUME TypeOK
  PROVE  /\ Len(hosts) \in Nat /\ MaxMX \in Nat
         /\ DOMAIN hosts = Probed
         /\ Probed \subseteq Slot
         /\ next \in Int /\ 1 <= next /\ next <= Len(hosts) + 1
         /\ \A i \in Slot : i \in Int
         /\ \A i \in Probed : /\ hosts[i] \in Host
                              /\ server[hosts[i]] \in Stage
                              /\ zone[hosts[i]] \in TLSAAnswers
  BY MtaTlsAssumption DEF TypeOK, Probed, Slot

LEMMA InitMtaTlsInv == Init => MtaTlsInv
  <1> SUFFICES ASSUME Init PROVE MtaTlsInv
    OBVIOUS
  <1> USE DEF Init
  <1>0. Len(<<>>) = 0 /\ <<>> \in Seq(Host) /\ MaxMX \in Nat
    BY MtaTlsAssumption
  <1>1. Probed = {}
    BY <1>0 DEF Probed
  <1>2. TypeOK
    <2>1. hosts \in Seq(Host) /\ Len(hosts) <= MaxMX /\ next \in 1 .. Len(hosts) + 1
      BY <1>0
    <2>2. mxResults \in [Slot -> SessionResults \cup {NoSession}]
      OBVIOUS
    <2>3. tlsa \in [Slot -> LookupResult \cup {NoLookup}]
      OBVIOUS
    <2> QED
      BY <2>1, <2>2, <2>3 DEF TypeOK
  <1>3. PhaseInv
    BY DEF PhaseInv
  <1>4. SessionsInv /\ LookupsInv
    BY <1>1 DEF SessionsInv, LookupsInv, SessionsOver, LookupsOver, Back
  <1> QED
    BY <1>2, <1>3, <1>4 DEF MtaTlsInv

\* Steps that touch neither the hosts nor the slots nor what is under way.
LEMMA Untouched ==
  ASSUME MtaTlsInv,
         UNCHANGED <<pc, hosts, next, running, up, mxResults, tlsa, features, world>>,
         expired => expired', expired' \in BOOLEAN
  PROVE  MtaTlsInv'
  <1>1. TypeOK'
    BY DEF MtaTlsInv, TypeOK, Probed, world
  <1>2. Judged' = Judged
    BY DEF Judged, Probed, Observation
  <1>3. PhaseInv'
    BY <1>2 DEF MtaTlsInv, PhaseInv, AllIn, world
  <1>4. SessionsInv'
    BY DEF MtaTlsInv, SessionsInv, SessionsOver, Back, Probed, SessionSeen, world
  <1>5. LookupsInv'
    BY DEF MtaTlsInv, LookupsInv, LookupsOver, Back, Probed, LookupSeen, world
  <1> QED
    BY <1>1, <1>3, <1>4, <1>5 DEF MtaTlsInv

\* The early returns, and the hosts heard: no slot is touched yet.
LEMMA MxStep ==
  ASSUME MtaTlsInv, MxFails \/ MxRefusesMail \/ MxHears
  PROVE  MtaTlsInv'
  <1>1. /\ pc = "mx" /\ hosts = <<>> /\ next = 1 /\ running = {} /\ up = {} /\ Probed = {}
    <2>1. pc = "mx" /\ hosts = <<>> /\ next = 1
      BY DEF MtaTlsInv, PhaseInv, MxFails, MxRefusesMail, MxHears
    <2>2. Probed = {}
      BY <2>1 DEF Probed
    <2> QED
      BY <2>1, <2>2 DEF MtaTlsInv, TypeOK
  <1>2. UNCHANGED <<next, running, up, mxResults, tlsa, expired, world>>
    BY DEF MxFails, MxRefusesMail, MxHears
  <1>3. \A i \in Slot : mxResults[i] = NoSession /\ tlsa[i] = NoLookup
    BY <1>1 DEF MtaTlsInv, SessionsInv, LookupsInv, SessionsOver, LookupsOver, Back
  <1>4. Back' = {} /\ pc' \in {"early", "smtp"}
    <2>1. \A i \in Probed' : ~(i < next')
      BY <1>1, <1>2 DEF Probed
    <2> QED
      BY <2>1 DEF Back, MxFails, MxRefusesMail, MxHears
  <1>5. SessionsInv' /\ LookupsInv'
    BY <1>2, <1>3, <1>4 DEF SessionsInv, LookupsInv, SessionsOver, LookupsOver
  <1>6. CASE MxFails \/ MxRefusesMail
    <2>1. \/ features' = <<"unknown", "unknown">> /\ (mxDead' \/ expired')
          \/ features' = <<"absent", "absent">> /\ ~mxDead'
      BY <1>2, <1>6 DEF MxFails, MxRefusesMail, MtaTlsVerdict, world
    <2>2. features' \in [1 .. 2 -> {"present", "absent", "unknown", "misconfigured"}]
      BY <2>1
    <2>3. hosts' = hosts /\ pc' = "early"
      BY <1>6 DEF MxFails, MxRefusesMail
    <2>4. TypeOK'
      BY <1>2, <2>2, <2>3 DEF MtaTlsInv, TypeOK, Probed, world
    <2>5. PhaseInv'
      BY <1>1, <1>2, <2>1, <2>3 DEF PhaseInv
    <2> QED
      BY <1>5, <2>4, <2>5 DEF MtaTlsInv
  <1>7. CASE MxHears
    <2>1. /\ hosts' = uniqueMXHosts(mxRecords) /\ pc' = "smtp" /\ features' = features
          /\ ~mxDead'
      BY <1>2, <1>7 DEF MxHears, world
    <2>2. mxRecords \in MXAnswers /\ mxRecords' = mxRecords
      BY <1>2 DEF MtaTlsInv, TypeOK, world
    <2>3. hosts' \in Seq(Host) /\ Len(hosts') \in Nat /\ Len(hosts') <= MaxMX
      BY <2>1, <2>2, UniqueHosts
    <2>4. next' \in 1 .. Len(hosts') + 1 /\ running' \in SUBSET Probed' /\ up' \in SUBSET running'
      BY <1>1, <1>2, <2>3
    <2>5. TypeOK'
      BY <1>2, <2>1, <2>3, <2>4 DEF MtaTlsInv, TypeOK, world
    <2>6. PhaseInv'
      BY <1>1, <1>2, <2>1, <2>2 DEF PhaseInv
    <2> QED
      BY <1>5, <2>5, <2>6 DEF MtaTlsInv
  <1> QED
    BY <1>6, <1>7

LEMMA GoStep ==
  ASSUME MtaTlsInv, Go
  PROVE  MtaTlsInv'
  <1>0. /\ pc \in {"smtp", "tlsa"} /\ next \in Probed
        /\ next' = next + 1 /\ running' = running \cup {next}
        /\ UNCHANGED <<pc, hosts, up, mxResults, tlsa, expired, features, world>>
        /\ Probed' = Probed
    BY DEF Go, Probed
  <1>1. next \in Int /\ Len(hosts) \in Nat /\ \A i \in Probed : i \in Int
    BY SlotFacts DEF MtaTlsInv, Probed
  <1>2. TypeOK'
    <2>1. next' \in 1 .. Len(hosts') + 1
      BY <1>0, <1>1 DEF Probed
    <2> QED
      BY <1>0, <2>1 DEF MtaTlsInv, TypeOK, world
  <1>3. \A i \in running' : i < next'
    BY <1>0, <1>1 DEF MtaTlsInv, PhaseInv, TypeOK
  <1>4. PhaseInv'
    BY <1>0, <1>3 DEF MtaTlsInv, PhaseInv, world
  <1>5. Back' = Back
    <2>0. \A a, b \in Int : a < b + 1 <=> (a < b \/ a = b)
      OBVIOUS
    <2>1. \A i \in Probed : i < next' <=> (i < next \/ i = next)
      <3>1. next' = next + 1
        BY <1>0
      <3> QED
        BY <1>1, <2>0, <3>1
    <2>2. ~(next < next)
      BY <1>1
    <2> QED
      BY <1>0, <2>1, <2>2 DEF Back
  <1>6. SessionsInv'
    BY <1>0, <1>5 DEF MtaTlsInv, SessionsInv, SessionsOver, SessionSeen, world
  <1>7. LookupsInv'
    BY <1>0, <1>5 DEF MtaTlsInv, LookupsInv, LookupsOver, LookupSeen, world
  <1> QED
    BY <1>2, <1>4, <1>6, <1>7 DEF MtaTlsInv

LEMMA ConnectsStep ==
  ASSUME MtaTlsInv, NEW i \in Probed, Connects(i)
  PROVE  MtaTlsInv'
  <1>0. /\ pc = "smtp" /\ i \in running /\ server[hosts[i]] # "refused"
        /\ up' = up \cup {i}
        /\ UNCHANGED <<pc, hosts, next, running, mxResults, tlsa, expired, features, world>>
        /\ Probed' = Probed
    BY DEF Connects, Probed
  <1>1. TypeOK'
    BY <1>0 DEF MtaTlsInv, TypeOK, world
  <1>2. PhaseInv'
    BY <1>0 DEF MtaTlsInv, PhaseInv, world
  <1>3. SessionsInv'
    BY <1>0 DEF MtaTlsInv, SessionsInv, SessionsOver, Back, SessionSeen, world
  <1>4. LookupsInv'
    BY <1>0 DEF MtaTlsInv, LookupsInv, LookupsOver, Back, LookupSeen, world
  <1> QED
    BY <1>1, <1>2, <1>3, <1>4 DEF MtaTlsInv

\* A slot that was under way is handed back: that one and no other.
LEMMA HandedBack ==
  ASSUME MtaTlsInv, NEW i \in running,
         running' = running \ {i}, UNCHANGED <<hosts, next>>
  PROVE  i \in Probed /\ i \in Slot /\ i \notin Back /\ Back' = Back \cup {i}
  <1>1. i \in Probed /\ i \in Slot /\ i < next
    BY SlotFacts DEF MtaTlsInv, TypeOK, PhaseInv
  <1>2. Probed' = Probed
    BY DEF Probed
  <1> QED
    BY <1>1, <1>2 DEF Back

\* A session is over, because the dial failed or because its server let it get
\* as far as that.
LEMMA SessionStep ==
  ASSUME MtaTlsInv, NEW i \in Probed, DialFails(i) \/ SessionReturns(i)
  PROVE  /\ MtaTlsInv'
         /\ \E v \in SessionResults : mxResults' = [mxResults EXCEPT ![i] = v]
  <1>0. /\ pc = "smtp" /\ i \in running /\ running' = running \ {i} /\ up' = up \ {i}
        /\ UNCHANGED <<pc, hosts, next, tlsa, expired, features, world>>
        /\ Probed' = Probed
    BY DEF DialFails, SessionReturns, Probed, MtaTlsInv, TypeOK
  <1>1. i \in Slot /\ i \notin Back /\ Back' = Back \cup {i}
    BY <1>0, HandedBack
  <1>2. PICK s \in Stage :
           /\ mxResults' = [mxResults EXCEPT ![i] = SessionResult(s, hosts[i])]
           /\ SessionResult(s, hosts[i]) \in SessionResults
           /\ s = server[hosts[i]] \/ (expired /\ s = "refused")
    <2>1. server[hosts[i]] \in Stage /\ "refused" \in Stage /\ hosts[i] \in Host
      BY SlotFacts DEF MtaTlsInv, Stage
    <2>2. PICK s \in {server[hosts[i]], "refused"} :
             /\ mxResults' = [mxResults EXCEPT ![i] = SessionResult(s, hosts[i])]
             /\ s = server[hosts[i]] \/ (expired /\ s = "refused")
      BY DEF DialFails, SessionReturns
    <2>3. SessionResult(s, hosts[i]) \in SessionResults
      BY <2>1, SessionFields
    <2> QED
      BY <2>1, <2>2, <2>3
  <1>3. mxResults'[i] = SessionResult(s, hosts[i]) /\ \A j \in Slot \ {i} : mxResults'[j] = mxResults[j]
    BY <1>1, <1>2 DEF MtaTlsInv, TypeOK
  <1>4. TypeOK'
    <2>1. mxResults' \in [Slot -> SessionResults \cup {NoSession}]
      BY <1>2 DEF MtaTlsInv, TypeOK
    <2> QED
      BY <1>0, <2>1 DEF MtaTlsInv, TypeOK, world
  <1>5. PhaseInv'
    BY <1>0 DEF MtaTlsInv, PhaseInv, world
  <1>6. SessionsInv'
    <2>1. SessionsOver' = SessionsOver \cup {i}
      BY <1>0, <1>1 DEF SessionsOver
    <2>2. SessionSeen(i)'
      BY <1>0, <1>2, <1>3 DEF SessionSeen, world
    <2>3. \A j \in Slot \ {i} : SessionSeen(j)' <=> SessionSeen(j)
      BY <1>0, <1>3 DEF SessionSeen, world
    <2> QED
      BY <1>3, <2>1, <2>2, <2>3 DEF MtaTlsInv, SessionsInv
  <1>7. LookupsInv'
    BY <1>0 DEF MtaTlsInv, LookupsInv, LookupsOver
  <1> QED
    BY <1>2, <1>4, <1>5, <1>6, <1>7 DEF MtaTlsInv

\* Between the phases: all sessions are over, no lookup has begun.
LEMMA WaitStep ==
  ASSUME MtaTlsInv, WaitSessions
  PROVE  MtaTlsInv'
  <1>0. /\ pc = "smtp" /\ pc' = "tlsa" /\ AllIn /\ next' = 1
        /\ UNCHANGED <<hosts, running, up, mxResults, tlsa, expired, features, world>>
        /\ Probed' = Probed
    BY DEF WaitSessions, Probed
  <1>1. next \in Int /\ Len(hosts) \in Nat
    BY SlotFacts DEF MtaTlsInv
  <1>2. Back = Probed /\ running = {} /\ up = {}
    <2>1. \A i \in Probed : i < next
      BY <1>0, <1>1 DEF AllIn, Probed
    <2> QED
      BY <1>0, <2>1 DEF AllIn, Back, MtaTlsInv, TypeOK
  <1>3. Back' = {}
    <2>1. \A i \in Probed' : ~(i < next')
      BY <1>0, <1>1 DEF Probed
    <2> QED
      BY <2>1 DEF Back
  <1>4. TypeOK'
    <2>1. next' \in 1 .. Len(hosts') + 1
      BY <1>0, <1>1
    <2> QED
      BY <1>0, <2>1 DEF MtaTlsInv, TypeOK, world
  <1>5. PhaseInv'
    BY <1>0, <1>2 DEF MtaTlsInv, PhaseInv, world
  <1>6. SessionsInv'
    BY <1>0, <1>2 DEF MtaTlsInv, SessionsInv, SessionsOver, SessionSeen, world
  <1>7. LookupsInv'
    BY <1>0, <1>3 DEF MtaTlsInv, LookupsInv, LookupsOver
  <1> QED
    BY <1>4, <1>5, <1>6, <1>7 DEF MtaTlsInv

\* A lookup is back.
LEMMA LookupStep ==
  ASSUME MtaTlsInv, NEW i \in Probed, LookupReturns(i)
  PROVE  /\ MtaTlsInv'
         /\ \E v \in LookupResult : tlsa' = [tlsa EXCEPT ![i] = v]
  <1>0. /\ pc = "tlsa" /\ i \in running /\ running' = running \ {i}
        /\ UNCHANGED <<pc, hosts, next, up, mxResults, expired, features, world>>
        /\ Probed' = Probed
    BY DEF LookupReturns, Probed
  <1>1. i \in Slot /\ i \notin Back /\ Back' = Back \cup {i}
    BY <1>0, HandedBack
  <1>2. PICK v \in LookupResult :
           /\ tlsa' = [tlsa EXCEPT ![i] = v]
           /\ \/ v = [ok |-> TRUE, records |-> zone[hosts[i]]] /\ hosts[i] \notin dead
              \/ v = LookupFailed /\ (hosts[i] \in dead \/ expired)
    <2>1. zone[hosts[i]] \in TLSAAnswers
      BY SlotFacts DEF MtaTlsInv
    <2>2. PICK answer \in LookupAnswers(i) : tlsa' = [tlsa EXCEPT ![i] = answer]
      BY DEF LookupReturns
    <2>3. \/ answer = [ok |-> TRUE, records |-> zone[hosts[i]]] /\ hosts[i] \notin dead
          \/ answer = LookupFailed /\ (hosts[i] \in dead \/ expired)
      BY <2>2 DEF LookupAnswers
    <2>4. answer \in LookupResult
      BY <2>1, <2>3, LookupFields
    <2> QED
      BY <2>2, <2>3, <2>4
  <1>3. tlsa'[i] = v /\ \A j \in Slot \ {i} : tlsa'[j] = tlsa[j]
    BY <1>1, <1>2 DEF MtaTlsInv, TypeOK
  <1>4. TypeOK'
    <2>1. tlsa' \in [Slot -> LookupResult \cup {NoLookup}]
      BY <1>2 DEF MtaTlsInv, TypeOK
    <2>2. up = {}
      BY <1>0 DEF MtaTlsInv, PhaseInv
    <2> QED
      BY <1>0, <2>1, <2>2 DEF MtaTlsInv, TypeOK, world
  <1>5. PhaseInv'
    BY <1>0 DEF MtaTlsInv, PhaseInv, world
  <1>6. SessionsInv'
    BY <1>0 DEF MtaTlsInv, SessionsInv, SessionsOver, SessionSeen, world
  <1>7. LookupsInv'
    <2>1. LookupsOver' = LookupsOver \cup {i}
      BY <1>0, <1>1 DEF LookupsOver
    <2>2. LookupSeen(i)'
      BY <1>0, <1>2, <1>3 DEF LookupSeen, world
    <2>3. \A j \in Slot \ {i} : LookupSeen(j)' <=> LookupSeen(j)
      BY <1>0, <1>3 DEF LookupSeen, world
    <2> QED
      BY <1>3, <2>1, <2>2, <2>3 DEF MtaTlsInv, LookupsInv
  <1> QED
    BY <1>2, <1>4, <1>5, <1>6, <1>7 DEF MtaTlsInv
\* The assembly loops find one of four things out about a lookup.
LEMMA ObservationFields ==
  ASSUME NEW i
  PROVE  /\ Observation(i).connected = mxResults[i].connected
         /\ Observation(i).accepted = mxResults[i].accepted
         /\ Observation(i).tlsa \in {"failed", "none", "match", "mismatch"}
         /\ Observation(i).tlsa = "match" <=>
               /\ tlsa[i].ok /\ tlsa[i].records # <<>>
               /\ Matched(tlsa[i], mxResults[i])
  <1> DEFINE found == CASE ~tlsa[i].ok -> "failed"
                        [] tlsa[i].ok /\ tlsa[i].records = <<>> -> "none"
                        [] tlsa[i].ok /\ tlsa[i].records # <<>> ->
                              IF Matched(tlsa[i], mxResults[i]) THEN "match" ELSE "mismatch"
  <1>1. /\ Observation(i).connected = mxResults[i].connected
        /\ Observation(i).accepted = mxResults[i].accepted
        /\ Observation(i).tlsa = found
    BY DEF Observation
  <1>2. CASE ~tlsa[i].ok
    <2>1. found = "failed"
      BY <1>2
    <2> QED
      BY <1>1, <1>2, <2>1
  <1>3. CASE tlsa[i].ok /\ tlsa[i].records = <<>>
    <2>1. found = "none"
      BY <1>3
    <2> QED
      BY <1>1, <1>3, <2>1
  <1>4. CASE tlsa[i].ok /\ tlsa[i].records # <<>>
    <2>1. found = IF Matched(tlsa[i], mxResults[i]) THEN "match" ELSE "mismatch"
      BY <1>4
    <2> QED
      BY <1>1, <1>4, <2>1
  <1> QED
    BY <1>2, <1>3, <1>4

\* The verdicts over all slots, both of them.
LEMMA JudgedVerdicts ==
  /\ Judged = <<Judged[1], Judged[2]>>
  /\ Judged[1] \in {"present", "unknown", "misconfigured"}
  /\ Judged[2] \in {"present", "absent", "misconfigured"}
  /\ Judged[1] = "present" <=> /\ \E i \in Probed : mxResults[i].connected
                               /\ \A i \in Probed : mxResults[i].accepted
  /\ Judged[2] = "present" <=> /\ Probed # {}
                               /\ \A i \in Probed : Observation(i).tlsa = "match"
  <1> DEFINE obs == [i \in Probed |-> Observation(i)]
  <1>1. Judged = <<StartTlsVerdict(obs), DaneVerdict(obs)>>
    BY DEF Judged, MtaTlsVerdict
  <1>2. DOMAIN obs = Probed /\ \A i \in Probed : obs[i] = Observation(i)
    OBVIOUS
  <1> HIDE DEF obs
  <1>3. \A i \in Probed : /\ obs[i].connected = mxResults[i].connected
                          /\ obs[i].accepted = mxResults[i].accepted
                          /\ obs[i].tlsa \in {"failed", "none", "match", "mismatch"}
    BY <1>2, ObservationFields
  <1>4. /\ StartTlsVerdict(obs) \in {"present", "unknown", "misconfigured"}
        /\ StartTlsVerdict(obs) = "present" <=>
              /\ \E h \in Probed : obs[h].connected
              /\ \A h \in Probed : obs[h].accepted
    BY <1>2, VerdictStatuses
  <1>5. /\ DaneVerdict(obs) \in {"present", "absent", "misconfigured"}
        /\ DaneVerdict(obs) = "present" <=>
              /\ Probed # {} /\ \A h \in Probed : obs[h].tlsa = "match"
    BY <1>2, <1>3, DaneStatuses
  <1>6. Judged[1] = StartTlsVerdict(obs) /\ Judged[2] = DaneVerdict(obs)
    BY <1>1
  <1> QED
    BY <1>1, <1>2, <1>3, <1>4, <1>5, <1>6

\* The verdicts when no MX record named a host.
LEMMA NobodyToJudge ==
  ASSUME Probed = {}
  PROVE  Judged = <<"unknown", "absent">>
  <1> DEFINE obs == [i \in Probed |-> Observation(i)]
  <1>1. DOMAIN obs = {}
    OBVIOUS
  <1>2. StartTlsVerdict(obs) = "unknown" /\ DaneVerdict(obs) = "absent"
    <2> HIDE DEF obs
    <2> QED
      BY <1>1 DEF StartTlsVerdict, DaneVerdict
  <1> QED
    BY <1>2 DEF Judged, MtaTlsVerdict

LEMMA JudgeStep ==
  ASSUME MtaTlsInv, Judge
  PROVE  MtaTlsInv'
  <1>0. /\ pc = "tlsa" /\ pc' = "done" /\ AllIn /\ features' = Judged
        /\ UNCHANGED <<hosts, next, running, up, mxResults, tlsa, expired, world>>
        /\ Probed' = Probed /\ Back' = Back /\ AllIn'
    BY DEF Judge, Probed, Judged, Back, AllIn
  <1>1. features' \in [1 .. 2 -> {"present", "absent", "unknown", "misconfigured"}]
    BY <1>0, JudgedVerdicts
  <1>2. TypeOK'
    BY <1>0, <1>1 DEF MtaTlsInv, TypeOK, world
  <1>3. Judged' = Judged
    BY <1>0 DEF Judged, Observation
  <1>4. PhaseInv'
    BY <1>0, <1>3 DEF MtaTlsInv, PhaseInv, world
  <1>5. SessionsInv'
    BY <1>0 DEF MtaTlsInv, SessionsInv, SessionsOver, SessionSeen, world
  <1>6. LookupsInv'
    BY <1>0 DEF MtaTlsInv, LookupsInv, LookupsOver, LookupSeen, world
  <1> QED
    BY <1>2, <1>4, <1>5, <1>6 DEF MtaTlsInv

LEMMA StepMtaTlsInv == MtaTlsInv /\ [Next]_vars => MtaTlsInv'
  <1> SUFFICES ASSUME MtaTlsInv, [Next]_vars PROVE MtaTlsInv'
    OBVIOUS
  <1>1. CASE Expire
    BY <1>1, Untouched DEF Expire
  <1>2. CASE UNCHANGED vars
    <2>1. expired' = expired /\ expired \in BOOLEAN
      BY <1>2 DEF vars, MtaTlsInv, TypeOK
    <2> QED
      BY <1>2, <2>1, Untouched DEF vars
  <1> QED
    BY <1>1, <1>2, MxStep, GoStep, ConnectsStep, SessionStep, WaitStep, LookupStep, JudgeStep
    DEF Next, Terminated

\* The invariant holds throughout.
THEOREM MtaTlsInvariant == Spec => []MtaTlsInv
  BY InitMtaTlsInv, StepMtaTlsInv, PTL DEF Spec

-----------------------------------------------------------------------------
(* What follows.                                                           *)

\* Every variable stays of its type: there is a slot for every host, and the
\* verdicts are statuses, however many hosts there are.
THEOREM TypeCorrect == Spec => []TypeOK
  <1>1. MtaTlsInv => TypeOK
    BY DEF MtaTlsInv
  <1> QED
    BY <1>1, MtaTlsInvariant, PTL

\* mtatls.go:174-193: however MX records spell a host and however often they
\* list it, one session is opened with it; and with a host that no MX record
\* names none is.
THEOREM OneConnectionPerMX == Spec => []ConnectsOncePerMX
  <1>1. ASSUME MtaTlsInv
        PROVE  /\ \A i, j \in Probed : hosts[i] = hosts[j] => i = j
               /\ {hosts[i] : i \in Probed} =
                     IF pc \in {"smtp", "tlsa", "done"} THEN MailHosts ELSE {}
    <2>1. DOMAIN hosts = Probed /\ mxRecords \in MXAnswers
      BY <1>1, SlotFacts DEF MtaTlsInv, TypeOK
    <2>2. CASE pc \in {"mx", "early"}
      <3>1. Probed = {}
        BY <1>1, <2>2 DEF MtaTlsInv, PhaseInv, Probed
      <3> QED
        BY <2>2, <3>1
    <2>3. CASE pc \in {"smtp", "tlsa", "done"}
      <3>1. hosts = uniqueMXHosts(mxRecords)
        BY <1>1, <2>3 DEF MtaTlsInv, PhaseInv
      <3>2. MailHosts = HostsNamed(mxRecords)
        BY DEF MailHosts, HostsNamed
      <3>3. /\ \A i, j \in Probed : hosts[i] = hosts[j] => i = j
            /\ \A i \in Probed : hosts[i] \in MailHosts
            /\ \A h \in MailHosts : \E i \in Probed : hosts[i] = h
        BY <2>1, <3>1, <3>2, UniqueHosts
      <3> QED
        BY <2>3, <3>3
    <2> QED
      BY <1>1, <2>2, <2>3 DEF MtaTlsInv, TypeOK
  <1>2. MtaTlsInv => ConnectsOncePerMX
    BY <1>1 DEF ConnectsOncePerMX
  <1> QED
    BY <1>2, MtaTlsInvariant, PTL

\* In the end every slot holds what was seen of its host, and the slots are
\* those of the mail hosts.
LEMMA AllSeen ==
  ASSUME MtaTlsInv, pc = "done"
  PROVE  /\ features = Judged
         /\ \A i \in Probed : SessionSeen(i) /\ LookupSeen(i) /\ hosts[i] \in MailHosts
         /\ \A h \in MailHosts : \E i \in Probed : hosts[i] = h
  <1>1. /\ Probed \subseteq Slot /\ DOMAIN hosts = Probed /\ Len(hosts) \in Nat
        /\ next \in Int /\ mxRecords \in MXAnswers
    BY SlotFacts DEF MtaTlsInv, TypeOK
  <1>2. AllIn /\ features = Judged /\ hosts = uniqueMXHosts(mxRecords)
    BY DEF MtaTlsInv, PhaseInv
  <1>3. SessionsOver = Probed /\ LookupsOver = Probed
    <2>1. \A i \in Probed : i < next
      BY <1>1, <1>2 DEF AllIn, Probed
    <2> QED
      BY <1>2, <2>1 DEF AllIn, Back, SessionsOver, LookupsOver
  <1>4. \A i \in Probed : SessionSeen(i) /\ LookupSeen(i)
    BY <1>1, <1>3 DEF MtaTlsInv, SessionsInv, LookupsInv
  <1>5. MailHosts = HostsNamed(mxRecords)
    BY DEF MailHosts, HostsNamed
  <1>6. /\ \A i \in Probed : hosts[i] \in MailHosts
        /\ \A h \in MailHosts : \E i \in Probed : hosts[i] = h
    BY <1>1, <1>2, <1>5, UniqueHosts
  <1> QED
    BY <1>2, <1>4, <1>6

\* What a slot tells of its host: nothing good that is not so, and without a
\* timeout all that is so.
LEMMA SlotTells ==
  ASSUME TypeOK, NEW i \in Probed, SessionSeen(i), LookupSeen(i)
  PROVE  LET h == hosts[i]
             leaf == \E k \in DOMAIN zone[h] : zone[h][k] = chainOf[h][1]
         IN  /\ mxResults[i].accepted => server[h] = "tls"
             /\ Observation(i).tlsa = "match" => server[h] = "tls" /\ h \notin dead /\ leaf
             /\ ~expired /\ server[h] = "tls" =>
                   /\ mxResults[i].connected /\ mxResults[i].accepted
                   /\ h \notin dead /\ leaf => Observation(i).tlsa = "match"
  <1> DEFINE h == hosts[i]
             leaf == \E k \in DOMAIN zone[h] : zone[h][k] = chainOf[h][1]
  <1>1. /\ server[h] \in Stage /\ zone[h] \in TLSAAnswers /\ "refused" \in Stage
        /\ h \in Host
    BY SlotFacts DEF Stage
  <1>2. /\ mxResults[i].accepted => server[h] = "tls"
        /\ mxResults[i].chain # <<>> => server[h] = "tls" /\ mxResults[i].chain = chainOf[h]
    <2>1. CASE mxResults[i] = SessionResult(server[h], h)
      BY <1>1, <2>1, SessionFields
    <2>2. CASE mxResults[i] = SessionResult("refused", h)
      BY <1>1, <2>2, SessionFields
    <2> QED
      BY <2>1, <2>2 DEF SessionSeen
  <1>3. ~expired /\ server[h] = "tls" =>
          /\ mxResults[i].connected /\ mxResults[i].accepted
          /\ mxResults[i].chain # <<>> /\ mxResults[i].chain = chainOf[h]
    BY <1>1, SessionFields DEF SessionSeen
  <1>4. tlsa[i].ok => tlsa[i].records = zone[h] /\ h \notin dead
    <2>1. CASE /\ tlsa[i] = [ok |-> TRUE, records |-> zone[h]]
               /\ h \notin dead
      BY <2>1
    <2>2. CASE tlsa[i] = LookupFailed
      BY <2>2, LookupFields
    <2> QED
      BY <2>1, <2>2 DEF LookupSeen
  <1>5. Observation(i).tlsa = "match" => server[h] = "tls" /\ h \notin dead /\ leaf
    BY <1>2, <1>4, ObservationFields DEF Matched
  <1>6. ASSUME ~expired, server[h] = "tls", h \notin dead, leaf
        PROVE  Observation(i).tlsa = "match"
    <2>1. tlsa[i] = [ok |-> TRUE, records |-> zone[h]]
      BY <1>6 DEF LookupSeen
    <2>2. tlsa[i].ok /\ tlsa[i].records = zone[h]
      BY <2>1
    <2>3. zone[h] # <<>>
      <3>1. DOMAIN <<>> = {}
        OBVIOUS
      <3> QED
        BY <1>6, <3>1
    <2>4. Matched(tlsa[i], mxResults[i])
      BY <1>3, <1>6, <2>2 DEF Matched
    <2> QED
      BY <2>2, <2>3, <2>4, ObservationFields
  <1> QED
    BY <1>2, <1>3, <1>5, <1>6

\* mtatls.go:216-306: in whatever order sessions and lookups end, each host's
\* TLSA records are held against the leaf certificate that very host showed, and
\* one host that falls short is enough for both features not to be present.
THEOREM DaneComparesTheSameHost == Spec => []EachHostByItsOwnCertificate
  <1>1. MtaTlsInv => EachHostByItsOwnCertificate
    <2> SUFFICES ASSUME MtaTlsInv, pc = "done", ~expired, MailHosts # {}
                 PROVE  /\ features[1] = "present" <=> \A h \in MailHosts : server[h] = "tls"
                        /\ features[2] = "present" <=>
                              \A h \in MailHosts :
                                  /\ server[h] = "tls" /\ h \notin dead
                                  /\ \E k \in DOMAIN zone[h] : zone[h][k] = chainOf[h][1]
      BY DEF EachHostByItsOwnCertificate
    <2>1. TypeOK
      BY DEF MtaTlsInv
    <2>2. /\ features = Judged /\ Probed # {}
          /\ \A i \in Probed : SessionSeen(i) /\ LookupSeen(i) /\ hosts[i] \in MailHosts
          /\ \A h \in MailHosts : \E i \in Probed : hosts[i] = h
      BY AllSeen
    <2>3. \A i \in Probed :
             LET h == hosts[i]
                 leaf == \E k \in DOMAIN zone[h] : zone[h][k] = chainOf[h][1]
             IN  /\ mxResults[i].accepted => server[h] = "tls"
                 /\ Observation(i).tlsa = "match" => server[h] = "tls" /\ h \notin dead /\ leaf
                 /\ server[h] = "tls" =>
                       /\ mxResults[i].connected /\ mxResults[i].accepted
                       /\ h \notin dead /\ leaf => Observation(i).tlsa = "match"
      BY <2>1, <2>2, SlotTells
    <2> DEFINE Secure(h) == /\ server[h] = "tls" /\ h \notin dead
                            /\ \E k \in DOMAIN zone[h] : zone[h][k] = chainOf[h][1]
    <2>4. features[1] = "present" <=> \A h \in MailHosts : server[h] = "tls"
      BY <2>2, <2>3, JudgedVerdicts
    <2>5. \A i \in Probed : Observation(i).tlsa = "match" <=> Secure(hosts[i])
      BY <2>3
    <2>6. features[2] = "present" <=> \A h \in MailHosts : Secure(h)
      <3> HIDE DEF Secure
      <3> QED
        BY <2>2, <2>5, JudgedVerdicts
    <2> QED
      BY <2>4, <2>6
  <1> QED
    BY <1>1, MtaTlsInvariant, PTL

\* mtatls.go:216-306, dialer.go:66-73: nor does a budget that ends between any
\* two steps make a feature present that some mail host lacks; and an MX answer
\* that names no host leaves nothing to call present or broken.
THEOREM NoFeatureOutOfATimeout == Spec => []TimeoutInventsNothing
  <1>1. ASSUME MtaTlsInv, pc = "done", NEW h \in MailHosts
        PROVE  /\ features[1] = "present" => server[h] = "tls"
               /\ features[2] = "present" => server[h] = "tls" /\ h \notin dead
    <2>1. PICK i \in Probed : hosts[i] = h
      BY <1>1, AllSeen
    <2>2. TypeOK /\ features = Judged /\ SessionSeen(i) /\ LookupSeen(i)
      BY <1>1, <2>1, AllSeen DEF MtaTlsInv
    <2>3. /\ mxResults[i].accepted => server[h] = "tls"
          /\ Observation(i).tlsa = "match" => server[h] = "tls" /\ h \notin dead
      BY <2>1, <2>2, SlotTells
    <2> QED
      BY <2>1, <2>2, <2>3, JudgedVerdicts
  <1>2. ASSUME MtaTlsInv, pc = "done", MailHosts = {}, NEW k \in 1 .. 2
        PROVE  features[k] \notin {"present", "misconfigured"}
    <2>1. features = Judged /\ Probed = {}
      BY <1>2, AllSeen
    <2>2. features = <<"unknown", "absent">>
      BY <2>1, NobodyToJudge
    <2> QED
      BY <2>2
  <1>3. MtaTlsInv => TimeoutInventsNothing
    BY <1>1, <1>2 DEF TimeoutInventsNothing
  <1> QED
    BY <1>3, MtaTlsInvariant, PTL
-----------------------------------------------------------------------------
(* The table of outcomes.                                                  *)

\* What the table has for this probe.
LEMMA TableRow ==
  ASSUME NEW heard \in {"answered", "partial", "failed"}
  PROVE  VerdictTable["mtatls"][heard] =
           {MtaTlsVerdict(o) : o \in {x \in MtaTlsObs : MtaTlsHeard(x) = heard}}
  BY DEF VerdictTable, Row

\* An observation of at most one host is in the table.
LEMMA TableHas ==
  ASSUME NEW ok \in BOOLEAN, NEW noMail \in BOOLEAN, NEW n \in 0 .. 1, NEW w \in HostObs
  PROVE  LET o == [ok |-> ok, noMail |-> noMail, hosts |-> [i \in 1 .. n |-> w]]
         IN  /\ ~ok => MtaTlsVerdict(o) \in VerdictTable["mtatls"]["failed"]
             /\ ok /\ (noMail \/ n = 0 \/ (w.connected /\ w.tlsa # "failed")) =>
                   MtaTlsVerdict(o) \in VerdictTable["mtatls"]["answered"]
  <1> DEFINE hs == [i \in 1 .. n |-> w]
             o == [ok |-> ok, noMail |-> noMail, hosts |-> hs]
  <1>1. hs \in UNION {[1 .. m -> HostObs] : m \in 0 .. 2}
    <2>1. hs \in [1 .. n -> HostObs] /\ n \in 0 .. 2
      OBVIOUS
    <2> QED
      BY <2>1
  <1>2. o \in MtaTlsObs
    BY <1>1 DEF MtaTlsObs
  <1>3. o.ok = ok /\ o.noMail = noMail /\ o.hosts = hs
    OBVIOUS
  <1>4. ASSUME ~ok PROVE MtaTlsVerdict(o) \in VerdictTable["mtatls"]["failed"]
    <2>1. MtaTlsHeard(o) = "failed"
      BY <1>3, <1>4 DEF MtaTlsHeard
    <2> HIDE DEF o
    <2> QED
      BY <1>2, <2>1, TableRow
  <1>5. ASSUME ok, noMail \/ n = 0 \/ (w.connected /\ w.tlsa # "failed")
        PROVE  MtaTlsVerdict(o) \in VerdictTable["mtatls"]["answered"]
    <2>1. noMail \/ \A i \in DOMAIN hs : hs[i].connected /\ hs[i].tlsa # "failed"
      <3>1. DOMAIN hs = 1 .. n /\ \A i \in 1 .. n : hs[i] = w
        OBVIOUS
      <3>2. n = 0 => 1 .. n = {}
        OBVIOUS
      <3> HIDE DEF hs
      <3> QED
        BY <1>5, <3>1, <3>2
    <2>2. MtaTlsHeard(o) = "answered"
      <3> HIDE DEF hs
      <3> QED
        BY <1>3, <1>5, <2>1 DEF MtaTlsHeard
    <2> HIDE DEF o
    <2> QED
      BY <1>2, <2>2, TableRow
  <1> QED
    BY <1>4, <1>5

\* The verdicts on any number of hosts that were all heard are those on none of
\* them or on one.
LEMMA OneHostIsEnough ==
  ASSUME \A i \in Probed : mxResults[i].connected /\ Observation(i).tlsa # "failed",
         \A i \in Probed : Observation(i).tlsa = "match" => mxResults[i].accepted
  PROVE  Judged \in VerdictTable["mtatls"]["answered"]
  <1> DEFINE Host1(a, t) == [connected |-> TRUE, accepted |-> a, tlsa |-> t]
             Obs(n, a, t) == [ok |-> TRUE, noMail |-> FALSE, hosts |-> [i \in 1 .. n |-> Host1(a, t)]]
  <1>1. ASSUME NEW a \in BOOLEAN, NEW t \in {"none", "match", "mismatch"}, t = "match" => a,
               NEW n \in 0 .. 1
        PROVE  <<StartTlsVerdict(Obs(n, a, t).hosts), DaneVerdict(Obs(n, a, t).hosts)>>
                  \in VerdictTable["mtatls"]["answered"]
    <2>1. Host1(a, t) \in HostObs
      BY <1>1 DEF HostObs
    <2>2. Host1(a, t).connected /\ Host1(a, t).tlsa # "failed"
      OBVIOUS
    <2>3. MtaTlsVerdict(Obs(n, a, t)) \in VerdictTable["mtatls"]["answered"]
      <3> HIDE DEF Host1
      <3> QED
        BY <2>1, <2>2, TableHas
    <2>4. MtaTlsVerdict(Obs(n, a, t)) =
             <<StartTlsVerdict(Obs(n, a, t).hosts), DaneVerdict(Obs(n, a, t).hosts)>>
      BY DEF MtaTlsVerdict
    <2> QED
      BY <2>3, <2>4
  <1>2. CASE Probed = {}
    <2>1. Judged = <<"unknown", "absent">>
      BY <1>2, NobodyToJudge
    <2>2. DOMAIN Obs(0, TRUE, "none").hosts = {}
      OBVIOUS
    <2>3. /\ StartTlsVerdict(Obs(0, TRUE, "none").hosts) = "unknown"
          /\ DaneVerdict(Obs(0, TRUE, "none").hosts) = "absent"
      <3> HIDE DEF Obs
      <3> QED
        BY <2>2 DEF StartTlsVerdict, DaneVerdict
    <2>4. 0 \in 0 .. 1 /\ TRUE \in BOOLEAN
      OBVIOUS
    <2> HIDE DEF Obs
    <2> QED
      BY <1>1, <2>1, <2>3, <2>4
  <1>3. CASE Probed # {}
    <2> DEFINE a == Judged[1] = "present"
               t == CASE Judged[2] = "present" -> "match"
                      [] Judged[2] = "absent" -> "none"
                      [] Judged[2] = "misconfigured" -> "mismatch"
               hs == Obs(1, a, t).hosts
    <2>1. Judged[1] \in {"present", "misconfigured"}
      <3> DEFINE obs == [i \in Probed |-> Observation(i)]
      <3>1. /\ \E i \in DOMAIN obs : obs[i].connected
            /\ Judged[1] = StartTlsVerdict(obs)
        BY <1>3, ObservationFields DEF Judged, MtaTlsVerdict
      <3> HIDE DEF obs
      <3> QED
        BY <3>1 DEF StartTlsVerdict
    <2>2. Judged[2] \in {"present", "absent", "misconfigured"}
      BY JudgedVerdicts
    <2>3. Judged[2] = "present" => a
      BY <1>3, JudgedVerdicts
    <2>4. /\ a \in BOOLEAN /\ t \in {"none", "match", "mismatch"}
          /\ t = "match" => a
          /\ t = "match" <=> Judged[2] = "present"
          /\ t = "none" <=> Judged[2] = "absent"
      BY <2>2, <2>3
    <2>5. /\ DOMAIN hs = {1} /\ hs[1].connected /\ hs[1].accepted = a /\ hs[1].tlsa = t
      <3> HIDE DEF a, t
      <3> QED
        OBVIOUS
    <2> HIDE DEF hs, t, Obs, a
    <2>6. StartTlsVerdict(hs) = Judged[1]
      <3>1. StartTlsVerdict(hs) = IF a THEN "present" ELSE "misconfigured"
        BY <2>4, <2>5 DEF StartTlsVerdict
      <3> QED
        BY <2>1, <3>1 DEF a
    <2>7. DaneVerdict(hs) = Judged[2]
      <3>1. CASE t = "none"
        BY <2>4, <2>5, <3>1 DEF DaneVerdict
      <3>2. CASE t \in {"match", "mismatch"}
        <4>1. DaneVerdict(hs) = IF t = "match" THEN "present" ELSE "misconfigured"
          BY <2>4, <2>5, <3>2 DEF DaneVerdict
        <4> QED
          BY <2>2, <2>4, <3>2, <4>1
      <3> QED
        BY <2>4, <3>1, <3>2
    <2>8. <<StartTlsVerdict(hs), DaneVerdict(hs)>> \in VerdictTable["mtatls"]["answered"]
      <3>1. 1 \in 0 .. 1
        OBVIOUS
      <3>2. <<StartTlsVerdict(Obs(1, a, t).hosts), DaneVerdict(Obs(1, a, t).hosts)>>
               \in VerdictTable["mtatls"]["answered"]
        BY <1>1, <2>4, <3>1, Zenon
      <3> QED
        BY <3>2 DEF hs
    <2> QED
      BY <2>6, <2>7, <2>8, JudgedVerdicts
  <1> QED
    BY <1>2, <1>3

\* verdicts of mtatls.go:158-175 and 216-306 as Scan gets them: however many
\* hosts a domain has, its two statuses are a pair that VerdictTable lists for
\* what was heard.
THEOREM TabulatedOutcomes == Spec => []OutcomeAsTabulated
  <1>1. ASSUME MtaTlsInv, Done, mxDead
        PROVE  features \in VerdictTable["mtatls"]["failed"]
    <2> DEFINE w == [connected |-> FALSE, accepted |-> FALSE, tlsa |-> "none"]
               o == [ok |-> FALSE, noMail |-> FALSE, hosts |-> [i \in 1 .. 0 |-> w]]
    <2>1. features = <<"unknown", "unknown">>
      BY <1>1 DEF MtaTlsInv, PhaseInv, Done
    <2>2. w \in HostObs /\ 0 \in 0 .. 1
      BY DEF HostObs
    <2>3. MtaTlsVerdict(o) \in VerdictTable["mtatls"]["failed"]
      <3> HIDE DEF w
      <3> QED
        BY <2>2, TableHas
    <2>4. MtaTlsVerdict(o) = <<"unknown", "unknown">>
      BY DEF MtaTlsVerdict
    <2> QED
      BY <2>1, <2>3, <2>4
  <1>2. ASSUME MtaTlsInv, Done, ~expired, ~mxDead, dead = {},
               \A h \in Host : server[h] # "refused"
        PROVE  features \in VerdictTable["mtatls"]["answered"]
    <2>1. CASE pc = "early"
      <3> DEFINE w == [connected |-> FALSE, accepted |-> FALSE, tlsa |-> "none"]
                 o == [ok |-> TRUE, noMail |-> TRUE, hosts |-> [i \in 1 .. 0 |-> w]]
      <3>1. features = <<"absent", "absent">>
        BY <1>2, <2>1 DEF MtaTlsInv, PhaseInv
      <3>2. w \in HostObs /\ 0 \in 0 .. 1
        BY DEF HostObs
      <3>3. MtaTlsVerdict(o) \in VerdictTable["mtatls"]["answered"]
        <4> HIDE DEF w
        <4> QED
          BY <3>2, TableHas
      <3>4. MtaTlsVerdict(o) = <<"absent", "absent">>
        BY DEF MtaTlsVerdict
      <3> QED
        BY <3>1, <3>3, <3>4
    <2>2. CASE pc = "done"
      <3>1. features = Judged /\ TypeOK /\ \A i \in Probed : SessionSeen(i) /\ LookupSeen(i)
        BY <1>2, <2>2, AllSeen DEF MtaTlsInv
      <3>2. ASSUME NEW i \in Probed
            PROVE  /\ mxResults[i].connected /\ Observation(i).tlsa # "failed"
                   /\ Observation(i).tlsa = "match" => mxResults[i].accepted
        <4>1. hosts[i] \in Host /\ server[hosts[i]] \in Stage /\ server[hosts[i]] # "refused"
          BY <1>2, <3>1, SlotFacts
        <4>2. mxResults[i] = SessionResult(server[hosts[i]], hosts[i]) /\ mxResults[i].connected
          BY <1>2, <3>1, <4>1, SessionFields DEF SessionSeen
        <4>3. tlsa[i] = [ok |-> TRUE, records |-> zone[hosts[i]]]
          BY <1>2, <3>1 DEF LookupSeen
        <4>4. tlsa[i].ok
          BY <4>3
        <4>5. Observation(i).tlsa # "failed"
          <5>1. CASE tlsa[i].records = <<>>
            BY <4>4, <5>1 DEF Observation
          <5>2. CASE tlsa[i].records # <<>>
            BY <4>4, <5>2 DEF Observation
          <5> QED
            BY <5>1, <5>2
        <4>6. Observation(i).tlsa = "match" => mxResults[i].accepted
          BY <4>1, <4>2, ObservationFields, SessionFields DEF Matched
        <4> QED
          BY <4>2, <4>5, <4>6
      <3> QED
        BY <3>1, <3>2, OneHostIsEnough
    <2> QED
      BY <1>2, <2>1, <2>2 DEF Done
  <1>3. MtaTlsInv => OutcomeAsTabulated
    BY <1>1, <1>2 DEF OutcomeAsTabulated
  <1> QED
    BY <1>3, MtaTlsInvariant, PTL

-----------------------------------------------------------------------------
(* Both phases implement FanOut.                                           *)

\* FanOut counts as MtaTls does.
LEMMA SameCardinality ==
  ASSUME NEW S
  PROVE  Sessions!Cardinality(S) = Cardinality(S) /\ Lookups!Cardinality(S) = Cardinality(S)
  BY DEF Cardinality, Sessions!Cardinality, Lookups!Cardinality

\* In every state: the hosts are slots, no slot is ready before its phase.
LEMMA GroupFacts ==
  ASSUME MtaTlsInv
  PROVE  /\ Probed \subseteq Slot /\ running \subseteq Probed
         /\ Len(hosts) \in Nat /\ next \in Int
         /\ pc \in {"mx", "early"} => Probed = {} /\ running = {}
         /\ pc = "done" => running = {}
  <1>1. /\ Probed \subseteq Slot /\ running \subseteq Probed
        /\ Len(hosts) \in Nat /\ next \in Int
    BY SlotFacts DEF MtaTlsInv, TypeOK
  <1>2. pc \in {"mx", "early"} => Probed = {}
    BY DEF MtaTlsInv, PhaseInv, Probed
  <1>3. pc = "done" => running = {}
    BY DEF MtaTlsInv, PhaseInv, AllIn
  <1> QED
    BY <1>1, <1>2, <1>3

\* What Go hands out has not been handed out, and when all are in none is left.
LEMMA LoopFacts ==
  ASSUME MtaTlsInv
  PROVE  /\ next \notin running /\ next \notin Back
         /\ AllIn => Back = Probed
  <1>1. /\ next \in Int /\ Len(hosts) \in Nat
        /\ \A i \in running : i < next
    BY SlotFacts DEF MtaTlsInv, PhaseInv
  <1>2. ~(next < next) /\ (AllIn => \A i \in Probed : i < next)
    BY <1>1 DEF AllIn, Probed
  <1> QED
    BY <1>1, <1>2 DEF Back, AllIn

\* The slots of the sessions that are over are filled, those of lookups too.
LEMMA OverIsFilled ==
  ASSUME MtaTlsInv
  PROVE  /\ \A i \in SessionsOver : mxResults[i] # NoSession
         /\ \A i \in LookupsOver : tlsa[i] # NoLookup
         /\ \A i \in Slot \ SessionsOver : mxResults[i] = NoSession
         /\ \A i \in Slot \ LookupsOver : tlsa[i] = NoLookup
  <1>1. TypeOK /\ Probed \subseteq Slot /\ "refused" \in Stage
    BY SlotFacts DEF MtaTlsInv, Stage
  <1>2. SessionsOver \subseteq Probed /\ LookupsOver \subseteq Probed
    BY DEF SessionsOver, LookupsOver, Back
  <1>3. ASSUME NEW i \in SessionsOver PROVE mxResults[i] # NoSession
    <2>1. SessionSeen(i) /\ server[hosts[i]] \in Stage /\ hosts[i] \in Host
      BY <1>1, <1>2, <1>3, SlotFacts DEF MtaTlsInv, SessionsInv
    <2> QED
      BY <1>1, <2>1, SessionFields DEF SessionSeen
  <1>4. ASSUME NEW i \in LookupsOver PROVE tlsa[i] # NoLookup
    <2>1. LookupSeen(i) /\ zone[hosts[i]] \in TLSAAnswers
      BY <1>1, <1>2, <1>4, SlotFacts DEF MtaTlsInv, LookupsInv
    <2> QED
      BY <2>1, LookupFields DEF LookupSeen
  <1> QED
    BY <1>3, <1>4 DEF MtaTlsInv, SessionsInv, LookupsInv

LEMMA SessionsInit == Init => Sessions!Init
  <1> SUFFICES ASSUME Init PROVE Sessions!Init
    OBVIOUS
  <1>1. Probed = {}
    <2>1. Len(<<>>) = 0
      OBVIOUS
    <2> QED
      BY <2>1 DEF Init, Probed
  <1> QED
    BY <1>1 DEF Init, Sessions!Init

LEMMA LookupsInit == Init => Lookups!Init
  BY DEF Init, Lookups!Init

\* The first phase: the answer of the MX lookup opens the group, the Wait
\* between the phases gathers it, and the second phase leaves it alone.
LEMMA SessionsStep == MtaTlsInv /\ MtaTlsInv' /\ [Next]_vars => [Sessions!Next]_(Sessions!vars)
  <1> SUFFICES ASSUME MtaTlsInv, MtaTlsInv', [Next]_vars
               PROVE  [Sessions!Next]_(Sessions!vars)
    OBVIOUS
  <1> USE GroupFacts
  <1>1. CASE MxHears
    <2>1. Probed' \subseteq Slot
      <3>1. hosts' \in Seq(Host) /\ Len(hosts') <= MaxMX
        BY DEF MtaTlsInv, TypeOK
      <3> QED
        BY <3>1, MtaTlsAssumption DEF Probed, Slot
    <2>2. Sessions!Open(Probed')
      BY <1>1 DEF MxHears, Sessions!Open
    <2> QED
      BY <2>1, <2>2 DEF Sessions!Next
  <1>2. CASE Go /\ pc = "smtp"
    <2>1. next \in Probed \ running /\ next \in Slot /\ next \notin SessionsOver
      BY <1>2, LoopFacts DEF Go, SessionsOver
    <2>2. mxResults[next] = NoSession
      BY <2>1, OverIsFilled
    <2>3. Sessions!Room(Sessions!Cardinality(running))
      BY <1>2, SameCardinality DEF Go, Sessions!Room
    <2>4. Sessions!Start(next)
      BY <1>2, <2>1, <2>2, <2>3 DEF Go, Sessions!Start, Probed
    <2> QED
      BY <2>1, <2>4 DEF Sessions!Next
  <1>3. ASSUME NEW i \in Probed, DialFails(i) \/ SessionReturns(i)
        PROVE  Sessions!Next
    <2>1. \E v \in SessionResults : mxResults' = [mxResults EXCEPT ![i] = v]
      BY <1>3, SessionStep
    <2>2. /\ pc = "smtp" /\ pc' = "smtp" /\ i \in running /\ running' = running \ {i}
          /\ Probed' = Probed
      BY <1>3 DEF DialFails, SessionReturns, Probed, MtaTlsInv, TypeOK
    <2>3. Sessions!Finish(i)
      BY <2>1, <2>2 DEF Sessions!Finish
    <2> QED
      BY <2>3 DEF Sessions!Next
  <1>4. CASE WaitSessions
    <2>1. Probed \subseteq Sessions!Filled
      <3>1. Back = Probed /\ SessionsOver = Probed
        BY <1>4, LoopFacts DEF WaitSessions, SessionsOver
      <3> QED
        BY <3>1, OverIsFilled DEF Sessions!Filled
    <2>2. Sessions!Gather
      BY <1>4, <2>1 DEF WaitSessions, Sessions!Gather, AllIn, Probed
    <2> QED
      BY <2>2 DEF Sessions!Next
  <1>5. CASE \/ Expire \/ MxFails \/ MxRefusesMail \/ Judge \/ UNCHANGED vars
             \/ Go /\ pc = "tlsa"
             \/ \E i \in Probed : Connects(i) \/ LookupReturns(i)
    <2>1. hosts' = hosts /\ Probed' = Probed /\ mxResults' = mxResults
      BY <1>5 DEF Expire, MxFails, MxRefusesMail, Judge, vars, Go, Connects, LookupReturns, Probed
    <2>2. CASE \/ Expire \/ UNCHANGED vars \/ \E i \in Probed : Connects(i) \/ LookupReturns(i)
               \/ Go /\ pc = "tlsa"
      <3>1. pc' = pc /\ (pc = "smtp" => running' = running)
        BY <2>2 DEF Expire, vars, Connects, LookupReturns, Go
      <3> QED
        BY <2>1, <3>1 DEF Sessions!vars
    <2>3. CASE MxFails \/ MxRefusesMail
      BY <2>1, <2>3 DEF MxFails, MxRefusesMail, Sessions!vars
    <2>4. CASE Judge
      BY <2>1, <2>4 DEF Judge, Sessions!vars
    <2> QED
      BY <1>5, <2>2, <2>3, <2>4
  <1> QED
    BY <1>1, <1>2, <1>3, <1>4, <1>5 DEF Next, Go, Terminated

\* mtatls.go:174-193: the sessions keep the contract of a fan-out group, one
\* task per host, whatever Concurrency says.
THEOREM SessionsAreFanOut == Spec => SessionsImplementFanOut
  BY SessionsInit, SessionsStep, MtaTlsInvariant, PTL
  DEF Spec, SessionsImplementFanOut, Sessions!Spec

\* The second phase: the Wait between the phases opens the group.
LEMMA LookupsStep == MtaTlsInv /\ MtaTlsInv' /\ [Next]_vars => [Lookups!Next]_(Lookups!vars)
  <1> SUFFICES ASSUME MtaTlsInv, MtaTlsInv', [Next]_vars
               PROVE  [Lookups!Next]_(Lookups!vars)
    OBVIOUS
  <1> USE GroupFacts
  <1>1. CASE WaitSessions
    <2>1. Lookups!Open(Probed)
      BY <1>1 DEF WaitSessions, Lookups!Open, AllIn, Probed
    <2> QED
      BY <2>1 DEF Lookups!Next
  <1>2. CASE Go /\ pc = "tlsa"
    <2>1. next \in Probed \ running /\ next \in Slot /\ next \notin LookupsOver
      BY <1>2, LoopFacts DEF Go, LookupsOver
    <2>2. tlsa[next] = NoLookup
      BY <2>1, OverIsFilled
    <2>3. Lookups!Room(Lookups!Cardinality(running))
      BY <1>2, SameCardinality DEF Go, Lookups!Room
    <2>4. Lookups!Start(next)
      BY <1>2, <2>1, <2>2, <2>3 DEF Go, Lookups!Start, Probed
    <2> QED
      BY <2>1, <2>4 DEF Lookups!Next
  <1>3. ASSUME NEW i \in Probed, LookupReturns(i)
        PROVE  Lookups!Next
    <2>1. \E v \in LookupResult : tlsa' = [tlsa EXCEPT ![i] = v]
      BY <1>3, LookupStep
    <2>2. /\ pc = "tlsa" /\ pc' = "tlsa" /\ i \in running /\ running' = running \ {i}
          /\ Probed' = Probed
      BY <1>3 DEF LookupReturns, Probed
    <2>3. Lookups!Finish(i)
      BY <2>1, <2>2 DEF Lookups!Finish
    <2> QED
      BY <2>3 DEF Lookups!Next
  <1>4. CASE Judge
    <2>1. Probed \subseteq Lookups!Filled
      <3>1. Back = Probed /\ LookupsOver = Probed
        BY <1>4, LoopFacts DEF Judge, LookupsOver
      <3> QED
        BY <3>1, OverIsFilled DEF Lookups!Filled
    <2>2. Lookups!Gather
      BY <1>4, <2>1 DEF Judge, Lookups!Gather, AllIn, Probed
    <2> QED
      BY <2>2 DEF Lookups!Next
  <1>5. CASE \/ Expire \/ MxFails \/ MxRefusesMail \/ MxHears \/ UNCHANGED vars
             \/ Go /\ pc = "smtp"
             \/ \E i \in Probed : Connects(i) \/ DialFails(i) \/ SessionReturns(i)
    <2>1. tlsa' = tlsa
      BY <1>5 DEF Expire, MxFails, MxRefusesMail, MxHears, vars, Go, Connects, DialFails,
                  SessionReturns
    <2>2. CASE Expire \/ UNCHANGED vars
      BY <2>1, <2>2 DEF Expire, vars, Probed, Lookups!vars
    <2>3. CASE MxFails \/ MxRefusesMail \/ MxHears
      BY <2>1, <2>3 DEF MxFails, MxRefusesMail, MxHears, Lookups!vars
    <2>4. CASE \/ Go /\ pc = "smtp"
               \/ \E i \in Probed : Connects(i) \/ DialFails(i) \/ SessionReturns(i)
      <3>1. pc = "smtp" /\ pc' = "smtp"
        BY <2>4 DEF Go, Connects, DialFails, SessionReturns
      <3> QED
        BY <2>1, <3>1 DEF Lookups!vars
    <2> QED
      BY <1>5, <2>2, <2>3, <2>4
  <1> QED
    BY <1>1, <1>2, <1>3, <1>4, <1>5 DEF Next, Go, Terminated

\* mtatls.go:195-214: so do the TLSA lookups, which begin only when every
\* session is over.
THEOREM LookupsAreFanOut == Spec => LookupsImplementFanOut
  BY LookupsInit, LookupsStep, MtaTlsInvariant, PTL
  DEF Spec, LookupsImplementFanOut, Lookups!Spec
=============================================================================
