---------------------------- MODULE Dmarc_proofs ----------------------------
(***************************************************************************)
(* Proofs about the lookups of Dns, as Dmarc's specification makes them,   *)
(* for any number of servers or providers, all their ways and delays, all  *)
(* timeouts and every zone; and about the record that the DMARC probe      *)
(* picks, what it reads from it and what it finds of its endpoints, for    *)
(* every text.                                                             *)
(***************************************************************************)
EXTENDS Dmarc, Pick_proofs

-----------------------------------------------------------------------------
(* The inductive invariant.                                                *)

Pending == pc \in {"udp", "tcp", "doh"}

\* When a lookup has to be over.
End == IF transport = "udp" THEN Earlier(started + Timeout, Budget) ELSE Budget

\* Where the lookup is, on which transport, and that it tells nothing before
\* its end; the probe sends requests only once it has an answer.
PlaceInv ==
    /\ pc \in {"udp", "tcp", "doh", "answered", "failed"}
    /\ server \in Server
    /\ transport \in {"udp", "doh"}
    /\ Pending => (pc = "doh" <=> transport = "doh")
    /\ pc # "answered" => answer = <<>>
    /\ stage = "heads" => pc = "answered"

\* The clock is within the lookup's time until it has its answer.
TimeInv ==
    /\ started \in Starts
    /\ servers \in [Server -> Behaviour]
    /\ pc # "answered" => clock \in Nat /\ started <= clock /\ clock <= End

LookupInv == PlaceInv /\ TimeInv

\* docs/ARCHITECTURE.md:134: a lookup that has no answer, or failed, is within
\* its one timeout over UDP, and within the domain's budget over DoH.
LookupsEndInTime == pc # "answered" => started <= clock /\ clock <= End

-----------------------------------------------------------------------------

LEMMA InitLookupInv == Init => LookupInv
  <1> SUFFICES ASSUME Init PROVE LookupInv
    OBVIOUS
  <1> USE DnsAssumption DEF Init, DnsInit
  <1>1. PlaceInv
    BY DEF PlaceInv, Pending, Server
  <1>2. TimeInv
    BY DEF TimeInv, End, Earlier
  <1> QED
    BY <1>1, <1>2 DEF LookupInv

\* What every step of a lookup leaves alone, and where it begins.
LEMMA DnsFrame ==
  ASSUME DnsNext, PlaceInv
  PROVE  UNCHANGED dnsWorld /\ Pending
  BY DEF DnsNext, UdpAnswers, UdpCut, UdpFails, TcpAnswers, TcpFails, DohAnswers, DohFails,
         Return, Failover, Pending

\* A request ends when its answer is due or at its deadline, neither of which
\* is before it was made nor after the lookup's end.
LEMMA RequestTime ==
  ASSUME LookupInv, Pending,
         clock' = Deadline \/ (clock' = Due(servers[server]) /\ MayCome(servers[server]))
  PROVE  clock' \in Nat /\ started <= clock' /\ clock' <= End
  <1> USE DnsAssumption
  <1>1. /\ clock \in Nat /\ started <= clock /\ clock <= End
        /\ started \in Nat
        /\ servers[server].delay \in Nat
    <2>1. clock \in Nat /\ started <= clock /\ clock <= End
      BY DEF LookupInv, TimeInv, Pending
    <2>2. started \in Nat
      BY DEF LookupInv, TimeInv
    <2>3. servers[server].delay \in Delay
      BY DEF LookupInv, PlaceInv, TimeInv, Behaviour
    <2> QED
      BY <2>1, <2>2, <2>3
  <1>2. Deadline \in Nat /\ clock <= Deadline /\ Deadline <= End
    BY <1>1 DEF Deadline, End, Earlier
  <1>3. End \in Nat
    BY <1>1 DEF End, Earlier
  <1> QED
    BY <1>1, <1>2, <1>3 DEF Due, MayCome

LEMMA DnsStep == LookupInv /\ DnsNext /\ UNCHANGED dmarcVars => LookupInv'
  <1> SUFFICES ASSUME LookupInv, DnsNext, UNCHANGED dmarcVars PROVE LookupInv'
    OBVIOUS
  <1>1. UNCHANGED dnsWorld /\ Pending
    BY DnsFrame DEF LookupInv
  <1>2. End' = End
    BY <1>1 DEF dnsWorld, End, Earlier
  <1>3. PlaceInv'
    <2> USE DnsAssumption DEF LookupInv, PlaceInv, Pending, dnsWorld, dmarcVars, Server
    <2>1. CASE UdpAnswers \/ TcpAnswers \/ DohAnswers
      BY <1>1, <2>1 DEF UdpAnswers, TcpAnswers, DohAnswers, Return
    <2>2. CASE UdpCut
      BY <1>1, <2>2 DEF UdpCut
    <2>3. CASE UdpFails \/ TcpFails \/ DohFails
      BY <1>1, <2>3 DEF UdpFails, TcpFails, DohFails, Failover
    <2> QED
      BY <2>1, <2>2, <2>3 DEF DnsNext
  <1>4. clock' = Deadline \/ (clock' = Due(servers[server]) /\ MayCome(servers[server]))
    BY DEF DnsNext, UdpAnswers, UdpCut, UdpFails, TcpAnswers, TcpFails, DohAnswers, DohFails
  <1>5. clock' \in Nat /\ started <= clock' /\ clock' <= End
    BY <1>1, <1>4, RequestTime
  <1>6. TimeInv'
    BY <1>1, <1>2, <1>5 DEF TimeInv, LookupInv, dnsWorld
  <1> QED
    BY <1>3, <1>6 DEF LookupInv

LEMMA StepLookupInv == LookupInv /\ [Next]_vars => LookupInv'
  <1> SUFFICES ASSUME LookupInv, [Next]_vars PROVE LookupInv'
    OBVIOUS
  <1> USE DEF LookupInv, PlaceInv, TimeInv, Pending, End, Earlier, dnsVars, dnsWorld
  <1>1. CASE Lookup
    BY <1>1, DnsStep DEF Lookup
  <1>2. CASE LookupFailed \/ NoRecord \/ HasRecord \/ Judge
    BY <1>2 DEF LookupFailed, NoRecord, HasRecord, Judge
  <1>3. CASE Skips \/ HeadSends \/ HeadRedirected \/ HeadAnswers \/ HeadTimesOut
    <2>1. UNCHANGED <<pc, server, answer, dnsWorld, stage>> /\ stage = "heads"
      BY <1>3 DEF Skips, HeadSends, HeadRedirected, HeadAnswers, HeadTimesOut, Replies, TooLate,
                  More, Found, dnsVars
    <2> QED
      BY <2>1
  <1>4. CASE Terminated \/ UNCHANGED vars
    BY <1>4 DEF Terminated, vars, dmarcVars
  <1> QED
    BY <1>1, <1>2, <1>3, <1>4 DEF Next

\* The invariant holds throughout.
THEOREM LookupInvariant == Spec => []LookupInv
  BY InitLookupInv, StepLookupInv, PTL DEF Spec

\* dnsclient.go:199: failover, truncation and the TCP retry never take a lookup
\* past its deadline, for any list of servers.
THEOREM LookupsAreInTime == Spec => []LookupsEndInTime
  <1>1. LookupInv => LookupsEndInTime
    BY DEF LookupInv, TimeInv, LookupsEndInTime
  <1> QED
    BY <1>1, LookupInvariant, PTL

-----------------------------------------------------------------------------
(* The types of the probe's state.                                         *)

\* TypeOK is inductive once it says that the requests are made in order, that the
\* probe's own lookup asks for texts, and that a chain of requests is in time.
TypeInv ==
    /\ TypeOK
    /\ checks \in Seq([checked : BOOLEAN, reachable : BOOLEAN])
    /\ stage = "lookup" => question = "TXT" /\ checks = <<>>
    /\ pc # "answered" => began = 0
    /\ visited # <<>> => More /\ started <= began /\ clock <= HeadDeadline

LEMMA NoTexts == PickByVersion(<<>>, "DMARC1") = <<>>
  BY DEF PickByVersion

LEMMA DmarcVerdicts ==
  /\ DmarcVerdict([ok |-> FALSE]) = "unknown"
  /\ DmarcVerdict([ok |-> TRUE, found |-> FALSE]) = "absent"
  /\ \A seen : DmarcVerdict([ok |-> TRUE, found |-> TRUE, policy |-> seen])
                 \in {"present", "misconfigured"}
  BY DEF DmarcVerdict

LEMMA InitTypeInv == Init => TypeInv
  <1> SUFFICES ASSUME Init PROVE TypeInv
    OBVIOUS
  <1>1. DnsTypeOK
    BY DnsAssumption DEF Init, DnsInit, DnsTypeOK, Server, RRType
  <1>2. \E w \in Webs : TRUE
    BY DmarcAssumption
  <1>3. web \in Webs
    BY <1>2 DEF Init
  <1>4. began \in 0 .. clock
    <2>1. started \in Nat /\ clock = started /\ began = 0
      BY DnsAssumption DEF Init, DnsInit
    <2> QED
      BY <2>1
  <1>5. visited \in Seq(Site) /\ Len(visited) <= MaxRequests /\ visited = <<>>
    <2>1. visited = <<>> /\ <<>> \in Seq(Site) /\ Len(<<>>) = 0 /\ MaxRequests \in Nat
      BY DmarcAssumption DEF Init
    <2> QED
      BY <2>1
  <1> QED
    BY <1>1, <1>3, <1>4, <1>5 DEF Init, TypeInv, TypeOK

\* Who is asked, and the time there is.
LEMMA ChainFacts ==
  ASSUME TypeInv, visited # <<>>
  PROVE  /\ More /\ Len(visited) \in Nat /\ Len(visited) >= 1
         /\ Last(visited) = visited[Len(visited)] /\ Last(visited) \in Site
         /\ Asked.reply \in Reply /\ Asked.to \in Site
         /\ Asked.delay \in Nat /\ Asked.delay > 0
         /\ clock \in Nat /\ clock <= Budget /\ Budget \in Nat /\ HeadTimeout \in Nat
         /\ started \in Nat /\ started <= began /\ began \in Nat /\ began <= clock
         /\ HeadDeadline \in Nat /\ clock <= HeadDeadline /\ HeadDeadline <= Budget
         /\ HeadDeadline <= began + HeadTimeout
         /\ HeadDeadline = Budget \/ HeadDeadline = began + HeadTimeout
  <1>1. visited \in Seq(Site) /\ Len(visited) \in Nat /\ Len(visited) >= 1
    BY DEF TypeInv, TypeOK
  <1>2. Last(visited) = visited[Len(visited)] /\ Last(visited) \in Site
    BY <1>1 DEF Last
  <1>3. web[Last(visited)] \in [reply : Reply, to : Site, delay : WebDelay]
    BY <1>2, DmarcAssumption DEF TypeInv, TypeOK, Web
  <1>4. Asked.reply \in Reply /\ Asked.to \in Site /\ Asked.delay \in WebDelay
    BY <1>3 DEF Asked
  <1>5. Asked.delay \in Nat /\ Asked.delay > 0
    <2>1. Asked.delay \in Nat \ {0}
      BY <1>4, DmarcAssumption
    <2> QED
      BY <2>1
  <1>6. /\ clock \in started .. Budget /\ started \in Nat /\ Budget \in Nat
        /\ HeadTimeout \in Nat /\ began \in 0 .. clock
        /\ started <= began /\ clock <= HeadDeadline /\ More
    BY DnsAssumption, DmarcAssumption DEF TypeInv, TypeOK, DnsTypeOK
  <1>7. /\ HeadDeadline \in Nat /\ HeadDeadline <= Budget /\ HeadDeadline <= began + HeadTimeout
        /\ HeadDeadline = Budget \/ HeadDeadline = began + HeadTimeout
    BY <1>6 DEF HeadDeadline, Earlier
  <1> QED
    BY <1>1, <1>2, <1>4, <1>5, <1>6, <1>7

LEMMA StepTypeInv == LookupInv /\ LookupInv' /\ TypeInv /\ [Next]_vars => TypeInv'
  <1> SUFFICES ASSUME LookupInv, LookupInv', TypeInv, [Next]_vars PROVE TypeInv'
    OBVIOUS
  <1> USE DEF TypeInv, TypeOK, DnsTypeOK
  <1>1. CASE Lookup
    <2>1. UNCHANGED dnsWorld /\ UNCHANGED dmarcVars /\ Pending
      BY <1>1, DnsFrame DEF Lookup, LookupInv
    <2>2. Told' = Told
      BY <2>1 DEF dnsWorld, Told
    <2>3. answer' \in {Told, <<>>}
      BY <1>1 DEF Lookup, DnsNext, UdpAnswers, UdpCut, UdpFails, TcpAnswers, TcpFails,
                  DohAnswers, DohFails, Return, Failover
    <2>4. clock' \in started .. Budget
      <3>1. clock' = Deadline \/ (clock' = Due(servers[server]) /\ MayCome(servers[server]))
        BY <1>1 DEF Lookup, DnsNext, UdpAnswers, UdpCut, UdpFails, TcpAnswers, TcpFails,
                    DohAnswers, DohFails
      <3>2. clock' \in Nat /\ started <= clock' /\ clock' <= End
        BY <2>1, <3>1, RequestTime
      <3>3. started \in Nat /\ Budget \in Nat
        BY DnsAssumption
      <3>4. End <= Budget /\ End \in Nat
        BY <3>3, DnsAssumption DEF End, Earlier
      <3> QED
        BY <3>2, <3>3, <3>4
    <2>5. pc' \in {"udp", "tcp", "doh", "answered", "failed"} /\ server' \in Server
      BY DEF LookupInv, PlaceInv
    <2>6. visited = <<>> /\ UNCHANGED <<visited, began>> /\ began = 0
      BY <2>1 DEF LookupInv, PlaceInv, Pending, dmarcVars, chain, More
    <2>7. began' \in 0 .. clock'
      <3>1. started \in Nat
        BY DnsAssumption
      <3> QED
        BY <2>4, <2>6, <3>1
    <2>8. UNCHANGED <<started, question, transport, zone, servers, stage, pairs, targets, checks,
                      feature, mine, enabled, web>>
      BY <2>1 DEF dnsWorld, dmarcVars, dmarcWorld
    <2> QED
      BY <2>2, <2>3, <2>4, <2>5, <2>6, <2>7, <2>8
  <1>2. CASE LookupFailed \/ NoRecord
    <2>1. feature' \in [status : {"present", "absent", "misconfigured", "unknown"}, mark : Mark]
      BY <1>2, DmarcVerdicts DEF LookupFailed, NoRecord, Mark
    <2>2. /\ UNCHANGED <<dnsVars, pairs, targets, checks, chain, dmarcWorld>>
          /\ stage = "lookup" /\ stage' = "done"
      BY <1>2 DEF LookupFailed, NoRecord
    <2>3. visited = <<>>
      BY <2>2 DEF More
    <2> QED
      BY <2>1, <2>2, <2>3 DEF dnsVars, dnsWorld, chain, dmarcWorld, Told
  <1>3. CASE HasRecord
    <2>1. /\ UNCHANGED <<dnsVars, checks, chain, feature, dmarcWorld>>
          /\ stage = "lookup" /\ stage' = "heads"
      BY <1>3 DEF HasRecord
    <2>6. visited = <<>>
      BY <2>1 DEF More
    <2>2. Told' = Told
      BY <2>1 DEF dnsVars, dnsWorld, Told
    <2>3. targets' \in Seq(URI)
      <3>1. targets' = URIs(Get(Parse(Record), "rua")) /\ Record # <<>>
        BY <1>3 DEF HasRecord
      <3>2. answer = Told /\ question = "TXT"
        BY <2>1, <3>1, NoTexts DEF Record
      <3>3. Record = PickByVersion(Reading[transport]["TXT"][zone], "DMARC1")
        BY <3>2 DEF Record, Told
      <3> QED
        BY <3>1, <3>3, SchemesAssumption
    <2>4. checks' = <<>>
      BY <2>1
    <2>5. Len(checks') <= Len(targets')
      BY <2>3, <2>4
    <2> QED
      BY <2>1, <2>2, <2>3, <2>4, <2>5, <2>6 DEF dnsVars, dnsWorld, chain, dmarcWorld
  <1>4. CASE Skips \/ HeadAnswers \/ HeadTimesOut
    <2>1. /\ More
          /\ UNCHANGED <<pc, server, answer, dnsWorld, stage, pairs, targets, began, feature,
                         dmarcWorld>>
          /\ visited' = <<>>
          /\ \E c, r \in BOOLEAN : checks' = Append(checks, [checked |-> c, reachable |-> r])
      BY <1>4 DEF Skips, HeadAnswers, HeadTimesOut, Found, Replies, TooLate
    <2>2. Told' = Told
      BY <2>1 DEF dnsWorld, Told
    <2>3. /\ checks' \in Seq([checked : BOOLEAN, reachable : BOOLEAN])
          /\ Len(checks') <= Len(targets)
      <3>1. PICK c \in BOOLEAN, r \in BOOLEAN :
               checks' = Append(checks, [checked |-> c, reachable |-> r])
        BY <2>1
      <3> DEFINE e == [checked |-> c, reachable |-> r]
      <3>2. e \in [checked : BOOLEAN, reachable : BOOLEAN]
        OBVIOUS
      <3> HIDE DEF e
      <3>3. checks' = Append(checks, e)
        BY <3>1 DEF e
      <3>4. Len(checks) \in Nat /\ Len(targets) \in Nat /\ Len(checks) < Len(targets)
        BY <2>1 DEF More
      <3> QED
        BY <3>2, <3>3, <3>4
    <2>4. clock' \in started .. Budget /\ began \in 0 .. clock'
      <3>1. clock \in started .. Budget /\ started \in Nat /\ Budget \in Nat /\ began \in 0 .. clock
        BY DnsAssumption
      <3>2. CASE Skips
        BY <3>1, <3>2 DEF Skips
      <3>3. CASE HeadAnswers
        <4>1. visited # <<>> /\ clock' = clock + Asked.delay /\ clock + Asked.delay <= HeadDeadline
          BY <3>3 DEF HeadAnswers, Replies
        <4>2. /\ Asked.delay \in Nat /\ HeadDeadline <= Budget /\ HeadDeadline \in Nat
              /\ began \in Nat
          BY <4>1, ChainFacts
        <4> QED
          BY <3>1, <4>1, <4>2, SMTT(40)
      <3>4. CASE HeadTimesOut
        <4>1. visited # <<>> /\ clock' = HeadDeadline
          BY <3>4 DEF HeadTimesOut, TooLate
        <4>2. HeadDeadline \in Nat /\ clock <= HeadDeadline /\ HeadDeadline <= Budget
          BY <4>1, ChainFacts
        <4> QED
          BY <3>1, <4>1, <4>2
      <3> QED
        BY <1>4, <3>2, <3>3, <3>4
    <2>5. \A k \in DOMAIN checks' : checks'[k] \in [checked : BOOLEAN, reachable : BOOLEAN]
      BY <2>3, SequenceElements
    <2>6. /\ visited' \in Seq(Site) /\ Len(visited') <= MaxRequests
          /\ pc' # "answered" => began' = 0
      <3>1. <<>> \in Seq(Site) /\ Len(<<>>) = 0 /\ MaxRequests \in Nat
        BY DmarcAssumption
      <3> QED
        BY <2>1, <3>1
    <2> QED
      BY <2>1, <2>2, <2>3, <2>4, <2>5, <2>6 DEF dnsWorld, dmarcWorld, More
  <1>7. CASE HeadSends
    <2>1. /\ UNCHANGED <<dnsVars, stage, pairs, targets, checks, feature, dmarcWorld>>
          /\ More /\ visited' = <<This>> /\ began' = clock
      BY <1>7 DEF HeadSends
    <2>2. Told' = Told
      BY <2>1 DEF dnsVars, dnsWorld, Told
    <2>3. Len(checks) + 1 \in DOMAIN targets
      BY <2>1 DEF More
    <2>4. This \in Site
      BY <2>3 DEF This, Site
    <2>5. visited' \in Seq(Site) /\ Len(visited') <= MaxRequests
      <3>1. <<This>> \in Seq(Site) /\ Len(<<This>>) = 1 /\ MaxRequests \in Nat \ {0}
        BY <2>4, DmarcAssumption
      <3> QED
        BY <2>1, <3>1
    <2>6. pc = "answered"
      BY <2>1 DEF LookupInv, PlaceInv, More
    <2>7. clock' = clock /\ More' /\ started' = started
      BY <2>1 DEF dnsVars, dnsWorld, More
    <2>8. began' \in 0 .. clock' /\ started' <= began' /\ clock' <= HeadDeadline'
      <3>1. /\ clock \in started .. Budget /\ started \in Nat /\ Budget \in Nat
            /\ HeadTimeout \in Nat
        BY DnsAssumption, DmarcAssumption
      <3>2. HeadDeadline' = Earlier(clock + HeadTimeout, Budget)
        BY <2>1 DEF HeadDeadline
      <3> QED
        BY <2>1, <2>7, <3>1, <3>2 DEF Earlier
    <2> QED
      BY <2>1, <2>2, <2>5, <2>6, <2>7, <2>8 DEF dnsVars, dnsWorld, dmarcWorld
  <1>8. CASE HeadRedirected
    <2>1. /\ UNCHANGED <<pc, server, answer, dnsWorld, stage, pairs, targets, checks, began, feature,
                         dmarcWorld>>
          /\ More /\ visited # <<>> /\ visited' = Append(visited, Asked.to)
          /\ Len(visited) < MaxRequests
          /\ clock' = clock + Asked.delay /\ clock + Asked.delay <= HeadDeadline
      BY <1>8 DEF HeadRedirected, Replies
    <2>2. Told' = Told /\ More' /\ HeadDeadline' = HeadDeadline
      BY <2>1 DEF dnsWorld, Told, More, HeadDeadline
    <2>3. visited' \in Seq(Site) /\ Len(visited') <= MaxRequests
      <3>1. visited \in Seq(Site) /\ Asked.to \in Site /\ MaxRequests \in Nat
        BY <2>1, ChainFacts, DmarcAssumption
      <3> QED
        BY <2>1, <3>1
    <2>4. /\ clock' \in started .. Budget /\ began' \in 0 .. clock' /\ clock' <= HeadDeadline
          /\ started <= began
      <3>1. /\ Asked.delay \in Nat /\ clock \in Nat /\ Budget \in Nat /\ HeadDeadline \in Nat
            /\ HeadDeadline <= Budget /\ began \in Nat /\ began <= clock
            /\ started \in Nat /\ started <= began
        BY <2>1, ChainFacts
      <3> QED
        BY <2>1, <3>1, SMTT(40)
    <2>5. pc = "answered"
      BY <2>1 DEF LookupInv, PlaceInv, More
    <2> QED
      BY <2>1, <2>2, <2>3, <2>4, <2>5 DEF dnsWorld, dmarcWorld
  <1>5. CASE Judge
    <2>1. feature' \in [status : {"present", "absent", "misconfigured", "unknown"}, mark : Mark]
      <3>1. RuaMark \in Mark
        BY DEF RuaMark, Mark
      <3> QED
        BY <1>5, <3>1, DmarcVerdicts DEF Judge
    <2>2. visited = <<>>
      <3>1. Len(checks) = Len(targets) /\ Len(checks) \in Nat
        BY <1>5 DEF Judge
      <3> QED
        BY <3>1 DEF More
    <2>3. /\ UNCHANGED <<dnsVars, pairs, targets, checks, chain, dmarcWorld>>
          /\ stage = "heads" /\ stage' = "done"
      BY <1>5 DEF Judge
    <2> QED
      BY <2>1, <2>2, <2>3 DEF dnsVars, dnsWorld, chain, dmarcWorld, Told
  <1>6. CASE Terminated \/ UNCHANGED vars
    <2>1. UNCHANGED vars
      BY <1>6 DEF Terminated
    <2>2. /\ UNCHANGED <<pc, server, clock, answer, started, question, transport, zone, servers>>
          /\ UNCHANGED <<stage, pairs, targets, checks, visited, began, feature, mine, enabled, web>>
      BY <2>1 DEF vars, dnsVars, dnsWorld, dmarcVars, chain, dmarcWorld
    <2>3. Told' = Told /\ More' = More /\ HeadDeadline' = HeadDeadline
      BY <2>2 DEF Told, More, HeadDeadline
    <2> QED
      BY <2>2, <2>3
  <1> QED
    BY <1>1, <1>2, <1>3, <1>4, <1>5, <1>6, <1>7, <1>8 DEF Next

\* Type correctness of a lookup and of the probe that makes it, for any answer
\* sections.
THEOREM TypeCorrect == Spec => []TypeOK
  <1>1. Spec => []TypeInv
    BY InitTypeInv, StepTypeInv, LookupInvariant, PTL DEF Spec
  <1>2. TypeInv => TypeOK
    BY DEF TypeInv
  <1> QED
    BY <1>1, <1>2, PTL

-----------------------------------------------------------------------------
(* How long several servers take together.                                 *)

\* The recursion of the sum, on the sets of the first n positions.
SumSolves(g, times, n) ==
    g = [S \in SUBSET (1 .. n) |->
            IF S = {} THEN 0 ELSE g[S \ {Max(S)}] + [s \in 1 .. n |-> times[s]][Max(S)]]

LEMMA SumSolvable ==
  ASSUME NEW times, NEW n \in Nat, \A k \in 1 .. n : times[k] \in Int
  PROVE  \E g : SumSolves(g, times, n)
  <1> DEFINE F == [a \in Int |-> [t \in Int |-> a + t]]
  <1>1. Operation(F, Int, Int)
    BY DEF Operation
  <1>2. \A a, t \in Int : F[a][t] = a + t
    OBVIOUS
  <1> HIDE DEF F
  <1>3. PICK g \in [SUBSET (1 .. n) -> Int] : FoldSolves(g, F, 0, times, n)
    <2>1. 0 \in Int
      OBVIOUS
    <2>2. HasFold(F, Int, 0, times, n)
      BY <1>1, <2>1, FoldSolvable
    <2> QED
      BY <2>2 DEF HasFold
  <1>4. ASSUME NEW S \in SUBSET (1 .. n)
        PROVE  g[S] = IF S = {} THEN 0 ELSE g[S \ {Max(S)}] + [s \in 1 .. n |-> times[s]][Max(S)]
    <2>1. g[S] = IF S = {} THEN 0 ELSE F[g[S \ {Max(S)}]][times[Max(S)]]
      BY <1>3 DEF FoldSolves
    <2>2. ASSUME S # {}
          PROVE  F[g[S \ {Max(S)}]][times[Max(S)]] =
                    g[S \ {Max(S)}] + [s \in 1 .. n |-> times[s]][Max(S)]
      <3>1. Max(S) \in 1 .. n
        BY <2>2, MaxIsLast
      <3>2. g[S \ {Max(S)}] \in Int
        BY <1>3
      <3>3. times[Max(S)] \in Int /\ [s \in 1 .. n |-> times[s]][Max(S)] = times[Max(S)]
        BY <3>1
      <3> QED
        BY <1>2, <3>2, <3>3
    <2> QED
      BY <2>1, <2>2
  <1>5. g = [S \in SUBSET (1 .. n) |-> g[S]]
    BY <1>3
  <1>6. SumSolves(g, times, n)
    BY <1>4, <1>5 DEF SumSolves
  <1> QED
    BY <1>6

\* On the first k positions the recursion adds one after the other.
LEMMA SumSegments ==
  ASSUME NEW times, NEW n \in Nat, NEW g, SumSolves(g, times, n)
  PROVE  /\ g[1 .. 0] = 0
         /\ \A k \in 1 .. n : g[1 .. k] = g[1 .. k - 1] + times[k]
  <1>1. ASSUME NEW S \in SUBSET (1 .. n)
        PROVE  g[S] = IF S = {} THEN 0
                      ELSE g[S \ {Max(S)}] + [s \in 1 .. n |-> times[s]][Max(S)]
    BY DEF SumSolves
  <1>2. g[1 .. 0] = 0
    <2>1. 1 .. 0 = {} /\ 1 .. 0 \in SUBSET (1 .. n)
      OBVIOUS
    <2> QED
      BY <1>1, <2>1
  <1>3. ASSUME NEW k \in 1 .. n PROVE g[1 .. k] = g[1 .. k - 1] + times[k]
    <2>1. /\ 1 .. k \in SUBSET (1 .. n) /\ 1 .. k # {} /\ Max(1 .. k) = k
          /\ (1 .. k) \ {k} = 1 .. k - 1
      BY Segments
    <2>2. g[1 .. k] = g[1 .. k - 1] + [s \in 1 .. n |-> times[s]][k]
      BY <1>1, <2>1
    <2> QED
      BY <2>2
  <1> QED
    BY <1>2, <1>3

\* FoldLeft adds up.
LEMMA SumUnfolds ==
  ASSUME NEW times, NEW n \in Nat, \A k \in 1 .. n + 1 : times[k] \in Int
  PROVE  /\ Together(times, 0) = 0
         /\ Together(times, n + 1) = Together(times, n) + times[n + 1]
  <1>1. ASSUME NEW m \in Nat, m <= n + 1
        PROVE  \E g : SumSolves(g, times, m) /\ Together(times, m) = g[1 .. m]
    <2> DEFINE seq == [s \in 1 .. m |-> times[s]]
               iter[S \in SUBSET (DOMAIN seq)] ==
                 IF S = {} THEN 0 ELSE iter[S \ {Max(S)}] + seq[Max(S)]
    <2>1. DOMAIN seq = 1 .. m
      OBVIOUS
    <2>2. \E g : g = [S \in SUBSET (DOMAIN seq) |->
                        IF S = {} THEN 0 ELSE g[S \ {Max(S)}] + seq[Max(S)]]
      <3>1. PICK g : SumSolves(g, times, m)
        <4>1. \A k \in 1 .. m : times[k] \in Int
          <5>1. \A k \in 1 .. m : k \in 1 .. n + 1
            BY <1>1
          <5> QED
            BY <5>1
        <4> QED
          BY <4>1, SumSolvable
      <3>2. g = [S \in SUBSET (1 .. m) |->
                   IF S = {} THEN 0 ELSE g[S \ {Max(S)}] + seq[Max(S)]]
        BY <3>1 DEF SumSolves
      <3> HIDE DEF seq
      <3> QED
        BY <2>1, <3>2
    <2>3. iter = [S \in SUBSET (DOMAIN seq) |->
                     IF S = {} THEN 0 ELSE iter[S \ {Max(S)}] + seq[Max(S)]]
      BY <2>2
    <2>4. Together(times, m) = iter[DOMAIN seq]
      BY DEF Together, FoldLeft, MapThenFoldSet
    <2> HIDE DEF iter
    <2>5. SumSolves(iter, times, m)
      BY <2>1, <2>3 DEF SumSolves
    <2> QED
      BY <2>1, <2>4, <2>5
  <1>2. Together(times, 0) = 0
    <2>1. PICK g : SumSolves(g, times, 0) /\ Together(times, 0) = g[1 .. 0]
      <3>1. 0 \in Nat /\ 0 <= n + 1
        OBVIOUS
      <3> QED
        BY <1>1, <3>1
    <2> QED
      BY <2>1, SumSegments
  <1>4. n + 1 \in Nat /\ n + 1 \in 1 .. n + 1 /\ (n + 1) - 1 = n /\ n <= n + 1 /\ n + 1 <= n + 1
    OBVIOUS
  <1>3. PICK g : SumSolves(g, times, n) /\ Together(times, n) = g[1 .. n]
    BY <1>1, <1>4
  <1>5. PICK h : SumSolves(h, times, n + 1) /\ Together(times, n + 1) = h[1 .. n + 1]
    BY <1>1, <1>4
  <1>6. /\ g[1 .. 0] = 0 /\ h[1 .. 0] = 0
        /\ \A k \in 1 .. n : g[1 .. k] = g[1 .. k - 1] + times[k]
        /\ \A k \in 1 .. n + 1 : h[1 .. k] = h[1 .. k - 1] + times[k]
    BY <1>3, <1>4, <1>5, SumSegments
  <1> DEFINE K == {m \in 1 .. n + 1 : g[1 .. m - 1] = h[1 .. m - 1]}
  <1>7. 1 \in K
    <2>1. 1 \in 1 .. n + 1 /\ 1 - 1 = 0
      OBVIOUS
    <2> QED
      BY <1>6, <2>1
  <1>8. ASSUME NEW m \in 1 .. n, m \in K PROVE m + 1 \in K
    <2>1. m + 1 \in 1 .. n + 1 /\ m \in 1 .. n + 1 /\ (m + 1) - 1 = m
      OBVIOUS
    <2>2. g[1 .. m - 1] = h[1 .. m - 1]
      BY <1>8
    <2>3. g[1 .. m] = h[1 .. m]
      BY <1>6, <2>1, <2>2
    <2> QED
      BY <2>1, <2>3
  <1>9. n + 1 \in K
    <2> HIDE DEF K
    <2> QED
      BY <1>4, <1>7, <1>8, PositionInduction
  <1>10. g[1 .. n] = h[1 .. n]
    BY <1>4, <1>9
  <1>11. h[1 .. n + 1] = h[1 .. n] + times[n + 1]
    BY <1>4, <1>6
  <1> QED
    BY <1>2, <1>3, <1>5, <1>10, <1>11

-----------------------------------------------------------------------------
(* Which server a lookup reaches.                                          *)

\* What a lookup has waited for the server it is asking.
Waited == IF pc = "tcp" THEN servers[server].delay ELSE 0

\* The clock is what the servers so far have taken, or stands at the end; none
\* that was passed over would have answered before the end.  An answer is from
\* the first server that answers, and in time.
ReachInv ==
    /\ Pending =>
          /\ clock = Earlier(started + TakenBy(server - 1) + Waited, End)
          /\ \A r \in Answering : r < server => started + TakenBy(r) >= End
    /\ pc = "tcp" => servers[server].way \in {"cut", "cut-error", "cut-silent"}
    /\ pc = "answered" =>
          /\ started + TakenBy(server) <= End
          /\ \A r \in Answering : server <= r
          /\ transport = "udp" => server \in Answering
    /\ pc = "failed" => \A r \in Answering : started + TakenBy(r) >= End

\* The sum over the servers.
LEMMA TakenFacts ==
  ASSUME LookupInv
  PROVE  /\ \A s \in Server : Takes[s] \in Nat /\ TakenBy(s) = TakenBy(s - 1) + Takes[s]
         /\ TakenBy(0) = 0
         /\ \A s \in 0 .. NumServers : TakenBy(s) \in Nat
         /\ \A r, s \in 0 .. NumServers : r <= s => TakenBy(r) <= TakenBy(s)
  <1> USE DnsAssumption
  <1>1. ASSUME NEW s \in Server PROVE Takes[s] \in Nat
    <2>1. servers[s] \in Behaviour
      BY DEF LookupInv, TimeInv
    <2>2. servers[s].way \in Way /\ servers[s].delay \in Nat
      BY <2>1 DEF Behaviour
    <2>3. transport \in {"udp", "doh"}
      BY DEF LookupInv, PlaceInv
    <2> QED
      BY <2>2, <2>3 DEF Takes, Earlier, Way
  <1>2. ASSUME NEW s \in Server PROVE TakenBy(s) = TakenBy(s - 1) + Takes[s]
    <2>1. s - 1 \in Nat /\ (s - 1) + 1 = s /\ \A k \in 1 .. s : k \in Server /\ k \in Int
      BY DEF Server
    <2>3. \A k \in 1 .. (s - 1) + 1 : Takes[k] \in Int
      BY <1>1, <2>1
    <2>2. Together(Takes, (s - 1) + 1) = Together(Takes, s - 1) + Takes[(s - 1) + 1]
      BY <2>1, <2>3, SumUnfolds
    <2> QED
      BY <2>1, <2>2 DEF TakenBy
  <1>3. TakenBy(0) = 0
    <2>1. 0 \in Nat /\ \A k \in 1 .. 0 + 1 : k \in Server
      BY DEF Server
    <2>2. \A k \in 1 .. 0 + 1 : Takes[k] \in Int
      BY <1>1, <2>1
    <2> QED
      BY <2>1, <2>2, SumUnfolds DEF TakenBy
  <1> DEFINE Good(e) == \A r \in 0 .. e : TakenBy(r) \in Nat /\ TakenBy(r) <= TakenBy(e)
             K == {m \in 1 .. NumServers + 1 : Good(m - 1)}
  <1>4. 1 \in K
    <2>1. 1 - 1 = 0 /\ 1 \in 1 .. NumServers + 1 /\ \A r \in 0 .. 0 : r = 0
      OBVIOUS
    <2> QED
      BY <1>3, <2>1
  <1>5. ASSUME NEW m \in 1 .. NumServers, m \in K PROVE m + 1 \in K
    <2>1. (m + 1) - 1 = m /\ m \in Server /\ m + 1 \in 1 .. NumServers + 1
      BY DEF Server
    <2>2. TakenBy(m) = TakenBy(m - 1) + Takes[m] /\ Takes[m] \in Nat
      BY <1>1, <1>2, <2>1
    <2>3. \A r \in 0 .. m - 1 : TakenBy(r) \in Nat /\ TakenBy(r) <= TakenBy(m - 1)
      BY <1>5
    <2>4. m - 1 \in 0 .. m - 1
      OBVIOUS
    <2>5. TakenBy(m - 1) \in Nat /\ TakenBy(m) \in Nat /\ TakenBy(m - 1) <= TakenBy(m)
      BY <2>2, <2>3, <2>4
    <2>6. ASSUME NEW r \in 0 .. m PROVE TakenBy(r) \in Nat /\ TakenBy(r) <= TakenBy(m)
      <3>1. CASE r = m
        BY <2>5, <3>1
      <3>2. CASE r # m
        <4>1. r \in 0 .. m - 1
          BY <3>2
        <4> QED
          BY <2>3, <2>5, <4>1
      <3> QED
        BY <3>1, <3>2
    <2> QED
      BY <2>1, <2>6
  <1>6. ASSUME NEW s \in 0 .. NumServers PROVE Good(s)
    <2>1. NumServers + 1 \in Nat /\ s + 1 \in 1 .. NumServers + 1 /\ (s + 1) - 1 = s
          /\ (NumServers + 1) - 1 = NumServers
      OBVIOUS
    <2>2. s + 1 \in K
      <3> HIDE DEF K
      <3> QED
        BY <1>4, <1>5, <2>1, PositionInduction
    <2> QED
      BY <2>1, <2>2
  <1>7. \A s \in 0 .. NumServers : TakenBy(s) \in Nat
    <2> TAKE s \in 0 .. NumServers
    <2>1. s \in 0 .. s
      OBVIOUS
    <2> QED
      BY <1>6, <2>1
  <1>8. \A r, s \in 0 .. NumServers : r <= s => TakenBy(r) <= TakenBy(s)
    <2> SUFFICES ASSUME NEW r \in 0 .. NumServers, NEW s \in 0 .. NumServers, r <= s
                 PROVE  TakenBy(r) <= TakenBy(s)
      OBVIOUS
    <2>1. r \in 0 .. s
      OBVIOUS
    <2> QED
      BY <1>6, <2>1
  <1> QED
    BY <1>1, <1>2, <1>3, <1>7, <1>8

\* What there is to know of the request that is made now.
LEMMA RequestFacts ==
  ASSUME LookupInv, ReachInv, Pending
  PROVE  /\ server \in Server /\ server - 1 \in 0 .. NumServers /\ server \in 0 .. NumServers
         /\ servers[server].way \in Way /\ servers[server].delay \in Nat \ {0}
         /\ started \in Nat /\ End \in Nat /\ End <= Budget /\ clock \in Nat /\ clock <= End
         /\ TakenBy(server - 1) \in Nat /\ Takes[server] \in Nat
         /\ TakenBy(server) = TakenBy(server - 1) + Takes[server]
         /\ Waited \in Nat
         /\ clock = Earlier(started + TakenBy(server - 1) + Waited, End)
         /\ Deadline \in Nat /\ Deadline <= End
         /\ transport = "udp" => Deadline = End
         /\ transport = "doh" => End = Budget /\ Deadline = Earlier(clock + ProviderTimeout, Budget)
  <1> USE DnsAssumption
  <1>1. server \in Server /\ server - 1 \in 0 .. NumServers /\ server \in 0 .. NumServers
    BY DEF LookupInv, PlaceInv, Server
  <1>2. servers[server].way \in Way /\ servers[server].delay \in Nat \ {0}
    <2>1. servers[server] \in Behaviour
      BY <1>1 DEF LookupInv, TimeInv
    <2> QED
      BY <2>1 DEF Behaviour
  <1>3. started \in Nat /\ clock \in Nat /\ clock <= End
    BY DEF LookupInv, TimeInv, Pending
  <1>4. End \in Nat /\ End <= Budget
    BY <1>3 DEF End, Earlier
  <1>5. /\ TakenBy(server - 1) \in Nat /\ Takes[server] \in Nat
        /\ TakenBy(server) = TakenBy(server - 1) + Takes[server]
    BY <1>1, TakenFacts
  <1>6. Waited \in Nat
    BY <1>2 DEF Waited
  <1>7. clock = Earlier(started + TakenBy(server - 1) + Waited, End)
    BY DEF ReachInv
  <1>8. /\ Deadline \in Nat /\ Deadline <= End
        /\ transport = "udp" => Deadline = End
        /\ transport = "doh" => End = Budget /\ Deadline = Earlier(clock + ProviderTimeout, Budget)
    BY <1>3 DEF Deadline, End, Earlier
  <1> QED
    BY <1>1, <1>2, <1>3, <1>4, <1>5, <1>6, <1>7, <1>8

\* An answer comes before the end, so nothing was passed over.
LEMMA AnswerReaches ==
  ASSUME LookupInv, ReachInv, Pending, MayCome(servers[server])
  PROVE  /\ clock < End
         /\ clock = started + TakenBy(server - 1) + Waited
         /\ Due(servers[server]) = clock + servers[server].delay
         /\ Due(servers[server]) <= Deadline
         /\ \A r \in Answering : server <= r
  <1> USE DnsAssumption, RequestFacts
  <1>1. /\ Due(servers[server]) = clock + servers[server].delay
        /\ Due(servers[server]) <= Deadline
    BY DEF MayCome, Due
  <1>2. clock < End
    BY <1>1
  <1>3. clock = started + TakenBy(server - 1) + Waited
    BY <1>2 DEF Earlier
  <1>4. ASSUME NEW r \in Answering, r < server PROVE FALSE
    <2>1. started + TakenBy(r) >= End
      BY <1>4 DEF ReachInv
    <2>2. r \in 0 .. NumServers /\ r <= server - 1
      BY <1>4 DEF Answering, Server
    <2>3. TakenBy(r) <= TakenBy(server - 1) /\ TakenBy(r) \in Nat
      BY <2>2, TakenFacts
    <2> QED
      BY <1>2, <1>3, <2>1, <2>3
  <1>5. \A r \in Answering : r \in Int /\ server \in Int
    BY DEF Answering, Server
  <1> QED
    BY <1>1, <1>2, <1>3, <1>4, <1>5

\* A server that is passed over took its time, or all there was.
LEMMA FailureReaches ==
  ASSUME LookupInv, ReachInv, UdpFails \/ TcpFails \/ DohFails
  PROVE  /\ clock' = Earlier(started + TakenBy(server), End)
         /\ server \in Answering => started + TakenBy(server) >= End
  <1> DEFINE w == servers[server].way
             d == servers[server].delay
             t == Takes[server]
             before == started + TakenBy(server - 1)
  <1>1. Pending
    BY DEF UdpFails, TcpFails, DohFails, Pending
  <1>2. /\ w \in Way /\ d \in Nat \ {0} /\ t \in Nat /\ before \in Nat /\ server \in Server
        /\ started + TakenBy(server) = before + t
        /\ End \in Nat /\ End <= Budget /\ clock \in Nat /\ clock <= End
        /\ clock = Earlier(before + Waited, End)
        /\ Budget \in Nat /\ ProviderTimeout \in Nat
    BY <1>1, RequestFacts, DnsAssumption
  <1>3. /\ transport = "udp" => Deadline = End
        /\ transport = "doh" => End = Budget /\ Deadline = Earlier(clock + ProviderTimeout, Budget)
    BY <1>1, RequestFacts
  <1>4. MayBeLost(servers[server]) => w = "silent" \/ clock + d >= Deadline
    BY DEF MayBeLost, Due
  <1>5. MayCome(servers[server]) /\ clock' = Due(servers[server]) =>
           clock' = clock + d /\ clock' <= Deadline /\ clock = before + Waited /\ clock < End
    BY <1>1, AnswerReaches
  <1>6. t = CASE transport = "doh" ->
                   IF w = "silent" THEN ProviderTimeout ELSE Earlier(d, ProviderTimeout)
              [] transport = "udp" /\ w \in {"whole", "refuses", "error"} -> d
              [] transport = "udp" /\ w \in {"cut", "cut-error"} -> 2 * d
              [] transport = "udp" /\ w \in {"silent", "cut-silent"} -> Budget + 1
    BY <1>2 DEF Takes
  <1>7. server \in Answering =>
           IF transport = "udp" THEN w \in {"whole", "refuses", "cut"}
           ELSE w = "whole" /\ d < ProviderTimeout
    BY DEF Answering
  <1>8. transport \in {"udp", "doh"} /\ (pc = "doh" <=> transport = "doh")
    BY <1>1 DEF LookupInv, PlaceInv
  <1>9. pc = "tcp" => w \in {"cut", "cut-error", "cut-silent"}
    BY DEF ReachInv
  <1>10. Waited = IF pc = "tcp" THEN d ELSE 0
    BY DEF Waited
  <1>11. CASE UdpFails
    <2>1. pc = "udp" /\ transport = "udp" /\ Waited = 0 /\ Deadline = End
      BY <1>3, <1>8, <1>10, <1>11 DEF UdpFails
    <2>2. CASE w = "error" /\ MayCome(servers[server]) /\ clock' = Due(servers[server])
      <3>1. t = d /\ server \notin Answering
        BY <1>6, <1>7, <2>1, <2>2
      <3> HIDE DEF w, d, t, before
      <3> QED
        BY <1>2, <1>5, <2>1, <2>2, <3>1 DEF Earlier
    <2>3. CASE MayBeLost(servers[server]) /\ clock' = Deadline
      <3>1. w = "silent" \/ clock + d >= End
        BY <1>4, <2>1, <2>3
      <3>2. t = Budget + 1 \/ (w # "silent" /\ (t = d \/ t = 2 * d))
        BY <1>2, <1>6, <2>1 DEF Way
      <3> HIDE DEF w, d, t, before
      <3>3. before + t >= End
        BY <1>2, <2>1, <3>1, <3>2 DEF Earlier
      <3> QED
        BY <1>2, <2>1, <2>3, <3>3 DEF Earlier
    <2> QED
      BY <1>11, <2>2, <2>3 DEF UdpFails
  <1>12. CASE TcpFails
    <2>1. pc = "tcp" /\ transport = "udp" /\ Waited = d /\ Deadline = End
      BY <1>3, <1>8, <1>10, <1>12 DEF TcpFails
    <2>2. CASE w = "cut-error" /\ MayCome(servers[server]) /\ clock' = Due(servers[server])
      <3>1. t = 2 * d /\ server \notin Answering
        BY <1>6, <1>7, <2>1, <2>2
      <3> HIDE DEF w, d, t, before
      <3> QED
        BY <1>2, <1>5, <2>1, <2>2, <3>1 DEF Earlier
    <2>3. CASE (w = "cut-silent" \/ MayBeLost(servers[server])) /\ clock' = Deadline
      <3>1. w = "cut-silent" \/ clock + d >= End
        BY <1>4, <1>9, <2>1, <2>3
      <3>2. t = Budget + 1 \/ (w # "cut-silent" /\ t = 2 * d)
        BY <1>6, <1>9, <2>1
      <3> HIDE DEF w, d, t, before
      <3>3. before + t >= End
        BY <1>2, <2>1, <3>1, <3>2 DEF Earlier
      <3> QED
        BY <1>2, <2>1, <2>3, <3>3 DEF Earlier
    <2> QED
      BY <1>12, <2>2, <2>3 DEF TcpFails
  <1>13. CASE DohFails
    <2>1. /\ pc = "doh" /\ transport = "doh" /\ Waited = 0 /\ End = Budget
          /\ Deadline = Earlier(clock + ProviderTimeout, Budget)
      BY <1>3, <1>8, <1>10, <1>13 DEF DohFails
    <2>2. CASE w \in {"error", "refuses"} /\ MayCome(servers[server]) /\ clock' = Due(servers[server])
      <3>1. t = Earlier(d, ProviderTimeout) /\ server \notin Answering
        BY <1>6, <1>7, <2>1, <2>2
      <3> HIDE DEF w, d, t, before
      <3> QED
        BY <1>2, <1>5, <2>1, <2>2, <3>1 DEF Earlier
    <2>3. CASE MayBeLost(servers[server]) /\ clock' = Deadline
      <3>1. \/ w = "silent" /\ t = ProviderTimeout
            \/ w # "silent" /\ t = Earlier(d, ProviderTimeout) /\ clock + d >= Deadline
        BY <1>4, <1>6, <2>1, <2>3
      <3>2. server \in Answering => w # "silent" /\ d < ProviderTimeout
        BY <1>7, <2>1
      <3> HIDE DEF w, d, t, before
      <3> QED
        BY <1>2, <2>1, <2>3, <3>1, <3>2 DEF Earlier
    <2> QED
      BY <1>13, <2>2, <2>3 DEF DohFails
  <1> QED
    BY <1>11, <1>12, <1>13

LEMMA InitReachInv == Init => ReachInv
  <1> SUFFICES ASSUME Init PROVE ReachInv
    OBVIOUS
  <1>1. /\ pc \in {"udp", "doh"} /\ server = 1 /\ clock = started
        /\ started \in Nat /\ started <= End
    BY DnsAssumption DEF Init, DnsInit, End, Earlier
  <1>2. TakenBy(server - 1) = 0
    <2>1. server - 1 = 0 /\ TakenBy(0) = 0
      BY <1>1, InitLookupInv, TakenFacts
    <2> QED
      BY <2>1
  <1>3. Waited = 0
    BY <1>1 DEF Waited
  <1>4. clock = Earlier(started + TakenBy(server - 1) + Waited, End)
    BY <1>1, <1>2, <1>3 DEF Earlier
  <1>5. \A r \in Answering : ~(r < server)
    BY <1>1 DEF Answering, Server
  <1> QED
    BY <1>1, <1>4, <1>5 DEF ReachInv, Pending

\* Nothing that a lookup does changes the servers.
LEMMA SameServers ==
  ASSUME UNCHANGED dnsWorld
  PROVE  /\ End' = End /\ Answering' = Answering /\ started' = started
         /\ transport' = transport /\ servers' = servers
         /\ Takes' = Takes
  BY DEF dnsWorld, End, Earlier, Answering, Takes

LEMMA StepReachInv == LookupInv /\ ReachInv /\ [Next]_vars => ReachInv'
  <1> SUFFICES ASSUME LookupInv, ReachInv, [Next]_vars PROVE ReachInv'
    OBVIOUS
  <1>1. ASSUME UNCHANGED <<pc, server, dnsWorld>>, UNCHANGED clock \/ ~Pending
        PROVE  ReachInv'
    <2>1. /\ End' = End /\ Answering' = Answering /\ started' = started
          /\ transport' = transport /\ servers' = servers /\ Takes' = Takes
      BY <1>1, SameServers
    <2>2. pc' = pc /\ server' = server /\ (Pending => clock' = clock)
      BY <1>1
    <2> QED
      BY <2>1, <2>2 DEF ReachInv, Pending, Waited, TakenBy, Earlier
  <1>2. CASE Lookup
    <2>1. UNCHANGED dnsWorld /\ Pending
      BY <1>2, DnsFrame DEF Lookup, LookupInv
    <2>2. /\ End' = End /\ Answering' = Answering /\ started' = started
          /\ transport' = transport /\ servers' = servers /\ Takes' = Takes
      BY <2>1, SameServers
    <2>3. /\ server \in Server /\ TakenBy(server - 1) \in Nat
          /\ TakenBy(server) = TakenBy(server - 1) + Takes[server]
          /\ servers[server].delay \in Nat \ {0} /\ started \in Nat /\ End \in Nat
          /\ transport \in {"udp", "doh"} /\ (pc = "doh" <=> transport = "doh")
      BY <2>1, RequestFacts DEF LookupInv, PlaceInv
    <2>4. Deadline <= End /\ Deadline \in Nat
          /\ (transport = "doh" => Deadline = Earlier(clock + ProviderTimeout, Budget))
          /\ clock \in Nat
      BY <2>1, RequestFacts
    <2>5. ASSUME UdpAnswers \/ TcpAnswers \/ DohAnswers PROVE ReachInv'
      <3> DEFINE w == servers[server].way
                 d == servers[server].delay
      <3>1. /\ MayCome(servers[server]) /\ pc' = "answered" /\ server' = server
            /\ \/ pc = "udp" /\ w \in {"whole", "refuses"}
               \/ pc = "tcp" /\ w = "cut"
               \/ pc = "doh" /\ w \in {"whole", "refuses"}
        BY <2>5 DEF UdpAnswers, TcpAnswers, DohAnswers, Return
      <3>2. /\ clock = started + TakenBy(server - 1) + Waited
            /\ clock + d <= Deadline
            /\ \A r \in Answering : server <= r
        BY <2>1, <3>1, AnswerReaches
      <3>3. Waited + d = Takes[server]
        <4>1. CASE pc = "udp" /\ w \in {"whole", "refuses"}
          BY <2>3, <4>1 DEF Takes, Waited
        <4>2. CASE pc = "tcp" /\ w = "cut"
          BY <2>3, <4>2 DEF Takes, Waited
        <4>3. CASE pc = "doh" /\ w \in {"whole", "refuses"}
          <5>1. d <= ProviderTimeout
            BY <2>3, <2>4, <3>2, <4>3, DnsAssumption DEF Earlier
          <5> QED
            BY <2>3, <4>3, <5>1 DEF Takes, Waited, Earlier
        <4> QED
          BY <3>1, <4>1, <4>2, <4>3
      <3>4. Waited \in Nat
        BY <2>3 DEF Waited
      <3>5. started + TakenBy(server) <= End
        <4> HIDE DEF d
        <4>1. d \in Nat
          BY <2>3 DEF d
        <4> QED
          BY <2>3, <2>4, <3>2, <3>3, <3>4, <4>1
      <3>6. transport = "udp" => server \in Answering
        BY <2>3, <3>1 DEF Answering
      <3> QED
        BY <2>2, <3>1, <3>2, <3>5, <3>6 DEF ReachInv, Pending, TakenBy
    <2>6. ASSUME UdpCut PROVE ReachInv'
      <3> DEFINE d == servers[server].delay
      <3>1. /\ MayCome(servers[server]) /\ pc = "udp" /\ pc' = "tcp" /\ server' = server
            /\ clock' = Due(servers[server])
            /\ servers[server].way \in {"cut", "cut-error", "cut-silent"}
        BY <2>6 DEF UdpCut
      <3>2. /\ clock = started + TakenBy(server - 1) + Waited
            /\ clock' = clock + d
            /\ clock + d <= Deadline
            /\ \A r \in Answering : server <= r
        BY <2>1, <3>1, AnswerReaches
      <3>3. Waited = 0 /\ Waited' = d
        BY <2>2, <3>1 DEF Waited
      <3>4. clock' = Earlier(started + TakenBy(server - 1) + d, End)
        <4> HIDE DEF d
        <4>1. d \in Nat
          BY <2>3 DEF d
        <4> QED
          BY <2>3, <2>4, <3>2, <3>3, <4>1 DEF Earlier
      <3>5. \A r \in Answering : ~(r < server)
        <4>1. \A r \in Answering : r \in Int /\ server \in Int
          BY <2>3 DEF Answering, Server
        <4> QED
          BY <3>2, <4>1
      <3> QED
        BY <2>2, <3>1, <3>3, <3>4, <3>5 DEF ReachInv, Pending, TakenBy, Earlier
    <2>7. ASSUME UdpFails \/ TcpFails \/ DohFails PROVE ReachInv'
      <3>1. /\ clock' = Earlier(started + TakenBy(server), End)
            /\ server \in Answering => started + TakenBy(server) >= End
        BY <2>7, FailureReaches
      <3>2. \A r \in Answering : r <= server => started + TakenBy(r) >= End
        <4>1. \A r \in Answering : r < server => started + TakenBy(r) >= End
          BY <2>1 DEF ReachInv
        <4>2. \A r \in Answering : r \in Int /\ server \in Int
          BY <2>3 DEF Answering, Server
        <4>3. \A r \in Answering : r <= server => r < server \/ r = server
          BY <4>2
        <4> QED
          BY <3>1, <4>1, <4>3
      <3>3. Failover
        BY <2>7 DEF UdpFails, TcpFails, DohFails
      <3>4. CASE server = NumServers
        <4>1. pc' = "failed"
          BY <3>3, <3>4 DEF Failover
        <4>2. \A r \in Answering : r <= server
          BY <3>4 DEF Answering, Server
        <4> QED
          BY <2>2, <3>2, <4>1, <4>2 DEF ReachInv, Pending, TakenBy
      <3>5. CASE server # NumServers
        <4>1. pc' = transport /\ server' = server + 1
          BY <3>3, <3>5 DEF Failover
        <4>2. server' - 1 = server /\ Waited' = 0
          BY <2>3, <4>1 DEF Waited, Server
        <4>3. started + TakenBy(server) + 0 = started + TakenBy(server)
          <5>1. TakenBy(server) \in Nat
            BY <2>1, RequestFacts
          <5> QED
            BY <2>3, <5>1
        <4>4. \A r \in Answering : r < server + 1 => r <= server
          BY <2>3 DEF Answering, Server
        <4> QED
          BY <2>2, <2>3, <3>1, <3>2, <4>1, <4>2, <4>3, <4>4 DEF ReachInv, Pending, TakenBy, Earlier
      <3> QED
        BY <3>4, <3>5
    <2> QED
      BY <1>2, <2>5, <2>6, <2>7 DEF Lookup, DnsNext
  <1>3. CASE LookupFailed \/ NoRecord \/ HasRecord \/ Judge \/ Terminated \/ UNCHANGED vars
    BY <1>1, <1>3 DEF LookupFailed, NoRecord, HasRecord, Judge, Terminated, vars, dnsVars
  <1>4. CASE Skips \/ HeadSends \/ HeadRedirected \/ HeadAnswers \/ HeadTimesOut
    <2>1. UNCHANGED <<pc, server, dnsWorld>> /\ stage = "heads"
      BY <1>4 DEF Skips, HeadSends, HeadRedirected, HeadAnswers, HeadTimesOut, Replies, TooLate,
                  Found, More, dnsVars
    <2>2. ~Pending
      BY <2>1 DEF LookupInv, PlaceInv, Pending
    <2> QED
      BY <1>1, <2>1, <2>2
  <1> QED
    BY <1>2, <1>3, <1>4 DEF Next

\* docs/ARCHITECTURE.md:134, dnsclient.go:199-211: with any number of servers,
\* however they behave and however long they take, failover reaches the first
\* one that answers if there is time for it, and a lookup takes no longer than
\* what limits it.
THEOREM FirstAnswerIsReached == Spec => []FailoverReaches
  <1>1. LookupInv /\ ReachInv => FailoverReaches
    <2> SUFFICES ASSUME LookupInv, ReachInv PROVE FailoverReaches
      OBVIOUS
    <2> DEFINE first == CHOOSE s \in Answering : \A r \in Answering : s <= r
    <2>1. Answering # {} => first \in Answering
      <3>1. NumServers \in Nat /\ Answering \in SUBSET (1 .. NumServers)
        BY DnsAssumption DEF Answering, Server
      <3>2. Answering # {} => \E s \in Answering : \A r \in Answering : s <= r
        BY <3>1, LeastPosition
      <3> QED
        BY <3>2
    <2>2. pc # "answered" => clock <= End
      BY DEF LookupInv, TimeInv
    <2>3. pc = "answered" => started + TakenBy(server) <= End
      BY DEF ReachInv, Pending
    <2>4. pc = "answered" /\ Answering # {} => server <= first
      BY <2>1 DEF ReachInv
    <2>5. pc = "answered" /\ transport = "udp" => server \in Answering
      BY DEF ReachInv
    <2>6. pc = "failed" => Answering = {} \/ started + TakenBy(first) >= End
      BY <2>1 DEF ReachInv
    <2> HIDE DEF first
    <2> QED
      BY <2>2, <2>3, <2>4, <2>5, <2>6 DEF FailoverReaches, End, first
  <1>2. Spec => []ReachInv
    BY InitReachInv, StepReachInv, LookupInvariant, PTL DEF Spec
  <1> QED
    BY <1>1, <1>2, LookupInvariant, PTL

-----------------------------------------------------------------------------
(* What the transports make of the texts of TXT records.                   *)

\* All strings.  (The provers do not see that the three are in STRING.)
Token == STRING \cup {Quote, Backslash, Space}
Text == Seq(Token)

LEMMA Characters ==
  /\ Quote \in Token /\ Backslash \in Token /\ Space \in Token
  /\ Quote # Backslash /\ Space # Quote
  <1>1. Quote \in Token /\ Backslash \in Token /\ Space \in Token
    BY DEF Token
  <1>2. Quote # Backslash /\ Space # Quote
    BY DEF Quote, Backslash, Space
  <1> QED
    BY <1>1, <1>2

\* A text grows by one token at a time.
LEMMA TextGrows ==
  ASSUME NEW T, NEW t \in Seq(T)
  PROVE  /\ Len(t) \in Nat /\ SubSeq(t, 1, 0) = <<>> /\ SubSeq(t, 1, Len(t)) = t
         /\ \A m \in 0 .. Len(t) : SubSeq(t, 1, m) \in Seq(T)
         /\ \A m \in 0 .. Len(t) - 1 :
               /\ t[m + 1] \in T
               /\ SubSeq(t, 1, m + 1) = SubSeq(t, 1, m) \o << t[m + 1] >>
  OBVIOUS

LEMMA GluedSame ==
  ASSUME NEW p, NEW q, NEW n \in Nat, \A k \in 1 .. n : p[k] = q[k]
  PROVE  Glued(p, n) = Glued(q, n)
  BY DEF Glued

\* How a token is written, and a text of which every token is in print.
Written(c) ==
    IF c \in {Quote, Backslash} \cup DOMAIN decimal THEN <<Backslash, Printed(c)>> ELSE <<c>>
Legible(text) == [i \in DOMAIN text |-> Printed(text[i])]

LEMMA PrintedType ==
  ASSUME NEW c \in Token
  PROVE  /\ Printed(c) \in Token
         /\ c \notin DOMAIN decimal => Printed(c) = c
  <1>1. c \in DOMAIN decimal => decimal[c] \in STRING
    BY DecimalAssumption
  <1> QED
    BY <1>1 DEF Printed, Token

LEMMA WrittenType ==
  ASSUME NEW c \in Token
  PROVE  Written(c) \in Text
  <1>1. Printed(c) \in Token
    BY PrintedType
  <1> QED
    BY <1>1, Characters DEF Written, Text

LEMMA LegibleType ==
  ASSUME NEW t \in Text
  PROVE  /\ Legible(t) \in Text /\ Len(Legible(t)) = Len(t)
         /\ \A i \in 1 .. Len(t) : Legible(t)[i] = Printed(t[i])
  <1> DEFINE n == Len(t)
             f == Legible(t)
  <1>1. n \in Nat /\ DOMAIN t = 1 .. n /\ \A i \in 1 .. n : t[i] \in Token
    BY DEF Text
  <1>2. f = [i \in 1 .. n |-> f[i]] /\ \A i \in 1 .. n : f[i] = Printed(t[i])
    BY <1>1 DEF Legible
  <1>3. \A i \in 1 .. n : f[i] \in Token
    BY <1>1, <1>2, PrintedType
  <1> HIDE DEF n, f
  <1>4. f \in Seq(Token) /\ Len(f) = n
    BY <1>1, <1>2, <1>3, FunctionIsSequence
  <1> QED
    BY <1>2, <1>4 DEF Text, n, f

\* Token by token, and text by text.
LEMMA LegibleJoin ==
  /\ Legible(<<>>) = <<>>
  /\ \A c \in Token : Legible(<<c>>) = << Printed(c) >>
  /\ \A a, b \in Text : Legible(a \o b) = Legible(a) \o Legible(b)
  <1>1. Legible(<<>>) = <<>>
    <2>1. <<>> \in Text /\ Len(<<>>) = 0
      BY DEF Text
    <2>2. Legible(<<>>) \in Seq(Token) /\ Len(Legible(<<>>)) = 0
      BY <2>1, LegibleType DEF Text
    <2> QED
      BY <2>2
  <1>2. ASSUME NEW c \in Token PROVE Legible(<<c>>) = << Printed(c) >>
    <2> DEFINE t == <<c>>
    <2>1. t \in Text /\ Len(t) = 1 /\ 1 \in 1 .. Len(t) /\ t[1] = c
      BY DEF Text
    <2> HIDE DEF t
    <2>2. Legible(t) \in Seq(Token) /\ Len(Legible(t)) = 1 /\ Legible(t)[1] = Printed(c)
      BY <2>1, LegibleType DEF Text
    <2>3. Legible(t) = << Printed(c) >>
      <3>1. \A u : u \in Seq(Token) /\ Len(u) = 1 => u = << u[1] >>
        OBVIOUS
      <3> QED
        BY <2>2, <3>1
    <2> QED
      BY <2>3 DEF t
  <1>3. ASSUME NEW a \in Text, NEW b \in Text
        PROVE  Legible(a \o b) = Legible(a) \o Legible(b)
    <2> DEFINE w == a \o b
               u == Legible(a)
               v == Legible(b)
               m == Len(a)
               n == Len(b)
    <2>1. /\ w \in Text /\ Len(w) = m + n /\ m \in Nat /\ n \in Nat
          /\ \A i \in 1 .. m : w[i] = a[i]
          /\ \A i \in m + 1 .. m + n : w[i] = b[i - m]
      BY DEF Text
    <2>2. /\ u \in Text /\ Len(u) = m /\ \A i \in 1 .. m : u[i] = Printed(a[i])
          /\ v \in Text /\ Len(v) = n /\ \A i \in 1 .. n : v[i] = Printed(b[i])
      BY LegibleType
    <2> HIDE DEF w, u, v, m, n
    <2>3. /\ Legible(w) \in Seq(Token) /\ Len(Legible(w)) = m + n
          /\ \A i \in 1 .. m + n : Legible(w)[i] = Printed(w[i])
      BY <2>1, LegibleType DEF Text
    <2>4. /\ u \o v \in Seq(Token) /\ Len(u \o v) = m + n
          /\ \A i \in 1 .. m : (u \o v)[i] = u[i]
          /\ \A i \in m + 1 .. m + n : (u \o v)[i] = v[i - m]
      <3>1. \A y, z \in Seq(Token) :
               /\ y \o z \in Seq(Token) /\ Len(y \o z) = Len(y) + Len(z)
               /\ \A i \in 1 .. Len(y) : (y \o z)[i] = y[i]
               /\ \A i \in Len(y) + 1 .. Len(y) + Len(z) : (y \o z)[i] = z[i - Len(y)]
        OBVIOUS
      <3> QED
        BY <2>2, <3>1 DEF Text
    <2>5. ASSUME NEW i \in 1 .. m + n PROVE Legible(w)[i] = (u \o v)[i]
      <3>1. CASE i \in 1 .. m
        BY <2>1, <2>2, <2>3, <2>4, <3>1
      <3>2. CASE i \notin 1 .. m
        <4>1. i \in m + 1 .. m + n /\ i - m \in 1 .. n
          BY <2>1, <3>2
        <4> QED
          BY <2>1, <2>2, <2>3, <2>4, <4>1
      <3> QED
        BY <3>1, <3>2
    <2>6. \A x, y \in Seq(Token) :
             Len(x) = Len(y) /\ (\A i \in 1 .. Len(x) : x[i] = y[i]) => x = y
      OBVIOUS
    <2> QED
      BY <2>3, <2>4, <2>5, <2>6 DEF w, u, v
  <1> QED
    BY <1>1, <1>2, <1>3

LEMMA EscapedNext ==
  /\ Escaped(<<>>) = <<>>
  /\ \A t \in Text : Escaped(t) \in Text
  /\ \A t \in Text, c \in Token : Escaped(t \o <<c>>) = Escaped(t) \o Written(c)
  <1> DEFINE Parts(t) == [k \in DOMAIN t |-> Written(t[k])]
  <1>1. ASSUME NEW t \in Text
        PROVE  /\ Len(t) \in Nat /\ DOMAIN t = 1 .. Len(t)
               /\ Escaped(t) = Glued(Parts(t), Len(t))
               /\ \A k \in 1 .. Len(t) : Parts(t)[k] = Written(t[k]) /\ Parts(t)[k] \in Text
    <2>1. Len(t) \in Nat /\ DOMAIN t = 1 .. Len(t) /\ \A k \in 1 .. Len(t) : t[k] \in Token
      BY DEF Text
    <2>2. Escaped(t) = FlattenSeq(Parts(t))
      BY DEF Escaped, Written
    <2>3. Parts(t) = [k \in 1 .. Len(t) |-> Parts(t)[k]]
      BY <2>1
    <2>4. \A k \in 1 .. Len(t) : Parts(t)[k] = Written(t[k])
      BY <2>1
    <2> HIDE DEF Parts
    <2>5. FlattenSeq(Parts(t)) = Glued(Parts(t), Len(t))
      BY <2>3, FlattenIsGlued
    <2> QED
      BY <2>1, <2>2, <2>4, <2>5, WrittenType
  <1> HIDE DEF Parts
  <1>2. Escaped(<<>>) = <<>>
    <2>1. <<>> \in Text /\ Len(<<>>) = 0
      BY DEF Text
    <2>2. Escaped(<<>>) = Glued(Parts(<<>>), 0)
      BY <1>1, <2>1
    <2>3. Glued(Parts(<<>>), 0) = <<>>
      BY GluedUnfolds
    <2> QED
      BY <2>2, <2>3
  <1>3. ASSUME NEW t \in Text PROVE Escaped(t) \in Text
    <2>1. /\ Len(t) \in Nat /\ Len(t) \in 0 .. Len(t)
          /\ \A k \in 1 .. Len(t) : Parts(t)[k] \in Seq(Token)
      BY <1>1 DEF Text
    <2>2. Glued(Parts(t), Len(t)) \in Seq(Token)
      BY <2>1, GluedType
    <2> QED
      BY <1>1, <2>2 DEF Text
  <1>4. ASSUME NEW t \in Text, NEW c \in Token
        PROVE  Escaped(t \o <<c>>) = Escaped(t) \o Written(c)
    <2> DEFINE w == t \o <<c>>
               n == Len(t)
    <2>1. /\ w \in Text /\ n \in Nat /\ Len(w) = n + 1 /\ w[n + 1] = c
          /\ \A k \in 1 .. n : w[k] = t[k] /\ k \in 1 .. n + 1
          /\ n + 1 \in 1 .. n + 1
      BY DEF Text
    <2> HIDE DEF w
    <2>2. Escaped(w) = Glued(Parts(w), n + 1) /\ \A k \in 1 .. n + 1 : Parts(w)[k] \in Seq(Token)
      BY <1>1, <2>1 DEF Text
    <2>3. Glued(Parts(w), n + 1) = Glued(Parts(w), n) \o Parts(w)[n + 1]
      BY <2>1, <2>2, GluedNext
    <2>4. Parts(w)[n + 1] = Written(c)
      BY <1>1, <2>1
    <2>5. \A k \in 1 .. n : Parts(w)[k] = Parts(t)[k]
      BY <1>1, <2>1
    <2>6. Glued(Parts(w), n) = Glued(Parts(t), n)
      BY <2>1, <2>5, GluedSame
    <2> QED
      BY <1>1, <2>2, <2>3, <2>4, <2>6 DEF w
  <1> QED
    BY <1>2, <1>3, <1>4

\* Escaping goes token by token.
LEMMA EscapedJoin ==
  ASSUME NEW a \in Text, NEW b \in Text
  PROVE  Escaped(a \o b) = Escaped(a) \o Escaped(b)
  <1> DEFINE n == Len(b)
             Pre(m) == SubSeq(b, 1, m)
             K == {m \in 0 .. n : Escaped(a \o Pre(m)) = Escaped(a) \o Escaped(Pre(m))}
  <1>1. /\ n \in Nat /\ Pre(0) = <<>> /\ Pre(n) = b
        /\ \A m \in 0 .. n : Pre(m) \in Text
        /\ \A m \in 0 .. n - 1 : b[m + 1] \in Token /\ Pre(m + 1) = Pre(m) \o << b[m + 1] >>
    BY TextGrows DEF Text
  <1> HIDE DEF n, Pre
  <1>2. 0 \in K
    <2>1. a \o <<>> = a /\ Escaped(a) \in Text /\ 0 \in 0 .. n
      BY <1>1, EscapedNext DEF Text
    <2>2. Escaped(a) \o <<>> = Escaped(a)
      BY <2>1 DEF Text
    <2> QED
      BY <1>1, <2>1, <2>2, EscapedNext
  <1>3. ASSUME NEW m \in 0 .. n - 1, m \in K PROVE m + 1 \in K
    <2>1. m \in 0 .. n /\ m + 1 \in 0 .. n
      BY <1>1
    <2> DEFINE p == Pre(m)
               c == b[m + 1]
    <2>2. p \in Text /\ c \in Token /\ Pre(m + 1) = p \o <<c>>
      BY <1>1, <2>1
    <2>3. Escaped(a \o p) = Escaped(a) \o Escaped(p)
      BY <1>3
    <2> HIDE DEF p, c
    <2>4. a \o p \in Text /\ a \o (p \o <<c>>) = (a \o p) \o <<c>>
      BY <2>2 DEF Text
    <2>5. Escaped(a \o (p \o <<c>>)) = (Escaped(a) \o Escaped(p)) \o Written(c)
      BY <2>2, <2>3, <2>4, EscapedNext
    <2>6. Escaped(p \o <<c>>) = Escaped(p) \o Written(c)
      BY <2>2, EscapedNext
    <2>7. Escaped(a) \in Text /\ Escaped(p) \in Text /\ Written(c) \in Text
      BY <2>2, EscapedNext, WrittenType
    <2>8. (Escaped(a) \o Escaped(p)) \o Written(c) = Escaped(a) \o (Escaped(p) \o Written(c))
      BY <2>7, SMTT(40) DEF Text
    <2> QED
      BY <2>1, <2>2, <2>5, <2>6, <2>8
  <1>4. n \in K
    <2>1. n \in 0 .. n
      BY <1>1
    <2> HIDE DEF K
    <2> QED
      BY <1>1, <1>2, <1>3, <2>1, CountInduction
  <1> QED
    BY <1>1, <1>4

\* The strings of a record, one after the other.
LEMMA StringsGlued ==
  ASSUME NEW strings \in Seq(Text)
  PROVE  /\ Len(strings) \in Nat /\ DOMAIN strings = 1 .. Len(strings)
         /\ \A k \in 1 .. Len(strings) : strings[k] \in Text
         /\ FlattenSeq(strings) = Glued(strings, Len(strings))
         /\ \A m \in 0 .. Len(strings) : Glued(strings, m) \in Text
         /\ \A m \in 0 .. Len(strings) - 1 :
               Glued(strings, m + 1) = Glued(strings, m) \o strings[m + 1]
  <1> DEFINE n == Len(strings)
  <1>1. n \in Nat /\ DOMAIN strings = 1 .. n /\ \A k \in 1 .. n : strings[k] \in Text
    OBVIOUS
  <1>2. strings = [k \in 1 .. n |-> strings[k]]
    OBVIOUS
  <1> HIDE DEF n
  <1>3. FlattenSeq(strings) = Glued(strings, n)
    BY <1>2, FlattenIsGlued
  <1>4. \A k \in 1 .. n : strings[k] \in Seq(Token)
    BY <1>1 DEF Text
  <1>5. \A m \in 0 .. n : Glued(strings, m) \in Text
    BY <1>1, <1>4, GluedType DEF Text
  <1>6. ASSUME NEW m \in 0 .. n - 1
        PROVE  Glued(strings, m + 1) = Glued(strings, m) \o strings[m + 1]
    <2>1. m \in Nat /\ \A k \in 1 .. m + 1 : k \in 1 .. n
      BY <1>1
    <2>2. \A k \in 1 .. m + 1 : strings[k] \in Seq(Token)
      BY <1>4, <2>1
    <2> QED
      BY <2>1, <2>2, GluedNext
  <1> QED
    BY <1>1, <1>3, <1>5, <1>6 DEF n

\* Over UDP a probe sees the strings together, with their escapes.
LEMMA TxtIsEscaped ==
  ASSUME NEW strings \in Seq(Text)
  PROVE  FlattenSeq(Txt(strings)) = Escaped(FlattenSeq(strings))
  <1> DEFINE n == Len(strings)
             txt == Txt(strings)
             K == {m \in 0 .. n : Glued(txt, m) = Escaped(Glued(strings, m))}
  <1>1. /\ n \in Nat /\ DOMAIN strings = 1 .. n /\ \A k \in 1 .. n : strings[k] \in Text
        /\ FlattenSeq(strings) = Glued(strings, n)
        /\ \A m \in 0 .. n : Glued(strings, m) \in Text
        /\ \A m \in 0 .. n - 1 : Glued(strings, m + 1) = Glued(strings, m) \o strings[m + 1]
    BY StringsGlued
  <1> HIDE DEF n
  <1>2. txt = [k \in 1 .. n |-> Escaped(strings[k])]
    BY <1>1 DEF Txt
  <1> HIDE DEF txt
  <1>3. /\ txt = [k \in 1 .. n |-> txt[k]]
        /\ \A k \in 1 .. n : txt[k] = Escaped(strings[k]) /\ txt[k] \in Seq(Token)
    <2>1. \A k \in 1 .. n : txt[k] = Escaped(strings[k])
      BY <1>2
    <2>2. \A k \in 1 .. n : Escaped(strings[k]) \in Text
      BY <1>1, EscapedNext
    <2>3. txt = [k \in 1 .. n |-> txt[k]]
      BY <1>2
    <2> QED
      BY <2>1, <2>2, <2>3 DEF Text
  <1>4. FlattenSeq(txt) = Glued(txt, n)
    BY <1>3, FlattenIsGlued
  <1>5. 0 \in K
    <2>1. 0 \in 0 .. n /\ Glued(txt, 0) = <<>> /\ Glued(strings, 0) = <<>>
      BY <1>1, GluedUnfolds
    <2> QED
      BY <2>1, EscapedNext
  <1>6. ASSUME NEW m \in 0 .. n - 1, m \in K PROVE m + 1 \in K
    <2>1. m \in Nat /\ m \in 0 .. n /\ m + 1 \in 0 .. n /\ m + 1 \in 1 .. n
          /\ \A k \in 1 .. m + 1 : k \in 1 .. n
      BY <1>1
    <2>2. Glued(txt, m + 1) = Glued(txt, m) \o txt[m + 1]
      <3>1. \A k \in 1 .. m + 1 : txt[k] \in Seq(Token)
        BY <1>3, <2>1
      <3> QED
        BY <2>1, <3>1, GluedNext
    <2>3. Glued(txt, m) = Escaped(Glued(strings, m)) /\ txt[m + 1] = Escaped(strings[m + 1])
      BY <1>3, <1>6, <2>1
    <2>4. Glued(strings, m) \in Text /\ strings[m + 1] \in Text
      BY <1>1, <2>1
    <2>5. Escaped(Glued(strings, m) \o strings[m + 1]) =
             Escaped(Glued(strings, m)) \o Escaped(strings[m + 1])
      BY <2>4, EscapedJoin
    <2> QED
      BY <1>1, <2>1, <2>2, <2>3, <2>5
  <1>7. n \in K
    <2>1. n \in 0 .. n
      BY <1>1
    <2> HIDE DEF K
    <2> QED
      BY <1>1, <1>5, <1>6, <2>1, CountInduction
  <1> QED
    BY <1>1, <1>4, <1>7 DEF txt

\* The state of the decoder, by place and text so far.
At(place, text) == [at |-> place, text |-> text]
Place == {"between", "inside", "escape", "bad"}
State == [at : Place, text : Text]

LEMMA StateType ==
  /\ \A place \in Place, x \in Text : At(place, x) \in State
  /\ \A state \in State, c \in Token : DecodeStep(state, c) \in State
  <1>1. \A place \in Place, x \in Text : At(place, x) \in State
    BY DEF At, State
  <1>2. ASSUME NEW state \in State, NEW c \in Token PROVE DecodeStep(state, c) \in State
    <2>1. /\ state = [at |-> state.at, text |-> state.text]
          /\ state.at \in Place /\ state.text \in Text
      BY DEF State
    <2>2. Append(state.text, c) \in Text
      BY <2>1 DEF Text
    <2> QED
      BY <2>1, <2>2 DEF DecodeStep, State, Place
  <1> QED
    BY <1>1, <1>2

LEMMA DecodeSteps ==
  ASSUME NEW x \in Text
  PROVE  /\ DecodeStep(At("between", x), Space) = At("between", x)
         /\ DecodeStep(At("between", x), Quote) = At("inside", x)
         /\ DecodeStep(At("inside", x), Backslash) = At("escape", x)
         /\ DecodeStep(At("inside", x), Quote) = At("between", x)
         /\ \A c \in Token :
               /\ c \notin {Quote, Backslash} =>
                     DecodeStep(At("inside", x), c) = At("inside", x \o <<c>>)
               /\ DecodeStep(At("escape", x), c) = At("inside", x \o <<c>>)
  <1>1. \A c \in Token : Append(x, c) = x \o <<c>>
    BY DEF Text
  <1> QED
    BY <1>1, Characters DEF At, DecodeStep

\* The state after a value.
Decoded(v) == FoldLeft(DecodeStep, [at |-> "between", text |-> <<>>], v)

\* The recursion of the decoder, on sets of positions of a value.
DecodeSolves(g, v) ==
    g = [S \in SUBSET (DOMAIN v) |->
            IF S = {} THEN [at |-> "between", text |-> <<>>]
            ELSE DecodeStep(g[S \ {Max(S)}], v[Max(S)])]

LEMMA DecodeSolvable ==
  ASSUME NEW v \in Text
  PROVE  \E g : DecodeSolves(g, v)
  <1> DEFINE F == [state \in State |-> [c \in Token |-> DecodeStep(state, c)]]
             n == Len(v)
             base == [at |-> "between", text |-> <<>>]
  <1>1. Operation(F, State, Token)
    BY StateType DEF Operation
  <1>2. \A state \in State, c \in Token : F[state][c] = DecodeStep(state, c)
    OBVIOUS
  <1>3. n \in Nat /\ DOMAIN v = 1 .. n /\ \A k \in 1 .. n : v[k] \in Token
    BY DEF Text
  <1>4. base \in State
    <2>1. <<>> \in Text
      BY DEF Text
    <2> QED
      BY <2>1 DEF State, Place
  <1> HIDE DEF F, n, base
  <1>5. PICK g \in [SUBSET (1 .. n) -> State] : FoldSolves(g, F, base, v, n)
    <2>1. HasFold(F, State, base, v, n)
      BY <1>1, <1>3, <1>4, FoldSolvable
    <2> QED
      BY <2>1 DEF HasFold
  <1>6. ASSUME NEW S \in SUBSET (1 .. n)
        PROVE  g[S] = IF S = {} THEN base ELSE DecodeStep(g[S \ {Max(S)}], v[Max(S)])
    <2>1. g[S] = IF S = {} THEN base ELSE F[g[S \ {Max(S)}]][v[Max(S)]]
      BY <1>5 DEF FoldSolves
    <2>2. ASSUME S # {}
          PROVE  F[g[S \ {Max(S)}]][v[Max(S)]] = DecodeStep(g[S \ {Max(S)}], v[Max(S)])
      <3>1. Max(S) \in 1 .. n
        BY <1>3, <2>2, MaxIsLast
      <3>2. g[S \ {Max(S)}] \in State /\ v[Max(S)] \in Token
        BY <1>3, <1>5, <3>1
      <3> QED
        BY <1>2, <3>2
    <2> QED
      BY <2>1, <2>2
  <1>7. g = [S \in SUBSET (1 .. n) |-> g[S]]
    BY <1>5
  <1>8. g = [S \in SUBSET (1 .. n) |->
                IF S = {} THEN base ELSE DecodeStep(g[S \ {Max(S)}], v[Max(S)])]
    BY <1>6, <1>7
  <1>9. DecodeSolves(g, v)
    BY <1>3, <1>8 DEF DecodeSolves, base
  <1> QED
    BY <1>9

\* FoldLeft decodes.
LEMMA DecodedNext ==
  /\ Decoded(<<>>) = At("between", <<>>)
  /\ \A v \in Text, c \in Token : Decoded(v \o <<c>>) = DecodeStep(Decoded(v), c)
  <1>1. ASSUME NEW v \in Text
        PROVE  \E g : DecodeSolves(g, v) /\ Decoded(v) = g[1 .. Len(v)]
    <2> DEFINE iter[S \in SUBSET (DOMAIN v)] ==
                 IF S = {} THEN [at |-> "between", text |-> <<>>]
                 ELSE DecodeStep(iter[S \ {Max(S)}], v[Max(S)])
    <2>1. \E g : g = [S \in SUBSET (DOMAIN v) |->
                         IF S = {} THEN [at |-> "between", text |-> <<>>]
                         ELSE DecodeStep(g[S \ {Max(S)}], v[Max(S)])]
      BY DecodeSolvable DEF DecodeSolves
    <2>2. iter = [S \in SUBSET (DOMAIN v) |->
                     IF S = {} THEN [at |-> "between", text |-> <<>>]
                     ELSE DecodeStep(iter[S \ {Max(S)}], v[Max(S)])]
      BY <2>1
    <2>3. Decoded(v) = iter[DOMAIN v]
      BY DEF Decoded, FoldLeft, MapThenFoldSet
    <2> HIDE DEF iter
    <2>4. DecodeSolves(iter, v)
      BY <2>2 DEF DecodeSolves
    <2>5. DOMAIN v = 1 .. Len(v)
      BY DEF Text
    <2> QED
      BY <2>3, <2>4, <2>5
  <1>2. ASSUME NEW v \in Text, NEW g, DecodeSolves(g, v)
        PROVE  /\ g[1 .. 0] = At("between", <<>>)
               /\ \A k \in 1 .. Len(v) : g[1 .. k] = DecodeStep(g[1 .. k - 1], v[k])
    <2>1. Len(v) \in Nat /\ DOMAIN v = 1 .. Len(v)
      BY DEF Text
    <2>2. ASSUME NEW S \in SUBSET (1 .. Len(v))
          PROVE  g[S] = IF S = {} THEN [at |-> "between", text |-> <<>>]
                        ELSE DecodeStep(g[S \ {Max(S)}], v[Max(S)])
      BY <1>2, <2>1 DEF DecodeSolves
    <2>3. 1 .. 0 = {} /\ 1 .. 0 \in SUBSET (1 .. Len(v))
      OBVIOUS
    <2>4. g[1 .. 0] = At("between", <<>>)
      BY <2>2, <2>3 DEF At
    <2>5. ASSUME NEW k \in 1 .. Len(v) PROVE g[1 .. k] = DecodeStep(g[1 .. k - 1], v[k])
      <3>1. /\ 1 .. k \in SUBSET (1 .. Len(v)) /\ 1 .. k # {} /\ Max(1 .. k) = k
            /\ (1 .. k) \ {k} = 1 .. k - 1
        BY <2>1, Segments
      <3> QED
        BY <2>2, <3>1
    <2> QED
      BY <2>4, <2>5
  <1>3. Decoded(<<>>) = At("between", <<>>)
    <2>1. <<>> \in Text /\ Len(<<>>) = 0
      BY DEF Text
    <2> QED
      BY <1>1, <1>2, <2>1
  <1>4. ASSUME NEW v \in Text, NEW c \in Token
        PROVE  Decoded(v \o <<c>>) = DecodeStep(Decoded(v), c)
    <2> DEFINE w == v \o <<c>>
               n == Len(v)
    <2>1. /\ w \in Text /\ n \in Nat /\ Len(w) = n + 1 /\ w[n + 1] = c
          /\ \A k \in 1 .. n : w[k] = v[k]
      BY DEF Text
    <2> HIDE DEF w
    <2>2. PICK g : DecodeSolves(g, v) /\ Decoded(v) = g[1 .. n]
      BY <1>1
    <2>3. PICK h : DecodeSolves(h, w) /\ Decoded(w) = h[1 .. n + 1]
      BY <1>1, <2>1
    <2>4. /\ g[1 .. 0] = h[1 .. 0]
          /\ \A k \in 1 .. n : g[1 .. k] = DecodeStep(g[1 .. k - 1], v[k])
          /\ \A k \in 1 .. n + 1 : h[1 .. k] = DecodeStep(h[1 .. k - 1], w[k])
      BY <1>2, <2>1, <2>2, <2>3
    <2> DEFINE K == {m \in 0 .. n : g[1 .. m] = h[1 .. m]}
    <2>5. 0 \in K
      BY <2>1, <2>4
    <2>6. ASSUME NEW m \in 0 .. n - 1, m \in K PROVE m + 1 \in K
      <3>1. m + 1 \in 1 .. n /\ m + 1 \in 1 .. n + 1 /\ m + 1 \in 0 .. n /\ (m + 1) - 1 = m
        BY <2>1
      <3>2. g[1 .. m] = h[1 .. m]
        BY <2>6
      <3>3. g[1 .. m + 1] = DecodeStep(g[1 .. m], v[m + 1])
        BY <2>4, <3>1
      <3>4. h[1 .. m + 1] = DecodeStep(h[1 .. m], w[m + 1])
        BY <2>4, <3>1
      <3> QED
        BY <2>1, <3>1, <3>2, <3>3, <3>4
    <2>7. g[1 .. n] = h[1 .. n]
      <3>1. n \in 0 .. n
        BY <2>1
      <3>2. n \in K
        <4> HIDE DEF K, n
        <4> QED
          BY <2>1, <2>5, <2>6, <3>1, CountInduction
      <3> QED
        BY <3>2
    <2>8. h[1 .. n + 1] = DecodeStep(h[1 .. n], c)
      <3>1. n + 1 \in 1 .. n + 1 /\ (n + 1) - 1 = n
        BY <2>1
      <3> QED
        BY <2>1, <2>4, <3>1
    <2> QED
      BY <2>2, <2>3, <2>7, <2>8 DEF w
  <1> QED
    BY <1>3, <1>4

LEMMA TwoTokens ==
  ASSUME NEW y \in Token, NEW z \in Token
  PROVE  <<y, z>> = <<y>> \o <<z>>
  <1> DEFINE u == <<y, z>>
             a == <<y>>
             b == <<z>>
             w == a \o b
  <1>1. u \in Seq(Token) /\ Len(u) = 2 /\ u[1] = y /\ u[2] = z
    OBVIOUS
  <1>2. /\ a \in Seq(Token) /\ Len(a) = 1 /\ a[1] = y
        /\ b \in Seq(Token) /\ Len(b) = 1 /\ b[1] = z
    OBVIOUS
  <1> HIDE DEF u, a, b
  <1>3. w \in Seq(Token) /\ Len(w) = 2 /\ w[1] = y /\ w[2] = z
    BY <1>2 DEF a, b
  <1> HIDE DEF w
  <1>4. u = w
    BY <1>1, <1>3
  <1> QED
    BY <1>4 DEF u, a, b, w

\* Inside a string the decoder takes the backslashes away again.
LEMMA WrittenIsRead ==
  ASSUME NEW v \in Text, NEW x \in Text, Decoded(v) = At("inside", x), NEW c \in Token
  PROVE  Decoded(v \o Written(c)) = At("inside", x \o << Printed(c) >>)
  <1> DEFINE d == Printed(c)
  <1>3. d \in Token /\ (c \notin DOMAIN decimal => d = c)
    BY PrintedType
  <1>1. CASE c \notin {Quote, Backslash} \cup DOMAIN decimal
    <2>1. Decoded(v \o <<c>>) = DecodeStep(Decoded(v), c)
      BY DecodedNext
    <2>2. d = c
      BY <1>1, <1>3
    <2> HIDE DEF d
    <2> QED
      BY <1>1, <2>1, <2>2, DecodeSteps DEF Written, d
  <1>2. CASE c \in {Quote, Backslash} \cup DOMAIN decimal
    <2> HIDE DEF d
    <2>1. Backslash \in Token /\ v \o <<Backslash>> \in Text
      BY Characters DEF Text
    <2>2. v \o <<Backslash, d>> = (v \o <<Backslash>>) \o <<d>>
      <3>1. ASSUME NEW y \in Token, NEW z \in Token
            PROVE  v \o <<y, z>> = (v \o <<y>>) \o <<z>>
        <4>1. v \o (<<y>> \o <<z>>) = (v \o <<y>>) \o <<z>>
          BY DEF Text
        <4> QED
          BY <4>1, TwoTokens
      <3> QED
        BY <1>3, <2>1, <3>1
    <2>3. Decoded(v \o <<Backslash>>) = At("escape", x)
      BY <2>1, DecodedNext, DecodeSteps
    <2>4. Decoded((v \o <<Backslash>>) \o <<d>>) = DecodeStep(At("escape", x), d)
      BY <1>3, <2>1, <2>3, DecodedNext
    <2>5. DecodeStep(At("escape", x), d) = At("inside", x \o <<d>>)
      BY <1>3, DecodeSteps
    <2> QED
      BY <1>2, <2>2, <2>4, <2>5 DEF Written, d
  <1> QED
    BY <1>1, <1>2

LEMMA EscapedIsRead ==
  ASSUME NEW v \in Text, NEW x \in Text, Decoded(v) = At("inside", x), NEW t \in Text
  PROVE  Decoded(v \o Escaped(t)) = At("inside", x \o Legible(t))
  <1> DEFINE n == Len(t)
             Pre(m) == SubSeq(t, 1, m)
             K == {m \in 0 .. n :
                      Decoded(v \o Escaped(Pre(m))) = At("inside", x \o Legible(Pre(m)))}
  <1>1. /\ n \in Nat /\ Pre(0) = <<>> /\ Pre(n) = t
        /\ \A m \in 0 .. n : Pre(m) \in Text
        /\ \A m \in 0 .. n - 1 : t[m + 1] \in Token /\ Pre(m + 1) = Pre(m) \o << t[m + 1] >>
    BY TextGrows DEF Text
  <1> HIDE DEF n, Pre
  <1>2. 0 \in K
    <2>1. v \o <<>> = v /\ x \o <<>> = x /\ 0 \in 0 .. n
      BY <1>1 DEF Text
    <2> QED
      BY <1>1, <2>1, EscapedNext, LegibleJoin
  <1>3. ASSUME NEW m \in 0 .. n - 1, m \in K PROVE m + 1 \in K
    <2>1. m \in 0 .. n /\ m + 1 \in 0 .. n
      BY <1>1
    <2> DEFINE p == Pre(m)
               c == t[m + 1]
    <2>2. p \in Text /\ c \in Token /\ Pre(m + 1) = p \o <<c>>
      BY <1>1, <2>1
    <2>3. Decoded(v \o Escaped(p)) = At("inside", x \o Legible(p))
      BY <1>3
    <2> HIDE DEF p, c
    <2> DEFINE l == Legible(p)
               d == Printed(c)
    <2>4. Escaped(p) \in Text /\ Written(c) \in Text /\ l \in Text /\ d \in Token
      BY <2>2, EscapedNext, WrittenType, LegibleType, PrintedType
    <2>10. <<c>> \in Text /\ Legible(<<c>>) = <<d>>
      BY <2>2, LegibleJoin DEF Text
    <2>11. Legible(p \o <<c>>) = l \o <<d>>
      BY <2>2, <2>10, LegibleJoin
    <2> HIDE DEF l
    <2>5. v \o Escaped(p) \in Text /\ x \o l \in Text
      BY <2>4 DEF Text
    <2>6. v \o (Escaped(p) \o Written(c)) = (v \o Escaped(p)) \o Written(c)
      BY <2>4 DEF Text
    <2>7. x \o (l \o <<d>>) = (x \o l) \o <<d>>
      <3> HIDE DEF d
      <3> QED
        BY <2>4 DEF Text
    <2>8. Decoded((v \o Escaped(p)) \o Written(c)) = At("inside", (x \o l) \o <<d>>)
      <3>1. Decoded(v \o Escaped(p)) = At("inside", x \o l)
        BY <2>3 DEF l
      <3> QED
        BY <2>2, <2>5, <3>1, WrittenIsRead
    <2>9. Escaped(p \o <<c>>) = Escaped(p) \o Written(c)
      BY <2>2, EscapedNext
    <2> HIDE DEF d
    <2> QED
      BY <2>1, <2>2, <2>6, <2>7, <2>8, <2>9, <2>11
  <1>4. n \in K
    <2>1. n \in 0 .. n
      BY <1>1
    <2> HIDE DEF K
    <2> QED
      BY <1>1, <1>2, <1>3, <2>1, CountInduction
  <1> QED
    BY <1>1, <1>4

\* A string in its quotes.
Quoted(gap, t) == gap \o <<Quote>> \o Escaped(t) \o <<Quote>>

\* Between strings the decoder takes the next string with its quotes.
LEMMA StringIsRead ==
  ASSUME NEW v \in Text, NEW x \in Text, Decoded(v) = At("between", x), NEW t \in Text,
         NEW gap \in {<<>>, <<Space>>}
  PROVE  /\ Quoted(gap, t) \in Text
         /\ Decoded(v \o Quoted(gap, t)) = At("between", x \o Legible(t))
  <1> DEFINE e == Escaped(t)
             v1 == v \o gap
             v2 == v1 \o <<Quote>>
             v3 == v2 \o e
  <1>1. gap \in Text /\ e \in Text /\ Quote \in Token /\ Space \in Token
    <2>1. Quote \in Token /\ Space \in Token
      BY Characters
    <2>2. e \in Text
      BY EscapedNext
    <2>3. CASE gap = <<>>
      BY <2>1, <2>2, <2>3 DEF Text
    <2>4. CASE gap = <<Space>>
      <3>1. <<Space>> \in Text
        BY <2>1 DEF Text
      <3> QED
        BY <2>1, <2>2, <2>4, <3>1
    <2> QED
      BY <2>3, <2>4
  <1> HIDE DEF e
  <1>2. v1 \in Text /\ v2 \in Text /\ v3 \in Text
    BY <1>1 DEF Text
  <1>3. gap \o <<Quote>> \o e \o <<Quote>> \in Text
    BY <1>1 DEF Text
  <1>4. v \o (gap \o <<Quote>> \o e \o <<Quote>>) = v3 \o <<Quote>>
    BY <1>1 DEF Text
  <1>5. Decoded(v1) = At("between", x)
    <2>1. CASE gap = <<>>
      <3>1. v1 = v
        BY <2>1 DEF Text
      <3> QED
        BY <3>1
    <2>2. CASE gap = <<Space>>
      <3>1. Decoded(v \o <<Space>>) = DecodeStep(Decoded(v), Space)
        BY <1>1, DecodedNext
      <3> QED
        BY <2>2, <3>1, DecodeSteps
    <2> QED
      BY <2>1, <2>2
  <1> HIDE DEF v1
  <1>6. Decoded(v2) = At("inside", x)
    BY <1>1, <1>2, <1>5, DecodedNext, DecodeSteps
  <1> HIDE DEF v2
  <1>7. Decoded(v3) = At("inside", x \o Legible(t))
    BY <1>2, <1>6, EscapedIsRead DEF e
  <1> HIDE DEF v3
  <1>8. x \o Legible(t) \in Text
    <2>1. Legible(t) \in Text
      BY LegibleType
    <2> QED
      BY <2>1 DEF Text
  <1>9. Decoded(v3 \o <<Quote>>) = At("between", x \o Legible(t))
    BY <1>1, <1>2, <1>7, <1>8, DecodedNext, DecodeSteps
  <1> QED
    BY <1>3, <1>4, <1>9 DEF e, Quoted

\* doh.go:126-168: decodeTXTPresentation gives back the strings of a record,
\* glued together, whatever they contain, but for the bytes that cannot be printed:
\* of those it gives the three digits.
THEOREM PresentationIsReversed ==
  ASSUME NEW strings \in Seq(Text)
  PROVE  decodeTXTPresentation(Value(strings)) =
            [ok |-> TRUE, text |-> Legible(FlattenSeq(strings))]
  <1> DEFINE n == Len(strings)
             gap(k) == IF k = 1 THEN <<>> ELSE <<Space>>
             part(k) == Quoted(gap(k), strings[k])
             parts == [k \in DOMAIN strings |-> part(k)]
             K == {m \in 0 .. n : /\ Glued(parts, m) \in Text
                                  /\ Decoded(Glued(parts, m)) =
                                        At("between", Legible(Glued(strings, m)))}
  <1>1. /\ n \in Nat /\ DOMAIN strings = 1 .. n /\ \A k \in 1 .. n : strings[k] \in Text
        /\ FlattenSeq(strings) = Glued(strings, n)
        /\ \A m \in 0 .. n : Glued(strings, m) \in Text
        /\ \A m \in 0 .. n - 1 : Glued(strings, m + 1) = Glued(strings, m) \o strings[m + 1]
    BY StringsGlued
  <1> HIDE DEF n
  <1>2. Value(strings) = FlattenSeq(parts)
    BY DEF Value, Quoted
  <1>3. ASSUME NEW k \in 1 .. n PROVE gap(k) \in {<<>>, <<Space>>}
    OBVIOUS
  <1> HIDE DEF gap
  <1>4. parts = [k \in 1 .. n |-> parts[k]] /\ \A k \in 1 .. n : parts[k] = part(k)
    BY <1>1
  <1> HIDE DEF parts
  <1>5. FlattenSeq(parts) = Glued(parts, n)
    BY <1>4, FlattenIsGlued
  <1>6. <<>> \in Text /\ Decoded(<<>>) = At("between", <<>>)
    BY DecodedNext DEF Text
  <1>7. \A k \in 1 .. n : part(k) \in Text
    <2> TAKE k \in 1 .. n
    <2>1. strings[k] \in Text
      BY <1>1
    <2> QED
      BY <1>3, <1>6, <2>1, StringIsRead
  <1>8. 0 \in K
    <2>1. 0 \in 0 .. n /\ Glued(parts, 0) = <<>> /\ Glued(strings, 0) = <<>>
      BY <1>1, GluedUnfolds
    <2> QED
      BY <1>6, <2>1, LegibleJoin
  <1>9. ASSUME NEW m \in 0 .. n - 1, m \in K PROVE m + 1 \in K
    <2>1. m \in Nat /\ m \in 0 .. n /\ m + 1 \in 0 .. n /\ m + 1 \in 1 .. n
          /\ \A k \in 1 .. m + 1 : k \in 1 .. n
      BY <1>1
    <2>2. Glued(parts, m + 1) = Glued(parts, m) \o part(m + 1)
      <3>1. \A k \in 1 .. m + 1 : parts[k] \in Seq(Token)
        BY <1>4, <1>7, <2>1 DEF Text
      <3>2. Glued(parts, m + 1) = Glued(parts, m) \o parts[m + 1]
        BY <2>1, <3>1, GluedNext
      <3> QED
        BY <1>4, <2>1, <3>2
    <2>3. /\ Glued(parts, m) \in Text
          /\ Decoded(Glued(parts, m)) = At("between", Legible(Glued(strings, m)))
      BY <1>9
    <2>4. Glued(strings, m) \in Text /\ strings[m + 1] \in Text
      BY <1>1, <2>1
    <2>7. Legible(Glued(strings, m) \o strings[m + 1]) =
             Legible(Glued(strings, m)) \o Legible(strings[m + 1])
      BY <2>4, LegibleJoin
    <2>5. Decoded(Glued(parts, m) \o part(m + 1)) =
             At("between", Legible(Glued(strings, m)) \o Legible(strings[m + 1]))
      <3> DEFINE before == Glued(parts, m)
                 done == Legible(Glued(strings, m))
                 next == strings[m + 1]
      <3>1. gap(m + 1) \in {<<>>, <<Space>>}
        BY <1>3, <2>1
      <3>2. /\ before \in Text /\ done \in Text /\ next \in Text
            /\ Decoded(before) = At("between", done)
        BY <2>3, <2>4, LegibleType
      <3> HIDE DEF before, done, next
      <3>3. Decoded(before \o Quoted(gap(m + 1), next)) = At("between", done \o Legible(next))
        BY <3>1, <3>2, StringIsRead
      <3> QED
        BY <3>3 DEF before, done, next
    <2>6. Glued(parts, m) \o part(m + 1) \in Text
      <3>1. part(m + 1) \in Text
        BY <1>7, <2>1
      <3> HIDE DEF part
      <3> QED
        BY <2>3, <3>1 DEF Text
    <2> HIDE DEF part
    <2> QED
      BY <1>1, <2>1, <2>2, <2>5, <2>6, <2>7
  <1>10. n \in K
    <2>1. n \in 0 .. n
      BY <1>1
    <2> HIDE DEF K
    <2> QED
      BY <1>1, <1>8, <1>9, <2>1, CountInduction
  <1>11. Decoded(Value(strings)) = At("between", Legible(FlattenSeq(strings)))
    BY <1>1, <1>2, <1>5, <1>10
  <1>12. \A v : decodeTXTPresentation(v) =
                   [ok |-> Decoded(v).at = "between", text |-> Decoded(v).text]
    BY DEF decodeTXTPresentation, Decoded
  <1>13. \A text : At("between", text).at = "between" /\ At("between", text).text = text
    BY DEF At
  <1> QED
    BY <1>11, <1>12, <1>13
-----------------------------------------------------------------------------
(* Both transports tell the same.                                          *)

\* What a transport makes of one resource record.
Part(over, type, rr) ==
    CASE ~OfType(rr, type) -> <<>>
      [] OfType(rr, type) /\ over = "udp" -> UdpReads(rr)
      [] OfType(rr, type) /\ over = "doh" -> DohReads(rr)

\* The positions of a type's records.
Of(type, section) == {k \in DOMAIN section : section[k].type = type}

\* Where every record that counts is told as one element of s, they are told in
\* the order of the section.
LEMMA PartsArePicked ==
  ASSUME NEW section \in Seq(RR), NEW over, NEW type,
         NEW s, s = [k \in 1 .. Len(section) |-> s[k]],
         NEW P \in SUBSET (1 .. Len(section)),
         \A k \in 1 .. Len(section) :
            Part(over, type, section[k]) = IF k \in P THEN <<s[k]>> ELSE <<>>
  PROVE  Records(over, type, section) = Picked(s, P)
  <1> DEFINE n == Len(section)
             T == {s[k] : k \in 1 .. n}
             parts == [k \in DOMAIN section |-> Part(over, type, section[k])]
  <1>1. n \in Nat /\ DOMAIN section = 1 .. n
    OBVIOUS
  <1>2. s \in Seq(T) /\ Len(s) = n /\ DOMAIN s = 1 .. n
    <2>1. \A k \in 1 .. n : s[k] \in T
      OBVIOUS
    <2> HIDE DEF T
    <2> QED
      BY <1>1, <2>1
  <1>3. Records(over, type, section) = FlattenSeq(parts)
    BY DEF Records, Part
  <1>4. parts = [k \in 1 .. Len(s) |-> IF k \in P THEN <<s[k]>> ELSE <<>>]
    BY <1>1, <1>2
  <1> HIDE DEF parts, T
  <1>5. FlattenSeq(parts) = Picked(s, P)
    BY <1>2, <1>4, FlattenPicks
  <1> QED
    BY <1>3, <1>5

\* The same positions of two sequences.
LEMMA PickedAlike ==
  ASSUME NEW n \in Nat, NEW s, NEW u, NEW P \in SUBSET (1 .. n)
  PROVE  /\ Cardinality(P) \in Nat
         /\ Picked(s, P) = [k \in 1 .. Cardinality(P) |-> Picked(s, P)[k]]
         /\ \A k \in 1 .. Cardinality(P) :
               \E i \in P : Picked(s, P)[k] = s[i] /\ Picked(u, P)[k] = u[i]
  <1>1. Cardinality(P) \in Nat
    BY PositionsFinite
  <1>2. Picked(s, P) = [k \in 1 .. Cardinality(P) |-> Picked(s, P)[k]]
    BY DEF Picked
  <1>3. ASSUME NEW k \in 1 .. Cardinality(P)
        PROVE  \E i \in P : Picked(s, P)[k] = s[i] /\ Picked(u, P)[k] = u[i]
    <2> DEFINE i == CHOOSE i \in P : Cardinality(Below(P, i)) = k - 1
    <2>1. i \in P
      <3>1. \E j \in P : Cardinality(Below(P, j)) = k - 1
        BY RanksAreABijection
      <3> QED
        BY <3>1
    <2>2. Picked(s, P)[k] = s[i] /\ Picked(u, P)[k] = u[i]
      BY DEF Picked
    <2> QED
      BY <2>1, <2>2
  <1> QED
    BY <1>1, <1>2, <1>3

\* The strings of a TXT record.
LEMMA TextsOfRecords ==
  ASSUME NEW section \in Seq(RR), NEW k \in Of("TXT", section)
  PROVE  section[k].strings \in Seq(Text)
  <1>1. section[k] \in RR /\ section[k].type = "TXT"
    BY DEF Of
  <1>2. section[k] \in [type : {"TXT"}, strings : Seq(Seq(STRING))]
    BY <1>1 DEF RR
  <1>3. section[k].strings \in Seq(Seq(STRING))
    BY <1>2
  <1>4. Seq(STRING) \subseteq Text
    BY DEF Text, Token
  <1>5. \A T, U : T \subseteq U => Seq(T) \subseteq Seq(U)
    OBVIOUS
  <1> QED
    BY <1>3, <1>4, <1>5

\* The texts of a section over both.
LEMMA TextsAgree ==
  ASSUME NEW section \in Seq(RR)
  PROVE  LET texts == Picked(section, Of("TXT", section))
             doh   == Records("doh", "TXT", section)
             udp   == Records("udp", "TXT", section)
         IN  /\ doh = [k \in DOMAIN texts |-> Legible(FlattenSeq(texts[k].strings))]
             /\ udp = [k \in DOMAIN texts |-> Escaped(FlattenSeq(texts[k].strings))]
  <1> DEFINE n == Len(section)
             P == Of("TXT", section)
             text == [k \in 1 .. n |-> Legible(FlattenSeq(section[k].strings))]
             raw == [k \in 1 .. n |-> Escaped(FlattenSeq(section[k].strings))]
             texts == Picked(section, P)
             doh == Records("doh", "TXT", section)
             udp == Records("udp", "TXT", section)
  <1>1. n \in Nat /\ DOMAIN section = 1 .. n /\ P \in SUBSET (1 .. n)
    BY DEF Of
  <1>2. \A k \in 1 .. n : k \in P <=> OfType(section[k], "TXT")
    BY DEF Of, OfType
  <1>3. \A k \in P : section[k].type = "TXT" /\ section[k].strings \in Seq(Text)
    BY TextsOfRecords DEF Of
  <1>4. /\ text = [k \in 1 .. n |-> text[k]] /\ raw = [k \in 1 .. n |-> raw[k]]
        /\ \A k \in 1 .. n : /\ text[k] = Legible(FlattenSeq(section[k].strings))
                             /\ raw[k] = Escaped(FlattenSeq(section[k].strings))
    OBVIOUS
  <1> HIDE DEF n, P, text, raw
  <1>5. doh = Picked(text, P)
    <2>1. ASSUME NEW k \in 1 .. n
          PROVE  Part("doh", "TXT", section[k]) = IF k \in P THEN <<text[k]>> ELSE <<>>
      <3>1. CASE k \in P
        <4>1. decodeTXTPresentation(Value(section[k].strings)) = [ok |-> TRUE, text |-> text[k]]
          BY <1>3, <1>4, <3>1, PresentationIsReversed
        <4> QED
          BY <1>2, <1>3, <3>1, <4>1 DEF Part, DohReads
      <3>2. CASE k \notin P
        BY <1>2, <3>2 DEF Part
      <3> QED
        BY <3>1, <3>2
    <2>2. /\ text = [k \in 1 .. Len(section) |-> text[k]]
          /\ P \in SUBSET (1 .. Len(section))
          /\ \A k \in 1 .. Len(section) :
                Part("doh", "TXT", section[k]) = IF k \in P THEN <<text[k]>> ELSE <<>>
      BY <1>1, <1>4, <2>1 DEF n
    <2> QED
      BY <2>2, PartsArePicked
  <1>6. udp = Picked(raw, P)
    <2>1. ASSUME NEW k \in 1 .. n
          PROVE  Part("udp", "TXT", section[k]) = IF k \in P THEN <<raw[k]>> ELSE <<>>
      <3>1. CASE k \in P
        <4>1. FlattenSeq(Txt(section[k].strings)) = raw[k]
          BY <1>3, <1>4, <3>1, TxtIsEscaped
        <4> QED
          BY <1>2, <1>3, <3>1, <4>1 DEF Part, UdpReads
      <3>2. CASE k \notin P
        BY <1>2, <3>2 DEF Part
      <3> QED
        BY <3>1, <3>2
    <2>2. /\ raw = [k \in 1 .. Len(section) |-> raw[k]]
          /\ P \in SUBSET (1 .. Len(section))
          /\ \A k \in 1 .. Len(section) :
                Part("udp", "TXT", section[k]) = IF k \in P THEN <<raw[k]>> ELSE <<>>
      BY <1>1, <1>4, <2>1 DEF n
    <2> QED
      BY <2>2, PartsArePicked
  <1> DEFINE N == Cardinality(P)
  <1>7. /\ texts = [k \in 1 .. N |-> texts[k]]
        /\ doh = [k \in 1 .. N |-> doh[k]]
        /\ udp = [k \in 1 .. N |-> udp[k]]
    BY <1>1, <1>5, <1>6, PickedAlike
  <1>8. \A k \in 1 .. N : doh[k] = Legible(FlattenSeq(texts[k].strings))
    <2> TAKE k \in 1 .. N
    <2>1. PICK i \in P : texts[k] = section[i] /\ doh[k] = text[i]
      BY <1>1, <1>5, PickedAlike
    <2> QED
      BY <1>1, <1>4, <2>1
  <1>9. \A k \in 1 .. N : udp[k] = Escaped(FlattenSeq(texts[k].strings))
    <2> TAKE k \in 1 .. N
    <2>1. PICK i \in P : texts[k] = section[i] /\ udp[k] = raw[i]
      BY <1>1, <1>6, PickedAlike
    <2> QED
      BY <1>1, <1>4, <2>1
  <1>10. DOMAIN texts = 1 .. N
    BY <1>7
  <1> HIDE DEF texts, doh, udp, N
  <1>11. doh = [k \in DOMAIN texts |-> Legible(FlattenSeq(texts[k].strings))]
    BY <1>7, <1>8, <1>10
  <1>12. udp = [k \in DOMAIN texts |-> Escaped(FlattenSeq(texts[k].strings))]
    BY <1>7, <1>9, <1>10
  <1> QED
    BY <1>11, <1>12 DEF texts, doh, udp, P

\* The exchangers of a section over both.
LEMMA ExchangersAgree ==
  ASSUME NEW section \in Seq(RR)
  PROVE  LET udp == Records("udp", "MX", section)
         IN  Records("doh", "MX", section) =
                Picked(udp, {k \in DOMAIN udp : udp[k].host # <<>>})
  <1> DEFINE n == Len(section)
             P == Of("MX", section)
             mx == [k \in 1 .. n |-> [pref |-> section[k].pref, host |-> section[k].host]]
             T == {mx[k] : k \in 1 .. n}
             G == {x \in T : x.host # <<>>}
             Q == Among(mx, P, G)
             udp == Records("udp", "MX", section)
             doh == Records("doh", "MX", section)
  <1>1. n \in Nat /\ DOMAIN section = 1 .. n /\ P \in SUBSET (1 .. n)
    BY DEF Of
  <1>2. \A k \in 1 .. n : k \in P <=> OfType(section[k], "MX")
    BY DEF Of, OfType
  <1>3. \A k \in P : section[k].type = "MX"
    BY DEF Of
  <1>4. /\ mx = [k \in 1 .. n |-> mx[k]]
        /\ \A k \in 1 .. n : /\ mx[k] = [pref |-> section[k].pref, host |-> section[k].host]
                             /\ mx[k] \in T
                             /\ mx[k] \in G <=> section[k].host # <<>>
    OBVIOUS
  <1>5. \A x \in T : x \in G <=> x.host # <<>>
    OBVIOUS
  <1>6. Q \in SUBSET (1 .. n)
    BY <1>1 DEF Among
  <1>7. \A k \in 1 .. n : k \in Q <=> k \in P /\ section[k].host # <<>>
    BY <1>1, <1>4 DEF Among
  <1> HIDE DEF n, P, mx, T, G
  <1>8. mx \in Seq(T) /\ DOMAIN mx = 1 .. n
    BY <1>1, <1>4
  <1>9. udp = Picked(mx, P)
    <2>1. ASSUME NEW k \in 1 .. n
          PROVE  Part("udp", "MX", section[k]) = IF k \in P THEN <<mx[k]>> ELSE <<>>
      BY <1>2, <1>3, <1>4 DEF Part, UdpReads
    <2>2. /\ mx = [k \in 1 .. Len(section) |-> mx[k]]
          /\ P \in SUBSET (1 .. Len(section))
          /\ \A k \in 1 .. Len(section) :
                Part("udp", "MX", section[k]) = IF k \in P THEN <<mx[k]>> ELSE <<>>
      BY <1>1, <1>4, <2>1 DEF n
    <2> QED
      BY <2>2, PartsArePicked
  <1>10. doh = Picked(mx, Q)
    <2> HIDE DEF Q
    <2>1. ASSUME NEW k \in 1 .. n
          PROVE  Part("doh", "MX", section[k]) = IF k \in Q THEN <<mx[k]>> ELSE <<>>
      BY <1>2, <1>3, <1>4, <1>7 DEF Part, DohReads, decodeMXPresentation
    <2>2. /\ mx = [k \in 1 .. Len(section) |-> mx[k]]
          /\ Q \in SUBSET (1 .. Len(section))
          /\ \A k \in 1 .. Len(section) :
                Part("doh", "MX", section[k]) = IF k \in Q THEN <<mx[k]>> ELSE <<>>
      BY <1>1, <1>4, <1>6, <2>1 DEF n
    <2> QED
      BY <2>2, PartsArePicked
  <1>11. Picked(udp, Where(udp, G)) = doh
    <2>1. P \in SUBSET (DOMAIN mx)
      BY <1>1, <1>8
    <2>2. Picked(Picked(mx, P), Where(Picked(mx, P), G)) = Picked(mx, Q)
      BY <1>8, <2>1, PickedTwice
    <2> HIDE DEF udp, doh, Q
    <2> QED
      BY <1>9, <1>10, <2>2
  <1>12. udp \in Seq(T)
    BY <1>1, <1>8, <1>9, PickedElements
  <1>13. Where(udp, G) = {k \in DOMAIN udp : udp[k].host # <<>>}
    <2>1. \A k \in DOMAIN udp : udp[k] \in T
      BY <1>12
    <2> HIDE DEF udp
    <2> QED
      BY <1>5, <2>1 DEF Where
  <1> QED
    BY <1>11, <1>13

\* doh.go:126-131: from every zone, both transports give the same texts and
\* exchangers in the same order, but for an MX record of the root, which only UDP
\* gives, the backslashes in a text, which only UDP keeps, and the bytes that cannot
\* be printed, of which both give the digits.
THEOREM TransportsTellTheSame == Spec => []TransportsAgree
  <1>1. TypeInv => TransportsAgree
    <2> SUFFICES ASSUME TypeInv PROVE TransportsAgree
      OBVIOUS
    <2>1. zone \in Zones /\ zone \in Seq(RR)
      BY ZonesAssumption DEF TypeInv, TypeOK, DnsTypeOK
    <2>2. \A over \in {"udp", "doh"}, t \in RRType : Reading[over][t][zone] = Records(over, t, zone)
      BY <2>1 DEF Reading
    <2>4. /\ Reading["udp"]["MX"][zone] = Records("udp", "MX", zone)
          /\ Reading["doh"]["MX"][zone] = Records("doh", "MX", zone)
          /\ Reading["udp"]["TXT"][zone] = Records("udp", "TXT", zone)
          /\ Reading["doh"]["TXT"][zone] = Records("doh", "TXT", zone)
      BY <2>2 DEF RRType
    <2> DEFINE texts == Picked(zone, Of("TXT", zone))
               udp == Records("udp", "MX", zone)
               glued == [k \in DOMAIN texts |-> FlattenSeq(texts[k].strings)]
    <2>5. Records("doh", "MX", zone) = Picked(udp, {k \in DOMAIN udp : udp[k].host # <<>>})
      BY <2>1, ExchangersAgree
    <2>6. /\ Records("doh", "TXT", zone) =
                [k \in DOMAIN texts |-> Legible(FlattenSeq(texts[k].strings))]
          /\ Records("udp", "TXT", zone) =
                [k \in DOMAIN texts |-> Escaped(FlattenSeq(texts[k].strings))]
      BY <2>1, TextsAgree
    <2> HIDE DEF texts
    <2>7. /\ Records("doh", "TXT", zone) = [k \in DOMAIN texts |-> Legible(glued[k])]
          /\ Records("udp", "TXT", zone) = [k \in DOMAIN texts |-> Escaped(glued[k])]
      BY <2>6
    <2> HIDE DEF glued
    <2>8. \A k : Legible(glued[k]) =
                   [i \in DOMAIN glued[k] |->
                       IF glued[k][i] \in DOMAIN decimal
                       THEN decimal[glued[k][i]] ELSE glued[k][i]]
      BY DEF Legible, Printed
    <2>9. Reading["doh"]["MX"][zone] =
             Picked(Reading["udp"]["MX"][zone],
                    {k \in DOMAIN Reading["udp"]["MX"][zone] :
                        Reading["udp"]["MX"][zone][k].host # <<>>})
      BY <2>4, <2>5
    <2> QED
      BY <2>4, <2>7, <2>8, <2>9, Zenon DEF TransportsAgree, Of, texts, glued
  <1>2. Spec => []TypeInv
    BY InitTypeInv, StepTypeInv, LookupInvariant, PTL DEF Spec
  <1> QED
    BY <1>1, <1>2, PTL

-----------------------------------------------------------------------------
(* A lookup implements Lookup.                                             *)

LEMMA RefinesInit == Init => Contract!Init
  BY DEF Init, DnsInit, Contract!Init, LookedUp

LEMMA RefinesStep == LookupInv /\ [Next]_vars => [Contract!Next]_(Contract!vars)
  <1> SUFFICES ASSUME LookupInv, [Next]_vars PROVE [Contract!Next]_(Contract!vars)
    OBVIOUS
  <1>1. ASSUME UNCHANGED <<pc, answer, dnsWorld>> PROVE UNCHANGED Contract!vars
    BY <1>1 DEF Contract!vars, LookedUp, Told, dnsWorld
  <1>2. CASE Lookup
    <2>1. UNCHANGED dnsWorld /\ Pending
      BY <1>2, DnsFrame DEF Lookup, LookupInv
    <2>2. UNCHANGED <<Told, transport, servers>>
      BY <2>1 DEF Told, dnsWorld
    <2>3. ASSUME Return(servers[server]) PROVE Contract!Answer
      BY <2>1, <2>2, <2>3 DEF Return, Contract!Answer, LookedUp, Pending, LookupInv, PlaceInv
    <2>4. ASSUME Failover PROVE [Contract!Next]_(Contract!vars)
      BY <2>1, <2>2, <2>4 DEF Failover, Contract!Next, Contract!Fail, Contract!vars, LookedUp,
                              Pending, LookupInv, PlaceInv
    <2>5. ASSUME UdpCut PROVE UNCHANGED Contract!vars
      BY <2>1, <2>2, <2>5 DEF UdpCut, Contract!vars, LookedUp, Pending
    <2> QED
      BY <1>2, <2>3, <2>4, <2>5 DEF Lookup, DnsNext, UdpAnswers, UdpFails, TcpAnswers,
                                    TcpFails, DohAnswers, DohFails, Contract!Next
  <1>3. CASE LookupFailed \/ NoRecord \/ HasRecord \/ Judge \/ Terminated \/ UNCHANGED vars
    BY <1>1, <1>3 DEF LookupFailed, NoRecord, HasRecord, Judge, Terminated, vars, dnsVars
  <1>4. CASE Skips \/ HeadSends \/ HeadRedirected \/ HeadAnswers \/ HeadTimesOut
    <2>1. UNCHANGED <<pc, answer, dnsWorld>>
      BY <1>4 DEF Skips, HeadSends, HeadRedirected, HeadAnswers, HeadTimesOut, Found, dnsVars
    <2> QED
      BY <1>1, <2>1
  <1> QED
    BY <1>2, <1>3, <1>4 DEF Next

\* dnsclient.go:195-231, doh.go:39-124: over either transport, with any servers,
\* a lookup ends once, with an error or with all of the records.
THEOREM LookupsKeepTheContract == Spec => ImplementsLookup
  BY RefinesInit, RefinesStep, LookupInvariant, PTL DEF Spec, ImplementsLookup, Contract!Spec

-----------------------------------------------------------------------------
(* Reading a record.                                                       *)

LEMMA Punctuation ==
  /\ Blank # Semicolon /\ Blank # "=" /\ Semicolon # "=" /\ Blank # "," /\ Semicolon # ","
  /\ \A tag \in {"v", "V", "p", "rua"} : tag # Blank /\ tag # "=" /\ tag # Semicolon
  BY DEF Blank, Semicolon

\* The tokens from one position of a text to another, or none.
Slice(text, a, z) == [i \in 1 .. z - a + 1 |-> text[a + i - 1]]
Span(text, a, z) == a \in Nat \ {0} /\ z \in Nat /\ a <= z + 1 /\ z <= Len(text)
Solid(text, a, z) == {i \in a .. z : text[i] # Blank}

LEMMA SliceFacts ==
  ASSUME NEW text \in Text, NEW a, NEW z, Span(text, a, z)
  PROVE  /\ Slice(text, a, z) \in Text /\ Len(Slice(text, a, z)) = z - a + 1
         /\ \A i \in 1 .. z - a + 1 : Slice(text, a, z)[i] = text[a + i - 1]
         /\ \A i \in a .. z : i - a + 1 \in 1 .. z - a + 1 /\ Slice(text, a, z)[i - a + 1] = text[i]
  <1> DEFINE s == Slice(text, a, z)
             n == z - a + 1
  <1>1. a \in Nat /\ z \in Nat /\ a >= 1 /\ n \in Nat /\ z <= Len(text) /\ Len(text) \in Nat
    BY DEF Span, Text
  <1>2. \A i \in 1 .. n : a + i - 1 \in 1 .. Len(text) /\ text[a + i - 1] \in Token
    BY <1>1 DEF Text
  <1>3. \A i \in 1 .. n : s[i] = text[a + i - 1]
    BY DEF Slice
  <1>4. s = [i \in 1 .. n |-> s[i]] /\ \A i \in 1 .. n : s[i] \in Token
    BY <1>2 DEF Slice
  <1> HIDE DEF s, n
  <1>5. s \in Text /\ Len(s) = n
    BY <1>1, <1>4, FunctionIsSequence DEF Text
  <1>6. \A i \in a .. z : i - a + 1 \in 1 .. n /\ s[i - a + 1] = text[i]
    <2> TAKE i \in a .. z
    <2>1. i - a + 1 \in 1 .. n /\ a + (i - a + 1) - 1 = i
      BY <1>1 DEF n
    <2> QED
      BY <1>3, <2>1
  <1> QED
    BY <1>3, <1>5, <1>6 DEF s, n

LEMMA CutOut ==
  ASSUME NEW T, NEW s \in Seq(T), NEW a \in 1 .. Len(s) + 1, NEW z \in 0 .. Len(s), a <= z + 1
  PROVE  /\ SubSeq(s, a, z) \in Seq(T) /\ Len(SubSeq(s, a, z)) = z - a + 1
         /\ \A i \in 1 .. z - a + 1 : SubSeq(s, a, z)[i] = s[a + i - 1]
  OBVIOUS

\* Cutting out of what was cut out.
LEMMA SubSlice ==
  ASSUME NEW text \in Text, NEW a, NEW z, Span(text, a, z),
         NEW p \in a .. z + 1, NEW q \in a - 1 .. z, p <= q + 1
  PROVE  /\ SubSeq(Slice(text, a, z), p - a + 1, q - a + 1) = Slice(text, p, q)
         /\ Span(text, p, q)
  <1> DEFINE s == Slice(text, a, z)
             u == SubSeq(s, p - a + 1, q - a + 1)
             w == Slice(text, p, q)
             n == q - p + 1
  <1>1. /\ a \in Nat /\ z \in Nat /\ a >= 1 /\ z <= Len(text) /\ Len(text) \in Nat /\ a <= z + 1
        /\ p \in Nat /\ q \in Nat /\ n \in Nat
    BY DEF Span, Text
  <1>2. Span(text, p, q)
    BY <1>1 DEF Span
  <1>3. /\ s \in Text /\ Len(s) = z - a + 1
        /\ \A i \in 1 .. z - a + 1 : s[i] = text[a + i - 1]
    BY SliceFacts
  <1>4. w \in Text /\ Len(w) = n /\ \A i \in 1 .. n : w[i] = text[p + i - 1]
    BY <1>2, SliceFacts
  <1> HIDE DEF s, w
  <1>5. u \in Text /\ Len(u) = n /\ \A i \in 1 .. n : u[i] = s[(p - a + 1) + i - 1]
    <2>1. /\ p - a + 1 \in 1 .. Len(s) + 1 /\ q - a + 1 \in 0 .. Len(s)
          /\ p - a + 1 <= (q - a + 1) + 1
      BY <1>1, <1>3
    <2>2. s \in Seq(Token) /\ (q - a + 1) - (p - a + 1) + 1 = n
      BY <1>1, <1>3 DEF Text
    <2>3. /\ u \in Seq(Token) /\ Len(u) = (q - a + 1) - (p - a + 1) + 1
          /\ \A i \in 1 .. (q - a + 1) - (p - a + 1) + 1 : u[i] = s[(p - a + 1) + i - 1]
      <3> HIDE DEF n
      <3> QED
        BY <2>1, <2>2, CutOut
    <2> QED
      BY <2>2, <2>3 DEF Text
  <1>6. ASSUME NEW i \in 1 .. n PROVE u[i] = w[i]
    <2>1. /\ (p - a + 1) + i - 1 \in 1 .. z - a + 1
          /\ a + ((p - a + 1) + i - 1) - 1 = p + i - 1
      BY <1>1
    <2> QED
      BY <1>3, <1>4, <1>5, <2>1
  <1> HIDE DEF u, n
  <1>7. u = w
    BY <1>4, <1>5, <1>6 DEF Text
  <1> QED
    BY <1>2, <1>7 DEF u, s, w

\* The first and the last of the positions between two.
LEMMA EndsOf ==
  ASSUME NEW z \in Nat, NEW P \in SUBSET (1 .. z), P # {}
  PROVE  /\ \E i \in P : \A j \in P : i <= j
         /\ \E i \in P : \A j \in P : j <= i
  <1>1. \E i \in P : \A j \in P : i <= j
    BY LeastPosition
  <1>2. \E i \in P : \A j \in P : i >= j
    BY GreatestPosition
  <1>3. \A i, j \in P : i >= j => j <= i
    OBVIOUS
  <1> QED
    BY <1>1, <1>2, <1>3

\* The first and the last of some positions, and what lies between them.
Least(P) == CHOOSE i \in P : \A j \in P : i <= j
Greatest(P) == CHOOSE i \in P : \A j \in P : j <= i
Cover(text, P) == IF P = {} THEN <<>> ELSE Slice(text, Least(P), Greatest(P))

LEMMA LeastFacts ==
  ASSUME NEW z \in Nat, NEW P \in SUBSET (1 .. z), P # {}
  PROVE  /\ Least(P) \in P /\ Greatest(P) \in P
         /\ \A j \in P : Least(P) <= j /\ j <= Greatest(P)
         /\ Least(P) \in 1 .. z /\ Greatest(P) \in 1 .. z /\ Least(P) <= Greatest(P)
  <1>1. /\ \E i \in P : \A j \in P : i <= j
        /\ \E i \in P : \A j \in P : j <= i
    BY EndsOf
  <1>2. Least(P) \in P /\ \A j \in P : Least(P) <= j
    BY <1>1 DEF Least
  <1>3. Greatest(P) \in P /\ \A j \in P : j <= Greatest(P)
    BY <1>1 DEF Greatest
  <1> QED
    BY <1>2, <1>3

\* A position that bounds the others is the first, or the last.
LEMMA LeastIs ==
  ASSUME NEW z \in Nat, NEW P \in SUBSET (1 .. z), NEW i \in P
  PROVE  /\ (\A j \in P : i <= j) => Least(P) = i
         /\ (\A j \in P : j <= i) => Greatest(P) = i
  <1>1. /\ Least(P) \in P /\ Greatest(P) \in P
        /\ \A j \in P : Least(P) <= j /\ j <= Greatest(P)
    BY LeastFacts
  <1>2. \A j, k \in P : j <= k /\ k <= j => j = k
    OBVIOUS
  <1> QED
    BY <1>1, <1>2

LEMMA SolidFacts ==
  ASSUME NEW text \in Text, NEW a, NEW z, Span(text, a, z)
  PROVE  /\ Solid(text, a, z) \in SUBSET (1 .. Len(text)) /\ Len(text) \in Nat
         /\ \A i \in Solid(text, a, z) : i \in a .. z /\ text[i] # Blank
  <1>1. a \in Nat /\ z \in Nat /\ a >= 1 /\ z <= Len(text) /\ Len(text) \in Nat
    BY DEF Span, Text
  <1>2. \A i \in a .. z : i \in 1 .. Len(text)
    BY <1>1
  <1> QED
    BY <1>1, <1>2 DEF Solid

\* strings.TrimSpace leaves what lies between the first token that is not blank
\* and the last.
LEMMA TrimSlice ==
  ASSUME NEW text \in Text, NEW a, NEW z, Span(text, a, z)
  PROVE  TrimSpace(Slice(text, a, z)) = Cover(text, Solid(text, a, z))
  <1> DEFINE s == Slice(text, a, z)
             n == z - a + 1
             P == Solid(text, a, z)
             solid == {i \in DOMAIN s : s[i] # Blank}
  <1>1. a \in Nat /\ z \in Nat /\ a >= 1 /\ n \in Nat /\ z <= Len(text) /\ Len(text) \in Nat
        /\ a <= z + 1
    BY DEF Span, Text
  <1>2. /\ s \in Text /\ Len(s) = n /\ \A i \in 1 .. n : s[i] = text[a + i - 1]
        /\ \A i \in a .. z : i - a + 1 \in 1 .. n /\ s[i - a + 1] = text[i]
    BY SliceFacts
  <1>3. TrimSpace(s) = IF solid = {} THEN <<>> ELSE SubSeq(s, Least(solid), Greatest(solid))
    BY DEF TrimSpace, Least, Greatest
  <1>4. DOMAIN s = 1 .. n
    BY <1>2 DEF Text
  <1>5. solid \in SUBSET (1 .. n)
    BY <1>4
  <1>6. \A i \in P : i \in a .. z /\ i - a + 1 \in solid
    BY <1>2, <1>4 DEF Solid
  <1>7. \A k \in solid : a + k - 1 \in P
    <2> TAKE k \in solid
    <2>1. k \in 1 .. n /\ s[k] # Blank
      BY <1>4
    <2>2. s[k] = text[a + k - 1]
      BY <1>2, <2>1
    <2>3. a + k - 1 \in a .. z
      BY <1>1, <2>1
    <2> QED
      BY <2>1, <2>2, <2>3 DEF Solid
  <1>8. P \in SUBSET (1 .. Len(text))
    BY SolidFacts
  <1> HIDE DEF s, n, P, solid
  <1>9. CASE P = {}
    <2>1. solid = {}
      BY <1>7, <1>9
    <2> QED
      BY <1>3, <1>9, <2>1 DEF Cover, s, P
  <1>10. CASE P # {}
    <2> DEFINE p == Least(P)
               q == Greatest(P)
    <2>1. /\ p \in P /\ q \in P /\ \A j \in P : p <= j /\ j <= q
          /\ p <= q
      BY <1>1, <1>8, <1>10, LeastFacts
    <2>2. p \in a .. z /\ q \in a .. z /\ p - a + 1 \in solid /\ q - a + 1 \in solid
      BY <1>6, <2>1
    <2> HIDE DEF p, q
    <2>3. ASSUME NEW k \in solid PROVE p - a + 1 <= k /\ k <= q - a + 1
      <3>1. a + k - 1 \in P /\ k \in 1 .. n
        BY <1>5, <1>7
      <3>2. p <= a + k - 1 /\ a + k - 1 <= q
        BY <2>1, <3>1
      <3> QED
        BY <1>1, <2>2, <3>1, <3>2
    <2>4. Least(solid) = p - a + 1 /\ Greatest(solid) = q - a + 1
      BY <1>1, <1>5, <2>2, <2>3, LeastIs
    <2>5. SubSeq(s, p - a + 1, q - a + 1) = Slice(text, p, q)
      <3>1. p \in a .. z + 1 /\ q \in a - 1 .. z /\ p <= q + 1
        BY <1>1, <2>1, <2>2
      <3> QED
        BY <3>1, SubSlice DEF s
    <2> QED
      BY <1>3, <1>10, <2>2, <2>4, <2>5 DEF Cover, s, p, q, P
  <1> QED
    BY <1>9, <1>10

\* What lies between the first and the last of some positions is nothing if there
\* are none, and one token if there is one.
LEMMA CoverFacts ==
  ASSUME NEW text \in Text, NEW P \in SUBSET (1 .. Len(text))
  PROVE  /\ Cover(text, P) \in Text
         /\ Cover(text, P) = <<>> <=> P = {}
         /\ \A t : Cover(text, P) = <<t>> <=> \E i \in P : P = {i} /\ text[i] = t
  <1>1. Len(text) \in Nat
    BY DEF Text
  <1>2. CASE P = {}
    <2>1. Cover(text, P) = <<>> /\ <<>> \in Text /\ \A t : <<t>> # <<>>
      BY <1>2 DEF Cover, Text
    <2> QED
      BY <1>2, <2>1
  <1>3. CASE P # {}
    <2> DEFINE p == Least(P)
               q == Greatest(P)
               s == Slice(text, p, q)
    <2>1. /\ p \in P /\ q \in P /\ p \in 1 .. Len(text) /\ q \in 1 .. Len(text) /\ p <= q
          /\ \A j \in P : p <= j /\ j <= q
      BY <1>1, <1>3, LeastFacts
    <2>2. Cover(text, P) = s
      BY <1>3 DEF Cover
    <2> HIDE DEF p, q
    <2>3. Span(text, p, q)
      BY <1>1, <2>1 DEF Span
    <2>4. s \in Text /\ Len(s) = q - p + 1 /\ \A i \in 1 .. q - p + 1 : s[i] = text[p + i - 1]
      BY <2>3, SliceFacts
    <2> HIDE DEF s
    <2>8. p \in Int /\ q \in Int /\ Len(s) = q - p + 1
      BY <1>1, <2>1, <2>4
    <2>5. Len(s) >= 1 /\ s # <<>>
      BY <1>1, <2>1, <2>4
    <2>6. ASSUME NEW t, s = <<t>> PROVE \E i \in P : P = {i} /\ text[i] = t
      <3>1. Len(s) = 1 /\ s[1] = t
        BY <2>6
      <3>5. q - p + 1 = 1
        BY <2>8, <3>1
      <3>2. p = q
        <4>1. p \in Int /\ q \in Int
          BY <2>8
        <4> QED
          BY <3>5, <4>1
      <3>3. text[p] = t
        <4>1. 1 \in 1 .. q - p + 1 /\ p + 1 - 1 = p
          BY <2>1, <3>2
        <4> QED
          BY <2>4, <3>1, <4>1
      <3>4. \A j \in P : j = p
        BY <1>1, <2>1, <3>2
      <3> QED
        BY <2>1, <3>3, <3>4
    <2>7. ASSUME NEW i \in P, P = {i} PROVE s = << text[i] >>
      <3>1. p = i /\ q = i
        BY <2>1, <2>7
      <3>2. Len(s) = 1 /\ s[1] = text[i]
        <4>1. 1 \in 1 .. q - p + 1 /\ p + 1 - 1 = p /\ q - p + 1 = 1
          BY <1>1, <2>1, <3>1
        <4> QED
          BY <2>4, <3>1, <4>1
      <3>3. s \in Seq(Token)
        BY <2>4 DEF Text
      <3>4. \A u : u \in Seq(Token) /\ Len(u) = 1 => u = << u[1] >>
        OBVIOUS
      <3> QED
        BY <3>2, <3>3, <3>4
    <2> QED
      BY <1>3, <2>2, <2>4, <2>5, <2>6, <2>7
  <1> QED
    BY <1>2, <1>3

OneAt(text, P, t) == \E i \in P : P = {i} /\ text[i] = t

LEMMA CoverOne ==
  ASSUME NEW text \in Text, NEW P \in SUBSET (1 .. Len(text)), NEW t
  PROVE  Cover(text, P) = <<t>> <=> OneAt(text, P, t)
  BY CoverFacts DEF OneAt

\* A slice that is not blank at its ends is its own trimmed text.
Tight(text, a, z) == Span(text, a, z) /\ a <= z /\ text[a] # Blank /\ text[z] # Blank

LEMMA TightFacts ==
  ASSUME NEW text \in Text, NEW a, NEW z, Tight(text, a, z)
  PROVE  /\ Span(text, a, z) /\ a \in 1 .. Len(text) /\ z \in 1 .. Len(text) /\ a <= z
         /\ Solid(text, a, z) # {}
         /\ Cover(text, Solid(text, a, z)) = Slice(text, a, z)
  <1> DEFINE P == Solid(text, a, z)
  <1>1. /\ Span(text, a, z) /\ a \in Nat /\ z \in Nat /\ a >= 1 /\ a <= z /\ z <= Len(text)
        /\ Len(text) \in Nat /\ text[a] # Blank /\ text[z] # Blank
    BY DEF Tight, Span, Text
  <1>2. a \in 1 .. Len(text) /\ z \in 1 .. Len(text) /\ a \in a .. z /\ z \in a .. z
    BY <1>1
  <1>3. a \in P /\ z \in P /\ \A j \in P : j \in a .. z
    BY <1>1, <1>2 DEF Solid
  <1>4. P \in SUBSET (1 .. Len(text))
    BY <1>1, SolidFacts
  <1> HIDE DEF P
  <1>5. (\A j \in P : a <= j) /\ (\A j \in P : j <= z)
    BY <1>1, <1>3
  <1>6. Least(P) = a /\ Greatest(P) = z
    <2>1. Len(text) \in Nat /\ P \in SUBSET (1 .. Len(text)) /\ a \in P /\ z \in P
      BY <1>1, <1>3, <1>4
    <2>2. Least(P) = a
      BY <1>5, <2>1, LeastIs
    <2>3. Greatest(P) = z
      BY <1>5, <2>1, LeastIs
    <2> QED
      BY <2>2, <2>3
  <1> QED
    BY <1>1, <1>2, <1>3, <1>6 DEF Cover, P

\* What PairOf makes of a part of a text.
LEMMA PairWithout ==
  ASSUME NEW text \in Text, NEW a, NEW z, Tight(text, a, z),
         \A e \in a .. z : text[e] # "="
  PROVE  PairOf(Slice(text, a, z)) = [tag |-> Cover(text, Solid(text, a, z)), value |-> <<>>]
  <1> DEFINE s == Slice(text, a, z)
             eq == {i \in DOMAIN s : s[i] = "="}
             n == z - a + 1
  <1>1. /\ Span(text, a, z) /\ s = Cover(text, Solid(text, a, z))
        /\ a \in 1 .. Len(text) /\ z \in 1 .. Len(text) /\ a <= z /\ Len(text) \in Nat
    BY TightFacts DEF Text
  <1>2. s \in Text /\ Len(s) = n /\ \A i \in 1 .. n : s[i] = text[a + i - 1]
    <2>1. Span(text, a, z)
      BY <1>1
    <2> QED
      BY <2>1, SliceFacts
  <1>3. DOMAIN s = 1 .. n
    BY <1>2 DEF Text
  <1>4. eq = {}
    <2> SUFFICES ASSUME NEW i \in 1 .. n PROVE s[i] # "="
      BY <1>3
    <2>1. a + i - 1 \in a .. z
      BY <1>1
    <2> QED
      BY <1>2, <2>1
  <1>5. eq = {} => PairOf(s) = [tag |-> s, value |-> <<>>]
    BY DEF PairOf
  <1> QED
    BY <1>1, <1>4, <1>5

LEMMA PairWith ==
  ASSUME NEW text \in Text, NEW a, NEW z, Tight(text, a, z),
         NEW e \in a .. z, text[e] = "=", \A j \in a .. e - 1 : text[j] # "="
  PROVE  /\ PairOf(Slice(text, a, z)) =
               [tag   |-> Cover(text, Solid(text, a, e - 1)),
                value |-> Cover(text, Solid(text, e + 1, z))]
         /\ Span(text, a, e - 1) /\ Span(text, e + 1, z)
  <1> DEFINE s == Slice(text, a, z)
             eq == {i \in DOMAIN s : s[i] = "="}
             n == z - a + 1
             at == e - a + 1
  <1>1. /\ Span(text, a, z) /\ a \in 1 .. Len(text) /\ z \in 1 .. Len(text) /\ a <= z
        /\ Len(text) \in Nat
    BY TightFacts DEF Text
  <1>2. /\ s \in Text /\ Len(s) = n /\ \A i \in 1 .. n : s[i] = text[a + i - 1]
        /\ \A i \in a .. z : i - a + 1 \in 1 .. n /\ s[i - a + 1] = text[i]
    <2>1. Span(text, a, z)
      BY <1>1
    <2> QED
      BY <2>1, SliceFacts
  <1>3. DOMAIN s = 1 .. n /\ n \in Nat
    BY <1>1, <1>2 DEF Text
  <1>4. at \in eq
    BY <1>2, <1>3
  <1>5. \A k \in eq : at <= k
    <2> SUFFICES ASSUME NEW k \in 1 .. n, s[k] = "=", k < at PROVE FALSE
      BY <1>1, <1>3
    <2>1. a + k - 1 \in a .. e - 1
      BY <1>1
    <2> QED
      BY <1>2, <2>1
  <1>6. eq \in SUBSET (1 .. n)
    BY <1>3
  <1>7. PairOf(s) = IF eq = {} THEN [tag |-> s, value |-> <<>>]
                    ELSE [tag   |-> TrimSpace(SubSeq(s, 1, Least(eq) - 1)),
                          value |-> TrimSpace(SubSeq(s, Least(eq) + 1, Len(s)))]
    BY DEF PairOf, Least
  <1> HIDE DEF eq, s
  <1>8. Least(eq) = at /\ eq # {}
    BY <1>3, <1>4, <1>5, <1>6, LeastIs
  <1>9. SubSeq(s, 1, at - 1) = Slice(text, a, e - 1) /\ Span(text, a, e - 1)
    <2>1. /\ a \in a .. z + 1 /\ e - 1 \in a - 1 .. z /\ a <= (e - 1) + 1
          /\ a - a + 1 = 1 /\ (e - 1) - a + 1 = at - 1
      BY <1>1
    <2>2. /\ SubSeq(s, a - a + 1, (e - 1) - a + 1) = Slice(text, a, e - 1)
          /\ Span(text, a, e - 1)
      <3>1. Span(text, a, z)
        BY <1>1
      <3> HIDE DEF at
      <3> QED
        BY <2>1, <3>1, SubSlice DEF s
    <2> QED
      BY <2>1, <2>2
  <1>10. SubSeq(s, at + 1, Len(s)) = Slice(text, e + 1, z) /\ Span(text, e + 1, z)
    <2>1. /\ e + 1 \in a .. z + 1 /\ z \in a - 1 .. z /\ e + 1 <= z + 1
          /\ (e + 1) - a + 1 = at + 1 /\ z - a + 1 = Len(s)
      BY <1>1, <1>2
    <2>2. /\ SubSeq(s, (e + 1) - a + 1, z - a + 1) = Slice(text, e + 1, z)
          /\ Span(text, e + 1, z)
      <3>1. Span(text, a, z)
        BY <1>1
      <3> HIDE DEF at
      <3> QED
        BY <2>1, <3>1, SubSlice DEF s
    <2> QED
      BY <2>1, <2>2
  <1>11. PairOf(s) = [tag   |-> TrimSpace(Slice(text, a, e - 1)),
                      value |-> TrimSpace(Slice(text, e + 1, z))]
    BY <1>7, <1>8, <1>9, <1>10
  <1>12. /\ TrimSpace(Slice(text, a, e - 1)) = Cover(text, Solid(text, a, e - 1))
         /\ TrimSpace(Slice(text, e + 1, z)) = Cover(text, Solid(text, e + 1, z))
    BY <1>9, <1>10, TrimSlice
  <1> QED
    BY <1>9, <1>10, <1>11, <1>12 DEF s

-----------------------------------------------------------------------------
(* Where SplitOn cuts.                                                     *)

\* One token more.
Longer(parts, c, sep) ==
    IF c = sep THEN Append(parts, <<>>) ELSE [parts EXCEPT ![Len(parts)] = Append(@, c)]

LEMMA SequenceGrows ==
  ASSUME NEW T, NEW s \in Seq(T), NEW x \in T
  PROVE  /\ Append(s, x) \in Seq(T) /\ Len(Append(s, x)) = Len(s) + 1
         /\ Append(s, x)[Len(s) + 1] = x
         /\ \A k \in 1 .. Len(s) : Append(s, x)[k] = s[k]
         /\ [s EXCEPT ![Len(s)] = x] \in Seq(T) /\ Len([s EXCEPT ![Len(s)] = x]) = Len(s)
         /\ \A k \in 1 .. Len(s) : k # Len(s) => [s EXCEPT ![Len(s)] = x][k] = s[k]
         /\ Len(s) # 0 => [s EXCEPT ![Len(s)] = x][Len(s)] = x
  <1>1. Append(s, x) \in Seq(T) /\ Len(Append(s, x)) = Len(s) + 1
    OBVIOUS
  <1>2. Append(s, x)[Len(s) + 1] = x /\ \A k \in 1 .. Len(s) : Append(s, x)[k] = s[k]
    OBVIOUS
  <1>3. [s EXCEPT ![Len(s)] = x] \in Seq(T) /\ Len([s EXCEPT ![Len(s)] = x]) = Len(s)
    <2>1. Len(s) \in Nat /\ s = [k \in 1 .. Len(s) |-> s[k]] /\ \A k \in 1 .. Len(s) : s[k] \in T
      OBVIOUS
    <2> DEFINE n == Len(s)
               f == [s EXCEPT ![n] = x]
    <2>2. f = [k \in 1 .. n |-> f[k]] /\ \A k \in 1 .. n : f[k] \in T
      BY <2>1
    <2> HIDE DEF n, f
    <2>3. n \in Nat
      BY <2>1 DEF n
    <2>4. f \in Seq(T) /\ Len(f) = n
      BY <2>2, <2>3, FunctionIsSequence
    <2> QED
      BY <2>4 DEF f, n
  <1>4. /\ \A k \in 1 .. Len(s) : k # Len(s) => [s EXCEPT ![Len(s)] = x][k] = s[k]
        /\ Len(s) # 0 => [s EXCEPT ![Len(s)] = x][Len(s)] = x
    <2>1. Len(s) \in Nat /\ DOMAIN s = 1 .. Len(s)
      OBVIOUS
    <2>2. \A n : n \in DOMAIN s => [s EXCEPT ![n] = x][n] = x
      OBVIOUS
    <2>3. \A n, k : k \in DOMAIN s /\ k # n => [s EXCEPT ![n] = x][k] = s[k]
      OBVIOUS
    <2>4. Len(s) # 0 => Len(s) \in DOMAIN s
      BY <2>1
    <2> QED
      BY <2>1, <2>2, <2>3, <2>4, Zenon
  <1> QED
    BY <1>1, <1>2, <1>3, <1>4

LEMMA LongerFacts ==
  ASSUME NEW parts \in Seq(Text), NEW c \in Token, NEW sep
  PROVE  /\ Longer(parts, c, sep) \in Seq(Text)
         /\ c = sep =>
               /\ Len(Longer(parts, c, sep)) = Len(parts) + 1
               /\ Longer(parts, c, sep)[Len(parts) + 1] = <<>>
               /\ \A k \in 1 .. Len(parts) : Longer(parts, c, sep)[k] = parts[k]
         /\ c # sep /\ Len(parts) # 0 =>
               /\ Len(Longer(parts, c, sep)) = Len(parts)
               /\ Longer(parts, c, sep)[Len(parts)] = Append(parts[Len(parts)], c)
               /\ \A k \in 1 .. Len(parts) :
                     k # Len(parts) => Longer(parts, c, sep)[k] = parts[k]
  <1>1. CASE c = sep
    <2>1. <<>> \in Text
      BY DEF Text
    <2>2. Longer(parts, c, sep) = Append(parts, <<>>)
      BY <1>1 DEF Longer
    <2> QED
      BY <1>1, <2>1, <2>2, SequenceGrows
  <1>2. CASE c # sep
    <2> DEFINE n == Len(parts)
               x == Append(parts[n], c)
    <2>1. Longer(parts, c, sep) = [parts EXCEPT ![n] = x]
      BY <1>2 DEF Longer
    <2>2. CASE n = 0
      <3>1. parts = <<>>
        BY <2>2
      <3>2. DOMAIN parts = {}
        BY <3>1
      <3>3. [parts EXCEPT ![n] = x] = parts
        <4>1. n \notin DOMAIN parts
          BY <3>2
        <4> QED
          BY <3>1, <4>1
      <3> QED
        BY <1>2, <2>1, <2>2, <3>3
    <2>3. CASE n # 0
      <3>1. n \in DOMAIN parts
        BY <2>3
      <3>2. parts[n] \in Text
        BY <3>1
      <3>3. x \in Text
        BY <3>2 DEF Text
      <3> HIDE DEF x
      <3>4. /\ [parts EXCEPT ![n] = x] \in Seq(Text) /\ Len([parts EXCEPT ![n] = x]) = n
            /\ [parts EXCEPT ![n] = x][n] = x
            /\ \A k \in 1 .. n : k # n => [parts EXCEPT ![n] = x][k] = parts[k]
        BY <2>3, <3>3, SequenceGrows
      <3> QED
        BY <1>2, <2>1, <2>3, <3>4 DEF x
    <2> QED
      BY <2>2, <2>3
  <1> QED
    BY <1>1, <1>2

\* N parts of the first m tokens, the k-th from a[k] to z[k].
Lays(text, sep, m, N, a, z) ==
    /\ N \in Nat \ {0} /\ a \in [1 .. N -> Nat] /\ z \in [1 .. N -> Nat] /\ z[N] = m
    /\ \A k \in 1 .. N : 1 <= a[k] /\ a[k] <= z[k] + 1 /\ z[k] <= m
    /\ \A k \in 1 .. N : a[k] = 1 \/ (a[k] > 1 /\ text[a[k] - 1] = sep)
    /\ \A k \in 1 .. N : z[k] = m \/ (z[k] < m /\ text[z[k] + 1] = sep)
    /\ \A k \in 1 .. N : \A i \in a[k] .. z[k] : text[i] # sep
    /\ \A j, k \in 1 .. N : j < k => z[j] + 1 < a[k]
    /\ \A i \in 1 .. m : text[i] = sep \/ \E k \in 1 .. N : i \in a[k] .. z[k]

Slices(text, N, a, z) == [k \in 1 .. N |-> Slice(text, a[k], z[k])]

SplitsInto(parts, text, m, sep) ==
    \E N, a, z : Lays(text, sep, m, N, a, z) /\ parts = Slices(text, N, a, z)

LEMMA SplitsNothing ==
  ASSUME NEW text, NEW sep
  PROVE  SplitsInto(<< <<>> >>, text, 0, sep)
  <1> DEFINE a == [k \in 1 .. 1 |-> 1]
             z == [k \in 1 .. 1 |-> 0]
  <1>1. \A k \in 1 .. 1 : k = 1 /\ a[k] = 1 /\ z[k] = 0
    OBVIOUS
  <1>2. a \in [1 .. 1 -> Nat] /\ z \in [1 .. 1 -> Nat]
    OBVIOUS
  <1> HIDE DEF a, z
  <1>3. Lays(text, sep, 0, 1, a, z)
    BY <1>1, <1>2 DEF Lays
  <1>4. Slice(text, 1, 0) = <<>>
    <2>1. 1 .. 0 - 1 + 1 = {}
      OBVIOUS
    <2> QED
      BY <2>1 DEF Slice
  <1>5. Slices(text, 1, a, z) = << <<>> >>
    <2>1. Slices(text, 1, a, z) = [k \in 1 .. 1 |-> <<>>]
      BY <1>1, <1>4 DEF Slices
    <2>2. [k \in 1 .. 1 |-> <<>>] = << <<>> >>
      OBVIOUS
    <2> QED
      BY <2>1, <2>2
  <1> QED
    BY <1>3, <1>5 DEF SplitsInto

\* A separator begins a part, any other token is the last of the part so far.
LEMMA LaysSeparator ==
  ASSUME NEW text, NEW sep, NEW m \in Nat, NEW N, NEW a, NEW z, Lays(text, sep, m, N, a, z),
         text[m + 1] = sep,
         NEW b, b = [k \in 1 .. N + 1 |-> IF k = N + 1 THEN m + 2 ELSE a[k]],
         NEW y, y = [k \in 1 .. N + 1 |-> IF k = N + 1 THEN m + 1 ELSE z[k]]
  PROVE  Lays(text, sep, m + 1, N + 1, b, y)
  <1>1. /\ N \in Nat \ {0} /\ a \in [1 .. N -> Nat] /\ z \in [1 .. N -> Nat] /\ z[N] = m
        /\ \A k \in 1 .. N : 1 <= a[k] /\ a[k] <= z[k] + 1 /\ z[k] <= m
    BY DEF Lays
  <1>2. /\ \A k \in 1 .. N : a[k] = 1 \/ (a[k] > 1 /\ text[a[k] - 1] = sep)
        /\ \A k \in 1 .. N : z[k] = m \/ (z[k] < m /\ text[z[k] + 1] = sep)
    BY DEF Lays
  <1>3. \A k \in 1 .. N : \A i \in a[k] .. z[k] : text[i] # sep
    BY DEF Lays
  <1>4. \A j, k \in 1 .. N : j < k => z[j] + 1 < a[k]
    BY DEF Lays
  <1>5. \A i \in 1 .. m : text[i] = sep \/ \E k \in 1 .. N : i \in a[k] .. z[k]
    BY DEF Lays
  <1>6. \A k \in 1 .. N + 1 : k = N + 1 \/ k \in 1 .. N
    BY <1>1
  <1>7. \A k \in 1 .. N : k \in 1 .. N + 1 /\ k # N + 1
    BY <1>1
  <1>8. /\ \A k \in 1 .. N : b[k] = a[k] /\ y[k] = z[k] /\ a[k] \in Nat /\ z[k] \in Nat
        /\ N + 1 \in 1 .. N + 1 /\ b[N + 1] = m + 2 /\ y[N + 1] = m + 1
    BY <1>1, <1>7
  <1>9. N + 1 \in Nat \ {0} /\ b \in [1 .. N + 1 -> Nat] /\ y \in [1 .. N + 1 -> Nat]
    <2>1. ASSUME NEW k \in 1 .. N + 1 PROVE b[k] \in Nat /\ y[k] \in Nat
      <3>1. CASE k \in 1 .. N
        BY <1>8, <3>1
      <3>2. CASE k = N + 1
        BY <1>8, <3>2
      <3> QED
        BY <1>6, <3>1, <3>2
    <2> QED
      BY <1>1, <2>1
  <1>10. ASSUME NEW k \in 1 .. N + 1
         PROVE  /\ 1 <= b[k] /\ b[k] <= y[k] + 1 /\ y[k] <= m + 1
                /\ b[k] = 1 \/ (b[k] > 1 /\ text[b[k] - 1] = sep)
                /\ y[k] = m + 1 \/ (y[k] < m + 1 /\ text[y[k] + 1] = sep)
                /\ \A i \in b[k] .. y[k] : text[i] # sep
    <2>1. CASE k \in 1 .. N
      <3>1. b[k] = a[k] /\ y[k] = z[k] /\ a[k] \in Nat /\ z[k] \in Nat
        BY <1>8, <2>1
      <3>2. 1 <= a[k] /\ a[k] <= z[k] + 1 /\ z[k] <= m
        BY <1>1, <2>1
      <3>3. /\ a[k] = 1 \/ (a[k] > 1 /\ text[a[k] - 1] = sep)
            /\ z[k] = m \/ (z[k] < m /\ text[z[k] + 1] = sep)
            /\ \A i \in a[k] .. z[k] : text[i] # sep
        BY <1>2, <1>3, <2>1
      <3>4. z[k] < m + 1 /\ text[z[k] + 1] = sep
        BY <3>1, <3>2, <3>3
      <3>5. z[k] <= m + 1
        BY <3>1, <3>4
      <3> QED
        BY <3>1, <3>2, <3>3, <3>4, <3>5
    <2>2. CASE k = N + 1
      <3>1. b[k] = m + 2 /\ y[k] = m + 1 /\ (m + 2) - 1 = m + 1 /\ m + 2 > 1 /\ m + 2 <= (m + 1) + 1
            /\ 1 <= m + 2 /\ m + 1 <= m + 1
        BY <1>8, <2>2
      <3>2. m + 2 .. m + 1 = {}
        OBVIOUS
      <3> QED
        BY <3>1, <3>2
    <2> QED
      BY <1>6, <2>1, <2>2
  <1>11. ASSUME NEW j \in 1 .. N + 1, NEW k \in 1 .. N + 1, j < k
         PROVE  y[j] + 1 < b[k]
    <2>1. j \in 1 .. N /\ y[j] = z[j] /\ z[j] \in Nat
      BY <1>1, <1>8, <1>11
    <2>2. CASE k \in 1 .. N
      BY <1>4, <1>8, <1>11, <2>1, <2>2
    <2>3. CASE k = N + 1
      <3>1. b[k] = m + 2 /\ z[j] <= m
        BY <1>1, <1>8, <2>1, <2>3
      <3> QED
        BY <2>1, <3>1
    <2> QED
      BY <1>6, <2>2, <2>3
  <1>12. ASSUME NEW i \in 1 .. m + 1
         PROVE  text[i] = sep \/ \E k \in 1 .. N + 1 : i \in b[k] .. y[k]
    <2>1. CASE i = m + 1
      BY <2>1
    <2>2. CASE i # m + 1
      <3>1. i \in 1 .. m
        BY <2>2
      <3>2. text[i] = sep \/ \E k \in 1 .. N : i \in a[k] .. z[k]
        BY <1>5, <3>1
      <3> QED
        BY <1>7, <1>8, <3>2
    <2> QED
      BY <2>1, <2>2

  <1>13. y[N + 1] = m + 1
    BY <1>8
  <1> QED
    BY <1>9, <1>10, <1>11, <1>12, <1>13, Zenon DEF Lays

LEMMA LaysToken ==
  ASSUME NEW text, NEW sep, NEW m \in Nat, NEW N, NEW a, NEW z, Lays(text, sep, m, N, a, z),
         text[m + 1] # sep,
         NEW y, y = [k \in 1 .. N |-> IF k = N THEN m + 1 ELSE z[k]]
  PROVE  Lays(text, sep, m + 1, N, a, y)
  <1>1. /\ N \in Nat \ {0} /\ a \in [1 .. N -> Nat] /\ z \in [1 .. N -> Nat] /\ z[N] = m
        /\ \A k \in 1 .. N : 1 <= a[k] /\ a[k] <= z[k] + 1 /\ z[k] <= m
    BY DEF Lays
  <1>2. /\ \A k \in 1 .. N : a[k] = 1 \/ (a[k] > 1 /\ text[a[k] - 1] = sep)
        /\ \A k \in 1 .. N : z[k] = m \/ (z[k] < m /\ text[z[k] + 1] = sep)
    BY DEF Lays
  <1>3. \A k \in 1 .. N : \A i \in a[k] .. z[k] : text[i] # sep
    BY DEF Lays
  <1>4. \A j, k \in 1 .. N : j < k => z[j] + 1 < a[k]
    BY DEF Lays
  <1>5. \A i \in 1 .. m : text[i] = sep \/ \E k \in 1 .. N : i \in a[k] .. z[k]
    BY DEF Lays
  <1>6. /\ \A k \in 1 .. N : a[k] \in Nat /\ z[k] \in Nat /\ (k # N => y[k] = z[k])
        /\ N \in 1 .. N /\ y[N] = m + 1
    BY <1>1
  <1>7. y \in [1 .. N -> Nat]
    <2>1. \A k \in 1 .. N : y[k] \in Nat
      BY <1>6
    <2> QED
      BY <2>1
  <1>8. \A k \in 1 .. N : k # N => z[k] < m
    <2> SUFFICES ASSUME NEW k \in 1 .. N, k # N PROVE z[k] < m
      OBVIOUS
    <2>1. k < N
      BY <1>1
    <2>2. z[k] + 1 < a[N] /\ a[N] <= m + 1
      BY <1>1, <1>4, <1>6, <2>1
    <2> QED
      BY <1>6, <2>2
  <1>9. ASSUME NEW k \in 1 .. N
        PROVE  /\ 1 <= a[k] /\ a[k] <= y[k] + 1 /\ y[k] <= m + 1
               /\ y[k] = m + 1 \/ (y[k] < m + 1 /\ text[y[k] + 1] = sep)
               /\ \A i \in a[k] .. y[k] : text[i] # sep
    <2>1. a[k] \in Nat /\ z[k] \in Nat /\ 1 <= a[k] /\ a[k] <= z[k] + 1 /\ z[k] <= m
      BY <1>1, <1>6
    <2>2. CASE k # N
      <3>1. y[k] = z[k] /\ z[k] < m
        BY <1>6, <1>8, <2>2
      <3>2. z[k] < m + 1 /\ text[z[k] + 1] = sep
        <4>1. z[k] # m
          BY <2>1, <3>1
        <4> QED
          BY <1>2, <2>1, <3>1, <4>1
      <3>3. z[k] <= m + 1
        BY <2>1
      <3>4. \A i \in a[k] .. z[k] : text[i] # sep
        BY <1>3
      <3> QED
        BY <2>1, <3>1, <3>2, <3>3, <3>4
    <2>3. CASE k = N
      <3>1. y[k] = m + 1 /\ z[k] = m
        BY <1>1, <1>6, <2>3
      <3>2. a[k] <= (m + 1) + 1 /\ m + 1 <= m + 1
        BY <2>1
      <3>3. ASSUME NEW i \in a[k] .. m + 1 PROVE text[i] # sep
        <4>1. CASE i = m + 1
          BY <4>1
        <4>2. CASE i # m + 1
          <5>1. i \in a[k] .. z[k]
            BY <2>1, <3>1, <4>2
          <5> QED
            BY <1>3, <5>1
        <4> QED
          BY <4>1, <4>2
      <3> QED
        BY <2>1, <3>1, <3>2, <3>3
    <2> QED
      BY <2>2, <2>3
  <1>10. ASSUME NEW j \in 1 .. N, NEW k \in 1 .. N, j < k
         PROVE  y[j] + 1 < a[k]
    <2>1. j # N
      BY <1>1, <1>10
    <2> QED
      BY <1>4, <1>6, <1>10, <2>1
  <1>11. ASSUME NEW i \in 1 .. m + 1
         PROVE  text[i] = sep \/ \E k \in 1 .. N : i \in a[k] .. y[k]
    <2>1. CASE i = m + 1
      <3>1. a[N] \in Nat /\ a[N] <= m + 1
        BY <1>1, <1>6
      <3>2. i \in a[N] .. y[N]
        BY <1>6, <2>1, <3>1
      <3> QED
        BY <1>6, <3>2
    <2>2. CASE i # m + 1
      <3>1. i \in 1 .. m
        BY <2>2
      <3>2. ASSUME NEW k \in 1 .. N, i \in a[k] .. z[k] PROVE i \in a[k] .. y[k]
        <4>1. CASE k = N
          BY <1>6, <3>1, <3>2, <4>1
        <4>2. CASE k # N
          BY <1>6, <3>2, <4>2
        <4> QED
          BY <4>1, <4>2
      <3>3. text[i] = sep \/ \E k \in 1 .. N : i \in a[k] .. z[k]
        BY <1>5, <3>1
      <3> QED
        BY <3>2, <3>3
    <2> QED
      BY <2>1, <2>2
  <1>12. N \in Nat \ {0} /\ a \in [1 .. N -> Nat] /\ y[N] = m + 1
         /\ \A k \in 1 .. N : a[k] = 1 \/ (a[k] > 1 /\ text[a[k] - 1] = sep)
    BY <1>1, <1>2, <1>6
  <1> QED
    BY <1>7, <1>9, <1>10, <1>11, <1>12, Zenon DEF Lays

\* The recursion of SplitOn, on sets of positions of a text.
SplitSolves(g, text, sep) ==
    g = [S \in SUBSET (DOMAIN text) |->
            IF S = {} THEN << <<>> >> ELSE Longer(g[S \ {Max(S)}], text[Max(S)], sep)]

LEMMA SplitSolvable ==
  ASSUME NEW text \in Text, NEW sep
  PROVE  \E g : SplitSolves(g, text, sep)
  <1> DEFINE St == Seq(Text)
             F == [parts \in St |-> [c \in Token |-> Longer(parts, c, sep)]]
             n == Len(text)
             base == << <<>> >>
  <1>1. Operation(F, St, Token)
    <2>1. \A parts \in St, c \in Token : Longer(parts, c, sep) \in St
      BY LongerFacts
    <2> HIDE DEF St
    <2> QED
      BY <2>1 DEF Operation
  <1>2. \A parts \in St, c \in Token : F[parts][c] = Longer(parts, c, sep)
    OBVIOUS
  <1>3. n \in Nat /\ DOMAIN text = 1 .. n /\ \A k \in 1 .. n : text[k] \in Token
    BY DEF Text
  <1>4. base \in St
    <2>1. <<>> \in Text
      BY DEF Text
    <2> QED
      BY <2>1
  <1> HIDE DEF F, n, base, St
  <1>5. PICK g \in [SUBSET (1 .. n) -> St] : FoldSolves(g, F, base, text, n)
    <2>1. HasFold(F, St, base, text, n)
      BY <1>1, <1>3, <1>4, FoldSolvable
    <2> QED
      BY <2>1 DEF HasFold
  <1>6. ASSUME NEW S \in SUBSET (1 .. n)
        PROVE  g[S] = IF S = {} THEN base ELSE Longer(g[S \ {Max(S)}], text[Max(S)], sep)
    <2>1. g[S] = IF S = {} THEN base ELSE F[g[S \ {Max(S)}]][text[Max(S)]]
      BY <1>5 DEF FoldSolves
    <2>2. ASSUME S # {}
          PROVE  F[g[S \ {Max(S)}]][text[Max(S)]] = Longer(g[S \ {Max(S)}], text[Max(S)], sep)
      <3>1. Max(S) \in 1 .. n
        BY <1>3, <2>2, MaxIsLast
      <3>2. g[S \ {Max(S)}] \in St /\ text[Max(S)] \in Token
        BY <1>3, <1>5, <3>1
      <3> QED
        BY <1>2, <3>2
    <2> QED
      BY <2>1, <2>2
  <1>7. g = [S \in SUBSET (1 .. n) |-> g[S]]
    BY <1>5
  <1>8. g = [S \in SUBSET (1 .. n) |->
                IF S = {} THEN base ELSE Longer(g[S \ {Max(S)}], text[Max(S)], sep)]
    BY <1>6, <1>7
  <1>9. SplitSolves(g, text, sep)
    BY <1>3, <1>8 DEF SplitSolves, base
  <1> QED
    BY <1>9

\* One token more of what has been cut.
LEMMA SplitsNext ==
  ASSUME NEW text \in Text, NEW sep, NEW m \in 0 .. Len(text) - 1,
         NEW parts \in Seq(Text), SplitsInto(parts, text, m, sep)
  PROVE  SplitsInto(Longer(parts, text[m + 1], sep), text, m + 1, sep)
  <1> DEFINE c == text[m + 1]
             more == Longer(parts, c, sep)
  <1>1. /\ m \in Nat /\ m + 1 \in 1 .. Len(text) /\ Len(text) \in Nat /\ c \in Token
        /\ m + 1 <= Len(text)
    BY DEF Text
  <1>2. PICK N, a, z : Lays(text, sep, m, N, a, z) /\ parts = Slices(text, N, a, z)
    BY DEF SplitsInto
  <1>3. /\ N \in Nat \ {0} /\ a \in [1 .. N -> Nat] /\ z \in [1 .. N -> Nat] /\ z[N] = m
        /\ \A k \in 1 .. N : 1 <= a[k] /\ a[k] <= z[k] + 1 /\ z[k] <= m
    BY <1>2 DEF Lays
  <1>4. Len(parts) = N /\ \A k \in 1 .. N : parts[k] = Slice(text, a[k], z[k])
    <2>1. parts = [k \in 1 .. N |-> Slice(text, a[k], z[k])]
      BY <1>2 DEF Slices
    <2>4. DOMAIN parts = 1 .. N
      BY <2>1
    <2>5. DOMAIN parts = 1 .. Len(parts) /\ Len(parts) \in Nat
      BY SequenceElements
    <2>2. DOMAIN parts = 1 .. N /\ DOMAIN parts = 1 .. Len(parts) /\ Len(parts) \in Nat
      BY <2>4, <2>5
    <2>3. Len(parts) = N
      BY <1>3, <2>2
    <2> QED
      BY <2>1, <2>3
  <1>5. /\ more \in Seq(Text)
        /\ c = sep =>
               /\ Len(more) = N + 1 /\ more[N + 1] = <<>>
               /\ \A k \in 1 .. N : more[k] = parts[k]
        /\ c # sep =>
               /\ Len(more) = N /\ more[N] = Append(parts[N], c)
               /\ \A k \in 1 .. N : k # N => more[k] = parts[k]
    <2>1. c \in Token /\ Len(parts) = N /\ Len(parts) # 0
      BY <1>1, <1>3, <1>4
    <2>2. /\ more \in Seq(Text)
          /\ c = sep =>
                 /\ Len(more) = Len(parts) + 1 /\ more[Len(parts) + 1] = <<>>
                 /\ \A k \in 1 .. Len(parts) : more[k] = parts[k]
          /\ c # sep /\ Len(parts) # 0 =>
                 /\ Len(more) = Len(parts) /\ more[Len(parts)] = Append(parts[Len(parts)], c)
                 /\ \A k \in 1 .. Len(parts) : k # Len(parts) => more[k] = parts[k]
      <3> HIDE DEF c
      <3> QED
        BY <2>1, LongerFacts
    <2> HIDE DEF more, c
    <2> QED
      BY <2>1, <2>2
  <1> HIDE DEF c, more
  <1>6. CASE c = sep
    <2> DEFINE b == [k \in 1 .. N + 1 |-> IF k = N + 1 THEN m + 2 ELSE a[k]]
               y == [k \in 1 .. N + 1 |-> IF k = N + 1 THEN m + 1 ELSE z[k]]
    <2>1. Lays(text, sep, m + 1, N + 1, b, y)
      <3>1. text[m + 1] = sep
        BY <1>6 DEF c
      <3> QED
        BY <1>1, <1>2, <3>1, LaysSeparator
    <2>2. Slice(text, m + 2, m + 1) = <<>>
      <3>1. 1 .. (m + 1) - (m + 2) + 1 = {}
        BY <1>1
      <3> QED
        BY <3>1 DEF Slice
    <2>3. \A k \in 1 .. N + 1 : more[k] = Slice(text, b[k], y[k])
      <3> TAKE k \in 1 .. N + 1
      <3>1. CASE k = N + 1
        <4>1. b[k] = m + 2 /\ y[k] = m + 1
          BY <3>1
        <4> QED
          BY <1>5, <1>6, <2>2, <3>1, <4>1
      <3>2. CASE k # N + 1
        <4>1. k \in 1 .. N /\ b[k] = a[k] /\ y[k] = z[k]
          BY <1>3, <3>2
        <4> QED
          BY <1>4, <1>5, <1>6, <4>1
      <3> QED
        BY <3>1, <3>2
    <2> HIDE DEF b, y
    <2>4. more = Slices(text, N + 1, b, y)
      <3>1. more = [k \in 1 .. N + 1 |-> more[k]]
        <4>1. Len(more) = N + 1
          BY <1>5, <1>6
        <4>2. more = [k \in 1 .. Len(more) |-> more[k]]
          BY <1>5
        <4> QED
          BY <4>1, <4>2
      <3>2. more = [k \in 1 .. N + 1 |-> Slice(text, b[k], y[k])]
        BY <2>3, <3>1
      <3> QED
        BY <3>2 DEF Slices
    <2> QED
      BY <2>1, <2>4 DEF SplitsInto, more, c
  <1>7. CASE c # sep
    <2> DEFINE y == [k \in 1 .. N |-> IF k = N THEN m + 1 ELSE z[k]]
    <2>1. Lays(text, sep, m + 1, N, a, y)
      <3>1. text[m + 1] # sep
        BY <1>7 DEF c
      <3> QED
        BY <1>1, <1>2, <3>1, LaysToken
    <2>2. Append(Slice(text, a[N], m), c) = Slice(text, a[N], m + 1)
      <3> DEFINE u == Slice(text, a[N], m)
                 w == Slice(text, a[N], m + 1)
                 n == m - a[N] + 1
      <3>1. a[N] \in Nat /\ 1 <= a[N] /\ a[N] <= m + 1 /\ N \in 1 .. N
        BY <1>1, <1>3
      <3>2. Span(text, a[N], m) /\ Span(text, a[N], m + 1) /\ n \in Nat
            /\ (m + 1) - a[N] + 1 = n + 1 /\ a[N] + (n + 1) - 1 = m + 1
        BY <1>1, <3>1 DEF Span
      <3>3. u \in Text /\ Len(u) = n /\ \A i \in 1 .. n : u[i] = text[a[N] + i - 1]
        BY <3>2, SliceFacts
      <3>4. w \in Text /\ Len(w) = n + 1 /\ \A i \in 1 .. n + 1 : w[i] = text[a[N] + i - 1]
        <4>1. /\ w \in Text /\ Len(w) = (m + 1) - a[N] + 1
              /\ \A i \in 1 .. (m + 1) - a[N] + 1 : w[i] = text[a[N] + i - 1]
          BY <3>2, SliceFacts
        <4> QED
          BY <3>2, <4>1
      <3> HIDE DEF u, w, n
      <3>5. /\ Append(u, c) \in Seq(Token) /\ Len(Append(u, c)) = n + 1
            /\ Append(u, c)[n + 1] = c /\ \A i \in 1 .. n : Append(u, c)[i] = u[i]
        BY <1>1, <3>3, SequenceGrows DEF Text
      <3>6. w[n + 1] = c
        <4>1. n + 1 \in 1 .. n + 1
          BY <3>2
        <4> QED
          BY <3>2, <3>4, <4>1 DEF c
      <3>7. \A i \in 1 .. n + 1 : Append(u, c)[i] = w[i]
        <4> TAKE i \in 1 .. n + 1
        <4>1. CASE i = n + 1
          BY <3>5, <3>6, <4>1
        <4>2. CASE i # n + 1
          <5>1. i \in 1 .. n
            BY <3>2, <4>2
          <5> QED
            BY <3>3, <3>4, <3>5, <5>1
        <4> QED
          BY <4>1, <4>2
      <3>8. w \in Seq(Token)
        BY <3>4 DEF Text
      <3>9. Append(u, c) = w
        <4>1. \A p, q \in Seq(Token) : Len(p) = Len(q) /\ (\A i \in 1 .. Len(p) : p[i] = q[i]) => p = q
          OBVIOUS
        <4> DEFINE v == Append(u, c)
        <4>2. v \in Seq(Token) /\ Len(v) = Len(w) /\ \A i \in 1 .. Len(v) : v[i] = w[i]
          BY <3>4, <3>5, <3>7
        <4> HIDE DEF v
        <4>3. v = w
          BY <3>8, <4>1, <4>2
        <4> QED
          BY <4>3 DEF v
      <3> QED
        BY <3>9 DEF u, w
    <2>3. \A k \in 1 .. N : more[k] = Slice(text, a[k], y[k])
      <3> TAKE k \in 1 .. N
      <3>1. CASE k = N
        <4>1. y[k] = m + 1 /\ parts[N] = Slice(text, a[N], m)
          BY <1>3, <1>4, <3>1
        <4> QED
          BY <1>5, <1>7, <2>2, <3>1, <4>1
      <3>2. CASE k # N
        <4>1. y[k] = z[k]
          BY <3>2
        <4> QED
          BY <1>4, <1>5, <1>7, <3>2, <4>1
      <3> QED
        BY <3>1, <3>2
    <2> HIDE DEF y
    <2>4. more = Slices(text, N, a, y)
      <3>1. more = [k \in 1 .. N |-> more[k]]
        <4>1. Len(more) = N
          BY <1>5, <1>7
        <4>2. more = [k \in 1 .. Len(more) |-> more[k]]
          BY <1>5
        <4> QED
          BY <4>1, <4>2
      <3>2. more = [k \in 1 .. N |-> Slice(text, a[k], y[k])]
        BY <2>3, <3>1
      <3> QED
        BY <3>2 DEF Slices
    <2> QED
      BY <2>1, <2>4 DEF SplitsInto, more, c
  <1> QED
    BY <1>6, <1>7

\* SplitOn cuts a text at every separator, and nowhere else.
LEMMA SplitOnCuts ==
  ASSUME NEW text \in Text, NEW sep
  PROVE  SplitOn(text, sep) \in Seq(Text) /\ SplitsInto(SplitOn(text, sep), text, Len(text), sep)
  <1> DEFINE n == Len(text)
             iter[S \in SUBSET (DOMAIN text)] ==
                IF S = {} THEN << <<>> >> ELSE Longer(iter[S \ {Max(S)}], text[Max(S)], sep)
  <1>1. iter = [S \in SUBSET (DOMAIN text) |->
                   IF S = {} THEN << <<>> >> ELSE Longer(iter[S \ {Max(S)}], text[Max(S)], sep)]
    <2>1. \E g : g = [S \in SUBSET (DOMAIN text) |->
                         IF S = {} THEN << <<>> >> ELSE Longer(g[S \ {Max(S)}], text[Max(S)], sep)]
      BY SplitSolvable DEF SplitSolves
    <2> QED
      BY <2>1
  <1>2. SplitOn(text, sep) = iter[DOMAIN text]
    BY DEF SplitOn, FoldLeft, MapThenFoldSet, Longer
  <1> HIDE DEF iter
  <1>3. n \in Nat /\ DOMAIN text = 1 .. n /\ \A k \in 1 .. n : text[k] \in Token
    BY DEF Text
  <1> DEFINE K == {m \in 0 .. n : iter[1 .. m] \in Seq(Text)
                                  /\ SplitsInto(iter[1 .. m], text, m, sep)}
  <1>4. \A S \in SUBSET (1 .. n) :
           iter[S] = IF S = {} THEN << <<>> >> ELSE Longer(iter[S \ {Max(S)}], text[Max(S)], sep)
    BY <1>1, <1>3
  <1>5. 0 \in K
    <2>1. 1 .. 0 = {} /\ 1 .. 0 \in SUBSET (1 .. n) /\ 0 \in 0 .. n
      BY <1>3
    <2>2. iter[1 .. 0] = << <<>> >>
      BY <1>4, <2>1
    <2>3. << <<>> >> \in Seq(Text)
      <3>1. <<>> \in Text
        BY DEF Text
      <3> QED
        BY <3>1
    <2> QED
      BY <2>1, <2>2, <2>3, SplitsNothing
  <1>6. ASSUME NEW m \in 0 .. n - 1, m \in K PROVE m + 1 \in K
    <2>1. /\ m + 1 \in 1 .. n /\ m + 1 \in 0 .. n /\ (m + 1) - 1 = m
          /\ iter[1 .. m] \in Seq(Text) /\ SplitsInto(iter[1 .. m], text, m, sep)
      BY <1>3, <1>6
    <2>2. /\ 1 .. m + 1 \in SUBSET (1 .. n) /\ 1 .. m + 1 # {} /\ Max(1 .. m + 1) = m + 1
          /\ (1 .. m + 1) \ {m + 1} = 1 .. (m + 1) - 1
      BY <1>3, <2>1, Segments
    <2>3. iter[1 .. m + 1] = Longer(iter[1 .. m], text[m + 1], sep)
      BY <1>4, <2>1, <2>2
    <2>4. Longer(iter[1 .. m], text[m + 1], sep) \in Seq(Text)
      BY <1>3, <2>1, LongerFacts
    <2>5. SplitsInto(Longer(iter[1 .. m], text[m + 1], sep), text, m + 1, sep)
      BY <2>1, SplitsNext
    <2> QED
      BY <2>1, <2>3, <2>4, <2>5
  <1>7. n \in K
    <2>1. n \in 0 .. n
      BY <1>3
    <2> HIDE DEF K
    <2> QED
      BY <1>3, <1>5, <1>6, <2>1, CountInduction
  <1> QED
    BY <1>2, <1>3, <1>7

\* N parts of a text that are not blank at their ends, the k-th from a[k] to z[k],
\* are all there is between the separators, spaces aside.
Cuts(text, sep, N, a, z) ==
    /\ N \in Nat /\ a \in [1 .. N -> 1 .. Len(text)] /\ z \in [1 .. N -> 1 .. Len(text)]
    /\ \A k \in 1 .. N : Tight(text, a[k], z[k])
    /\ \A k \in 1 .. N : \A i \in a[k] .. z[k] : text[i] # sep
    /\ \A k \in 1 .. N : \A j \in 1 .. a[k] - 1 :
          text[j] = Blank \/ \E m \in j .. a[k] - 1 : text[m] = sep
    /\ \A k \in 1 .. N : \A j \in z[k] + 1 .. Len(text) :
          text[j] = Blank \/ \E m \in z[k] + 1 .. j : text[m] = sep
    /\ \A j, k \in 1 .. N : j < k => z[j] < a[k]
    /\ \A i \in 1 .. Len(text) :
          text[i] = Blank \/ text[i] = sep \/ \E k \in 1 .. N : i \in a[k] .. z[k]

CutsInto(items, text, sep) ==
    \E N, a, z : Cuts(text, sep, N, a, z) /\ items = Slices(text, N, a, z)

\* One part between two separators.
LEMMA PartTrimmed ==
  ASSUME NEW text \in Text, NEW sep, NEW N, NEW a, NEW z,
         Lays(text, sep, Len(text), N, a, z), NEW k \in 1 .. N,
         Solid(text, a[k], z[k]) # {},
         NEW p, p = Least(Solid(text, a[k], z[k])),
         NEW q, q = Greatest(Solid(text, a[k], z[k]))
  PROVE  /\ p \in 1 .. Len(text) /\ q \in 1 .. Len(text)
         /\ a[k] <= p /\ p <= q /\ q <= z[k]
         /\ Tight(text, p, q)
         /\ \A i \in p .. q : text[i] # sep
         /\ \A j \in 1 .. p - 1 : text[j] = Blank \/ \E m \in j .. p - 1 : text[m] = sep
         /\ \A j \in q + 1 .. Len(text) : text[j] = Blank \/ \E m \in q + 1 .. j : text[m] = sep
         /\ \A i \in a[k] .. z[k] : text[i] = Blank \/ i \in p .. q
  <1> DEFINE A == a[k]
             Z == z[k]
             P == Solid(text, A, Z)
             L == Len(text)
  <1>1. /\ L \in Nat /\ A \in Nat /\ Z \in Nat /\ 1 <= A /\ A <= Z + 1 /\ Z <= L
    BY DEF Lays, Text
  <1>2. /\ A = 1 \/ (A > 1 /\ text[A - 1] = sep)
        /\ Z = L \/ (Z < L /\ text[Z + 1] = sep)
    BY DEF Lays
  <1>3. \A i \in A .. Z : text[i] # sep
    BY DEF Lays
  <1>4. Span(text, A, Z)
    BY <1>1 DEF Span
  <1>5. /\ P \in SUBSET (1 .. L) /\ \A i \in P : i \in A .. Z /\ text[i] # Blank
    BY <1>4, SolidFacts
  <1>6. \A i \in A .. Z : text[i] = Blank \/ i \in P
    BY DEF Solid
  <1>7. P # {} /\ p = Least(P) /\ q = Greatest(P)
    OBVIOUS
  <1> HIDE DEF A, Z, P, L
  <1>8. /\ p \in P /\ q \in P /\ p \in 1 .. L /\ q \in 1 .. L /\ p <= q
        /\ \A j \in P : p <= j /\ j <= q
    BY <1>1, <1>5, <1>7, LeastFacts
  <1>9. p \in A .. Z /\ q \in A .. Z /\ text[p] # Blank /\ text[q] # Blank
    BY <1>5, <1>8
  <1>10. Tight(text, p, q)
    <2>1. Span(text, p, q)
      BY <1>1, <1>8 DEF Span, L
    <2> QED
      BY <1>8, <1>9, <2>1 DEF Tight
  <1>11. \A i \in p .. q : text[i] # sep
    <2>1. \A i \in p .. q : i \in A .. Z
      BY <1>1, <1>9
    <2> QED
      BY <1>3, <2>1
  <1>12. ASSUME NEW j \in 1 .. p - 1
         PROVE  text[j] = Blank \/ \E m \in j .. p - 1 : text[m] = sep
    <2>1. CASE j \in A .. Z
      <3>1. j \notin P
        BY <1>8
      <3> QED
        BY <1>6, <2>1, <3>1
    <2>2. CASE j \notin A .. Z
      <3>1. j < A /\ A > 1
        BY <1>1, <1>9, <2>2
      <3>2. text[A - 1] = sep /\ A - 1 \in j .. p - 1
        BY <1>1, <1>2, <1>9, <3>1
      <3> QED
        BY <3>2
    <2> QED
      BY <2>1, <2>2
  <1>13. ASSUME NEW j \in q + 1 .. L
         PROVE  text[j] = Blank \/ \E m \in q + 1 .. j : text[m] = sep
    <2>1. CASE j \in A .. Z
      <3>1. j \notin P
        BY <1>1, <1>8
      <3> QED
        BY <1>6, <2>1, <3>1
    <2>2. CASE j \notin A .. Z
      <3>1. Z < j /\ j <= L /\ j \in Int
        BY <1>1, <1>9, <2>2
      <3>2. text[Z + 1] = sep
        BY <1>1, <1>2, <3>1
      <3>3. Z + 1 \in q + 1 .. j
        BY <1>1, <1>9, <3>1
      <3> QED
        BY <3>2, <3>3
    <2> QED
      BY <2>1, <2>2
  <1>14. \A i \in A .. Z : text[i] = Blank \/ i \in p .. q
    <2> TAKE i \in A .. Z
    <2>1. i \in P => p <= i /\ i <= q
      BY <1>8
    <2>2. i \in Int /\ p \in Int /\ q \in Int
      BY <1>1, <1>8
    <2> QED
      BY <1>6, <2>1, <2>2
  <1>15. A <= p /\ q <= Z
    BY <1>1, <1>9
  <1> QED
    BY <1>8, <1>10, <1>11, <1>12, <1>13, <1>14, <1>15 DEF A, Z, L

\* The items of a text are these parts, in order.
LEMMA ItemsAreCut ==
  ASSUME NEW text \in Text, NEW sep
  PROVE  CutsInto(Items(text, sep), text, sep)
  <1> DEFINE raw == SplitOn(text, sep)
             L == Len(text)
  <1>1. L \in Nat /\ raw \in Seq(Text)
    BY SplitOnCuts DEF Text
  <1>2. PICK M, b, y : Lays(text, sep, L, M, b, y) /\ raw = Slices(text, M, b, y)
    BY SplitOnCuts DEF SplitsInto
  <1>3. /\ M \in Nat \ {0} /\ b \in [1 .. M -> Nat] /\ y \in [1 .. M -> Nat]
        /\ \A k \in 1 .. M : 1 <= b[k] /\ b[k] <= y[k] + 1 /\ y[k] <= L
        /\ \A j, k \in 1 .. M : j < k => y[j] + 1 < b[k]
        /\ \A i \in 1 .. L : text[i] = sep \/ \E k \in 1 .. M : i \in b[k] .. y[k]
    BY <1>2 DEF Lays
  <1>4. DOMAIN raw = 1 .. M /\ \A k \in 1 .. M : raw[k] = Slice(text, b[k], y[k])
    BY <1>2 DEF Slices
  <1> DEFINE S(k) == Solid(text, b[k], y[k])
             parts == [k \in DOMAIN raw |-> TrimSpace(raw[k])]
             P == {k \in DOMAIN parts : parts[k] # <<>>}
             N == Cardinality(P)
             a == [k \in 1 .. N |-> Least(S(From(P, k)))]
             z == [k \in 1 .. N |-> Greatest(S(From(P, k)))]
  <1>5. Items(text, sep) = Picked(parts, P)
    BY DEF Items
  <1>6. ASSUME NEW k \in 1 .. M
        PROVE  /\ S(k) \in SUBSET (1 .. L) /\ parts[k] = Cover(text, S(k))
               /\ parts[k] \in Text /\ (parts[k] # <<>> <=> S(k) # {})
    <2>1. Span(text, b[k], y[k])
      BY <1>3 DEF Span
    <2>2. S(k) \in SUBSET (1 .. L)
      BY <2>1, SolidFacts
    <2>3. parts[k] = Cover(text, S(k))
      <3>1. parts[k] = TrimSpace(Slice(text, b[k], y[k]))
        BY <1>4
      <3> HIDE DEF parts
      <3> QED
        BY <2>1, <3>1, TrimSlice
    <2> HIDE DEF parts, S
    <2>4. Cover(text, S(k)) \in Text /\ (Cover(text, S(k)) # <<>> <=> S(k) # {})
      BY <2>2, CoverFacts
    <2> QED
      BY <2>2, <2>3, <2>4
  <1>7. parts \in Seq(Text) /\ DOMAIN parts = 1 .. M
    <2>1. parts = [k \in 1 .. M |-> parts[k]]
      BY <1>4
    <2>2. \A k \in 1 .. M : parts[k] \in Text
      BY <1>6
    <2>3. M \in Nat
      BY <1>3
    <2> HIDE DEF parts
    <2>4. parts \in Seq(Text)
      BY <2>1, <2>2, <2>3, FunctionIsSequence
    <2> QED
      BY <2>1, <2>4
  <1>8. P \in SUBSET (DOMAIN parts) /\ \A k \in 1 .. M : k \in P <=> S(k) # {}
    <2>1. \A k \in 1 .. M : parts[k] # <<>> <=> S(k) # {}
      BY <1>6
    <2> HIDE DEF parts, S
    <2> QED
      BY <1>7, <2>1
  <1> HIDE DEF parts, P
  <1>9. /\ N \in Nat
        /\ \A k \in 1 .. N : From(P, k) \in P /\ Picked(parts, P)[k] = parts[From(P, k)]
        /\ \A k, l \in 1 .. N : k < l => From(P, k) < From(P, l)
        /\ \A i \in P : \E k \in 1 .. N : From(P, k) = i
    BY <1>7, <1>8, FromFacts
  <1>10. Picked(parts, P) = [k \in 1 .. N |-> Picked(parts, P)[k]]
    BY DEF Picked
  <1> HIDE DEF N
  <1>11. \A k \in 1 .. N : /\ From(P, k) \in 1 .. M /\ S(From(P, k)) # {}
                           /\ a[k] = Least(S(From(P, k))) /\ z[k] = Greatest(S(From(P, k)))
    BY <1>7, <1>8, <1>9
  <1> HIDE DEF a, z
  <1>12. ASSUME NEW k \in 1 .. N
         PROVE  /\ a[k] \in 1 .. L /\ z[k] \in 1 .. L
                /\ b[From(P, k)] <= a[k] /\ a[k] <= z[k] /\ z[k] <= y[From(P, k)]
                /\ Tight(text, a[k], z[k])
                /\ \A i \in a[k] .. z[k] : text[i] # sep
                /\ \A j \in 1 .. a[k] - 1 :
                      text[j] = Blank \/ \E m \in j .. a[k] - 1 : text[m] = sep
                /\ \A j \in z[k] + 1 .. L :
                      text[j] = Blank \/ \E m \in z[k] + 1 .. j : text[m] = sep
                /\ \A i \in b[From(P, k)] .. y[From(P, k)] : text[i] = Blank \/ i \in a[k] .. z[k]
    <2> DEFINE f == From(P, k)
               p == a[k]
               q == z[k]
    <2>1. /\ f \in 1 .. M /\ Solid(text, b[f], y[f]) # {}
          /\ p = Least(Solid(text, b[f], y[f])) /\ q = Greatest(Solid(text, b[f], y[f]))
      BY <1>11
    <2>2. Lays(text, sep, Len(text), M, b, y)
      BY <1>2
    <2> HIDE DEF f, p, q, S
    <2>3. /\ p \in 1 .. Len(text) /\ q \in 1 .. Len(text)
          /\ b[f] <= p /\ p <= q /\ q <= y[f]
          /\ Tight(text, p, q)
          /\ \A i \in p .. q : text[i] # sep
          /\ \A j \in 1 .. p - 1 : text[j] = Blank \/ \E m \in j .. p - 1 : text[m] = sep
          /\ \A j \in q + 1 .. Len(text) : text[j] = Blank \/ \E m \in q + 1 .. j : text[m] = sep
          /\ \A i \in b[f] .. y[f] : text[i] = Blank \/ i \in p .. q
      BY <2>1, <2>2, PartTrimmed
    <2> QED
      BY <2>3 DEF f, p, q
  <1>13. a \in [1 .. N -> 1 .. L] /\ z \in [1 .. N -> 1 .. L]
    <2>1. \A k \in 1 .. N : a[k] \in 1 .. L /\ z[k] \in 1 .. L
      BY <1>12
    <2> QED
      BY <2>1 DEF a, z
  <1>14. ASSUME NEW j \in 1 .. N, NEW k \in 1 .. N, j < k
         PROVE  z[j] < a[k]
    <2>1. From(P, j) < From(P, k) /\ From(P, j) \in 1 .. M /\ From(P, k) \in 1 .. M
      BY <1>9, <1>11, <1>14
    <2>2. /\ y[From(P, j)] + 1 < b[From(P, k)]
          /\ y[From(P, j)] \in Nat /\ b[From(P, k)] \in Nat
      BY <1>3, <2>1
    <2>3. z[j] <= y[From(P, j)] /\ b[From(P, k)] <= a[k] /\ z[j] \in Nat /\ a[k] \in Nat
      BY <1>1, <1>12
    <2> QED
      BY <2>2, <2>3
  <1>15. ASSUME NEW i \in 1 .. L
         PROVE  text[i] = Blank \/ text[i] = sep \/ \E k \in 1 .. N : i \in a[k] .. z[k]
    <2> SUFFICES ASSUME text[i] # Blank, text[i] # sep
                 PROVE  \E k \in 1 .. N : i \in a[k] .. z[k]
      OBVIOUS
    <2>1. PICK f \in 1 .. M : i \in b[f] .. y[f]
      BY <1>3
    <2>2. S(f) # {}
      BY <2>1 DEF Solid
    <2>3. PICK k \in 1 .. N : From(P, k) = f
      BY <1>8, <1>9, <2>2
    <2>4. i \in a[k] .. z[k]
      BY <1>12, <2>1, <2>3
    <2> QED
      BY <2>4
  <1>16. Cuts(text, sep, N, a, z)
    BY <1>9, <1>12, <1>13, <1>14, <1>15, Zenon DEF Cuts, L
  <1>17. Items(text, sep) = Slices(text, N, a, z)
    <2>1. ASSUME NEW k \in 1 .. N PROVE Picked(parts, P)[k] = Slice(text, a[k], z[k])
      <3>1. parts[From(P, k)] = Cover(text, S(From(P, k)))
        BY <1>6, <1>11
      <3>2. Cover(text, S(From(P, k))) = Slice(text, a[k], z[k])
        BY <1>11 DEF Cover
      <3> QED
        BY <1>9, <3>1, <3>2
    <2>2. Picked(parts, P) = [k \in 1 .. N |-> Slice(text, a[k], z[k])]
      BY <1>10, <2>1
    <2> QED
      BY <1>5, <2>2 DEF Slices
  <1> QED
    BY <1>16, <1>17 DEF CutsInto

-----------------------------------------------------------------------------
(* What a record says.                                                     *)

\* A part between two semicolons, without its spaces.
Segment(text, A, Z) ==
    /\ Tight(text, A, Z)
    /\ \A i \in A .. Z : text[i] # Semicolon
    /\ \A j \in 1 .. A - 1 : text[j] = Blank \/ \E m \in j .. A - 1 : text[m] = Semicolon
    /\ \A j \in Z + 1 .. Len(text) :
          text[j] = Blank \/ \E m \in Z + 1 .. j : text[m] = Semicolon

LEMMA SegmentFacts ==
  ASSUME NEW text \in Text, NEW A, NEW Z, Segment(text, A, Z)
  PROVE  /\ Len(text) \in Nat /\ A \in 1 .. Len(text) /\ Z \in 1 .. Len(text) /\ A <= Z
         /\ \A i \in A .. Z : text[i] # Semicolon
         /\ \A j \in 1 .. A - 1 : text[j] = Blank \/ \E m \in j .. A - 1 : text[m] = Semicolon
         /\ \A j \in Z + 1 .. Len(text) :
               text[j] = Blank \/ \E m \in Z + 1 .. j : text[m] = Semicolon
  <1>1. /\ Tight(text, A, Z)
        /\ \A i \in A .. Z : text[i] # Semicolon
        /\ \A j \in 1 .. A - 1 : text[j] = Blank \/ \E m \in j .. A - 1 : text[m] = Semicolon
        /\ \A j \in Z + 1 .. Len(text) :
              text[j] = Blank \/ \E m \in Z + 1 .. j : text[m] = Semicolon
    BY DEF Segment
  <1>2. A \in 1 .. Len(text) /\ Z \in 1 .. Len(text) /\ A <= Z /\ Len(text) \in Nat
    BY <1>1, TightFacts DEF Text
  <1> QED
    BY <1>1, <1>2

\* Whether a tag stands alone, and what its value is, is up to its part.
LEMMA SaysInside ==
  ASSUME NEW text \in Text, NEW A, NEW Z, Segment(text, A, Z),
         NEW t, NEW i \in A .. Z, text[i] = t
  PROVE  i \in Says(text, t) <=>
            /\ \A j \in A .. i - 1 : text[j] = Blank
            /\ \A j \in i + 1 .. Z : text[j] = Blank \/ \E m \in i + 1 .. j : text[m] = "="
  <1> DEFINE L == Len(text)
  <1>1. /\ L \in Nat /\ A \in 1 .. L /\ Z \in 1 .. L /\ A <= Z
        /\ \A j \in A .. Z : text[j] # Semicolon
    BY SegmentFacts
  <1>2. \A j \in 1 .. A - 1 : text[j] = Blank \/ \E m \in j .. A - 1 : text[m] = Semicolon
    BY SegmentFacts
  <1>3. \A j \in Z + 1 .. L : text[j] = Blank \/ \E m \in Z + 1 .. j : text[m] = Semicolon
    BY SegmentFacts
  <1>4. i \in DOMAIN text /\ i \in 1 .. L
    BY <1>1 DEF Text
  <1> DEFINE Before == \A j \in 1 .. i - 1 :
                          text[j] = Blank \/ \E m \in j .. i - 1 : text[m] = Semicolon
             Behind == \A j \in i + 1 .. L :
                          text[j] = Blank \/ \E m \in i + 1 .. j : text[m] \in {"=", Semicolon}
  <1>5. i \in Says(text, t) <=> Before /\ Behind
    BY <1>4 DEF Says
  <1> HIDE DEF L
  <1>6. Before <=> \A j \in A .. i - 1 : text[j] = Blank
    <2>1. ASSUME Before, NEW j \in A .. i - 1 PROVE text[j] = Blank
      <3>1. j \in 1 .. i - 1
        BY <1>1
      <3>2. \A m \in j .. i - 1 : text[m] # Semicolon
        <4>1. \A m \in j .. i - 1 : m \in A .. Z
          BY <1>1
        <4> QED
          BY <1>1, <4>1
      <3> QED
        BY <2>1, <3>1, <3>2
    <2>2. ASSUME \A j \in A .. i - 1 : text[j] = Blank, NEW j \in 1 .. i - 1
          PROVE  text[j] = Blank \/ \E m \in j .. i - 1 : text[m] = Semicolon
      <3>1. CASE j \in A .. i - 1
        BY <2>2, <3>1
      <3>2. CASE j \notin A .. i - 1
        <4>1. j \in 1 .. A - 1
          BY <1>1, <3>2
        <4>2. \A m \in j .. A - 1 : m \in j .. i - 1
          BY <1>1, <4>1
        <4> QED
          BY <1>2, <4>1, <4>2
      <3> QED
        BY <3>1, <3>2
    <2> QED
      BY <2>1, <2>2
  <1>7. Behind <=>
           \A j \in i + 1 .. Z : text[j] = Blank \/ \E m \in i + 1 .. j : text[m] = "="
    <2>1. ASSUME Behind, NEW j \in i + 1 .. Z
          PROVE  text[j] = Blank \/ \E m \in i + 1 .. j : text[m] = "="
      <3>1. j \in i + 1 .. L
        BY <1>1
      <3>2. \A m \in i + 1 .. j : text[m] # Semicolon
        <4>1. \A m \in i + 1 .. j : m \in A .. Z
          BY <1>1
        <4> QED
          BY <1>1, <4>1
      <3>3. text[j] = Blank \/ \E m \in i + 1 .. j : text[m] \in {"=", Semicolon}
        BY <2>1, <3>1
      <3> QED
        BY <3>2, <3>3
    <2>2. ASSUME \A j \in i + 1 .. Z : text[j] = Blank \/ \E m \in i + 1 .. j : text[m] = "=",
                 NEW j \in i + 1 .. L
          PROVE  text[j] = Blank \/ \E m \in i + 1 .. j : text[m] \in {"=", Semicolon}
      <3>1. CASE j \in i + 1 .. Z
        BY <2>2, <3>1
      <3>2. CASE j \notin i + 1 .. Z
        <4>1. j \in Z + 1 .. L
          BY <1>1, <3>2
        <4>2. \A m \in Z + 1 .. j : m \in i + 1 .. j
          BY <1>1, <4>1
        <4> QED
          BY <1>3, <4>1, <4>2
      <3> QED
        BY <3>1, <3>2
    <2> QED
      BY <2>1, <2>2
  <1> QED
    BY <1>5, <1>6, <1>7

LEMMA ValuesInside ==
  ASSUME NEW text \in Text, NEW A, NEW Z, Segment(text, A, Z), NEW i \in A .. Z
  PROVE  Values(text, i) =
            {j \in i + 1 .. Z : text[j] # Blank /\ \E e \in i + 1 .. j - 1 : text[e] = "="}
  <1> DEFINE L == Len(text)
  <1>1. /\ L \in Nat /\ A \in 1 .. L /\ Z \in 1 .. L /\ A <= Z
        /\ \A j \in A .. Z : text[j] # Semicolon
    BY SegmentFacts
  <1>2. \A j \in Z + 1 .. L : text[j] = Blank \/ \E m \in Z + 1 .. j : text[m] = Semicolon
    BY SegmentFacts
  <1>3. Values(text, i) =
           {j \in i + 1 .. L : /\ text[j] # Blank /\ \E e \in i + 1 .. j - 1 : text[e] = "="
                               /\ \A m \in i + 1 .. j : text[m] # Semicolon}
    BY DEF Values
  <1> HIDE DEF L
  <1>4. ASSUME NEW j \in i + 1 .. Z PROVE j \in i + 1 .. L /\ \A m \in i + 1 .. j : text[m] # Semicolon
    <2>1. \A m \in i + 1 .. j : m \in A .. Z
      BY <1>1
    <2>2. j \in i + 1 .. L
      BY <1>1
    <2> QED
      BY <1>1, <2>1, <2>2
  <1>5. ASSUME NEW j \in i + 1 .. L, text[j] # Blank, \A m \in i + 1 .. j : text[m] # Semicolon
        PROVE  j \in i + 1 .. Z
    <2> SUFFICES ASSUME j \notin i + 1 .. Z PROVE FALSE
      OBVIOUS
    <2>1. j \in Z + 1 .. L
      BY <1>1
    <2>2. PICK m \in Z + 1 .. j : text[m] = Semicolon
      BY <1>2, <1>5, <2>1
    <2>3. m \in i + 1 .. j
      BY <1>1, <2>1
    <2> QED
      BY <1>5, <2>2, <2>3
  <1>6. \A j \in i + 1 .. Z : j \in i + 1 .. L /\ \A m \in i + 1 .. j : text[m] # Semicolon
    BY <1>4
  <1>7. \A j \in i + 1 .. L :
           text[j] # Blank /\ (\A m \in i + 1 .. j : text[m] # Semicolon) => j \in i + 1 .. Z
    BY <1>5
  <1> QED
    BY <1>3, <1>6, <1>7

\* The pair made of a part has a tag if the part says so, and its value.
Plain(t) == t # Blank /\ t # "=" /\ t # Semicolon

PairSays(text, t, A, Z) ==
    LET pair == PairOf(Slice(text, A, Z))
    IN  /\ pair.tag = <<t>> <=> \E i \in A .. Z : i \in Says(text, t)
        /\ \A i \in A .. Z : i \in Says(text, t) => pair.value = Cover(text, Values(text, i))

LEMMA SaysTag ==
  ASSUME NEW text, NEW t, NEW i \in Says(text, t)
  PROVE  text[i] = t
  BY DEF Says

LEMMA PairWithoutSays ==
  ASSUME NEW text \in Text, NEW A, NEW Z, Segment(text, A, Z), NEW t, Plain(t),
         \A e \in A .. Z : text[e] # "="
  PROVE  PairSays(text, t, A, Z)
  <1> DEFINE P == Solid(text, A, Z)
             pair == PairOf(Slice(text, A, Z))
  <1>1. Len(text) \in Nat /\ A \in 1 .. Len(text) /\ Z \in 1 .. Len(text) /\ A <= Z
    BY SegmentFacts
  <1>2. Tight(text, A, Z)
    BY DEF Segment
  <1>3. pair = [tag |-> Cover(text, P), value |-> <<>>]
    BY <1>2, PairWithout
  <1>4. Span(text, A, Z)
    BY <1>2, TightFacts
  <1>5. P \in SUBSET (1 .. Len(text)) /\ \A i \in P : i \in A .. Z /\ text[i] # Blank
    BY <1>4, SolidFacts
  <1>6. \A i \in A .. Z : text[i] = Blank \/ i \in P
    BY DEF Solid
  <1> HIDE DEF P, pair
  <1>7. pair.tag = <<t>> <=> \E i \in P : P = {i} /\ text[i] = t
    <2>1. pair.tag = Cover(text, P)
      BY <1>3
    <2>2. P \in SUBSET (1 .. Len(text))
      BY <1>5
    <2>3. Cover(text, P) = <<t>> <=> OneAt(text, P, t)
      BY <2>2, CoverOne
    <2> QED
      BY <2>1, <2>3 DEF OneAt
  <1>8. ASSUME NEW i \in P, P = {i}, text[i] = t PROVE i \in Says(text, t)
    <2>1. i \in A .. Z
      BY <1>5
    <2>2. \A j \in A .. i - 1 : text[j] = Blank
      <3> TAKE j \in A .. i - 1
      <3>1. j \in A .. Z /\ j # i
        BY <1>1, <2>1
      <3> QED
        BY <1>6, <1>8, <3>1
    <2>3. \A j \in i + 1 .. Z : text[j] = Blank
      <3> TAKE j \in i + 1 .. Z
      <3>1. j \in A .. Z /\ j # i
        BY <1>1, <2>1
      <3> QED
        BY <1>6, <1>8, <3>1
    <2> QED
      BY <1>8, <2>1, <2>2, <2>3, SaysInside
  <1>9. ASSUME NEW i \in A .. Z, i \in Says(text, t)
        PROVE  P = {i} /\ text[i] = t /\ i \in P
    <2>1. text[i] = t
      BY <1>9, SaysTag
    <2>2. /\ \A j \in A .. i - 1 : text[j] = Blank
          /\ \A j \in i + 1 .. Z : text[j] = Blank \/ \E m \in i + 1 .. j : text[m] = "="
      BY <1>9, <2>1, SaysInside
    <2>3. i \in P
      BY <1>6, <2>1 DEF Plain
    <2>4. ASSUME NEW j \in P PROVE j = i
      <3>1. j \in A .. Z /\ text[j] # Blank
        BY <1>5
      <3>2. ~(j < i)
        <4>1. j < i => j \in A .. i - 1
          BY <1>1, <3>1
        <4> QED
          BY <2>2, <3>1, <4>1
      <3>3. ~(i < j)
        <4> SUFFICES ASSUME i < j PROVE FALSE
          OBVIOUS
        <4>1. j \in i + 1 .. Z /\ \A m \in i + 1 .. j : m \in A .. Z
          BY <1>1, <3>1
        <4> QED
          BY <2>2, <3>1, <4>1
      <3> QED
        BY <1>1, <3>1, <3>2, <3>3
    <2> QED
      BY <2>1, <2>3, <2>4
  <1>10. ASSUME NEW i \in A .. Z PROVE Values(text, i) = {}
    <2>1. \A j \in i + 1 .. Z : \A e \in i + 1 .. j - 1 : e \in A .. Z
      BY <1>1
    <2>2. \A j \in i + 1 .. Z : ~ \E e \in i + 1 .. j - 1 : text[e] = "="
      BY <2>1
    <2> QED
      BY <2>2, ValuesInside
  <1>11. Cover(text, {}) = <<>>
    BY DEF Cover
  <1>12. pair.value = <<>>
    BY <1>3
  <1>13. pair.tag = <<t>> <=> \E i \in A .. Z : i \in Says(text, t)
    BY <1>5, <1>7, <1>8, <1>9
  <1>14. \A i \in A .. Z : i \in Says(text, t) => pair.value = Cover(text, Values(text, i))
    BY <1>10, <1>11, <1>12
  <1> QED
    BY <1>13, <1>14 DEF PairSays, pair

LEMMA PairWithSays ==
  ASSUME NEW text \in Text, NEW A, NEW Z, Segment(text, A, Z), NEW t, Plain(t),
         NEW e \in A .. Z, text[e] = "=", \A j \in A .. e - 1 : text[j] # "="
  PROVE  PairSays(text, t, A, Z)
  <1> DEFINE P == Solid(text, A, e - 1)
             Q == Solid(text, e + 1, Z)
             pair == PairOf(Slice(text, A, Z))
  <1>1. /\ Len(text) \in Nat /\ A \in 1 .. Len(text) /\ Z \in 1 .. Len(text) /\ A <= Z
        /\ \A i \in A .. Z : text[i] # Semicolon
    BY SegmentFacts
  <1>2. Tight(text, A, Z)
    BY DEF Segment
  <1>3. pair = [tag |-> Cover(text, P), value |-> Cover(text, Q)]
    BY <1>2, PairWith
  <1>4. Span(text, A, e - 1)
    BY <1>2, PairWith
  <1>5. P \in SUBSET (1 .. Len(text)) /\ \A i \in P : i \in A .. e - 1 /\ text[i] # Blank
    BY <1>4, SolidFacts
  <1>6. \A i \in A .. e - 1 : text[i] = Blank \/ i \in P
    BY DEF Solid
  <1>7. \A i \in e + 1 .. Z : i \in Q <=> text[i] # Blank
    BY DEF Solid
  <1>8. \A i \in Q : i \in e + 1 .. Z
    BY DEF Solid
  <1>9. \A i \in A .. e - 1 : i \in A .. Z
    BY <1>1
  <1> HIDE DEF P, Q, pair
  <1>10. pair.tag = <<t>> <=> \E i \in P : P = {i} /\ text[i] = t
    <2>1. pair.tag = Cover(text, P)
      BY <1>3
    <2>2. P \in SUBSET (1 .. Len(text))
      BY <1>5
    <2>3. Cover(text, P) = <<t>> <=> OneAt(text, P, t)
      BY <2>2, CoverOne
    <2> QED
      BY <2>1, <2>3 DEF OneAt
  <1>11. ASSUME NEW i \in P, P = {i}, text[i] = t PROVE i \in Says(text, t) /\ i \in A .. Z
    <2>1. i \in A .. Z /\ i \in A .. e - 1
      BY <1>5, <1>9
    <2>2. \A j \in A .. i - 1 : text[j] = Blank
      <3> TAKE j \in A .. i - 1
      <3>1. j \in A .. e - 1 /\ j # i
        BY <1>1, <2>1
      <3> QED
        BY <1>6, <1>11, <3>1
    <2>3. \A j \in i + 1 .. Z : text[j] = Blank \/ \E m \in i + 1 .. j : text[m] = "="
      <3> TAKE j \in i + 1 .. Z
      <3>1. CASE j < e
        <4>1. j \in A .. e - 1 /\ j # i
          BY <1>1, <2>1, <3>1
        <4> QED
          BY <1>6, <1>11, <4>1
      <3>2. CASE ~(j < e)
        <4>1. e \in i + 1 .. j
          BY <1>1, <2>1, <3>2
        <4> QED
          BY <4>1
      <3> QED
        BY <3>1, <3>2
    <2> QED
      BY <1>11, <2>1, <2>2, <2>3, SaysInside
  <1>12. ASSUME NEW i \in A .. Z, i \in Says(text, t)
         PROVE  P = {i} /\ text[i] = t /\ i \in P /\ i \in A .. e - 1
    <2>1. text[i] = t
      BY <1>12, SaysTag
    <2>2. /\ \A j \in A .. i - 1 : text[j] = Blank
          /\ \A j \in i + 1 .. Z : text[j] = Blank \/ \E m \in i + 1 .. j : text[m] = "="
      BY <1>12, <2>1, SaysInside
    <2>3. i \in A .. e - 1
      <3>1. i # e
        BY <2>1 DEF Plain
      <3>2. ~(e < i)
        <4>1. e < i => e \in A .. i - 1
          BY <1>1
        <4>2. Blank # "="
          BY Punctuation
        <4> QED
          BY <2>2, <4>1, <4>2
      <3> QED
        BY <1>1, <3>1, <3>2
    <2>4. i \in P
      BY <1>6, <2>1, <2>3 DEF Plain
    <2>5. ASSUME NEW j \in P PROVE j = i
      <3>1. j \in A .. e - 1 /\ text[j] # Blank
        BY <1>5
      <3>2. ~(j < i)
        <4>1. j < i => j \in A .. i - 1
          BY <1>1, <3>1
        <4> QED
          BY <2>2, <3>1, <4>1
      <3>3. ~(i < j)
        <4> SUFFICES ASSUME i < j PROVE FALSE
          OBVIOUS
        <4>1. j \in i + 1 .. Z /\ \A m \in i + 1 .. j : m \in A .. e - 1
          BY <1>1, <3>1
        <4> QED
          BY <2>2, <3>1, <4>1
      <3> QED
        BY <1>1, <3>1, <3>2, <3>3
    <2> QED
      BY <2>1, <2>3, <2>4, <2>5
  <1>13. ASSUME NEW i \in A .. e - 1 PROVE Values(text, i) = Q
    <2>1. Values(text, i) =
             {j \in i + 1 .. Z : text[j] # Blank /\ \E d \in i + 1 .. j - 1 : text[d] = "="}
      BY <1>9, ValuesInside
    <2>2. ASSUME NEW j \in i + 1 .. Z, NEW d \in i + 1 .. j - 1, text[d] = "="
          PROVE  j \in e + 1 .. Z
      <3>1. ~(d < e)
        <4>1. d < e => d \in A .. e - 1
          BY <1>1
        <4> QED
          BY <2>2, <4>1
      <3> QED
        BY <1>1, <3>1
    <2>3. ASSUME NEW j \in e + 1 .. Z PROVE j \in i + 1 .. Z /\ e \in i + 1 .. j - 1
      BY <1>1
    <2> QED
      BY <1>7, <1>8, <2>1, <2>2, <2>3
  <1>14. pair.value = Cover(text, Q)
    BY <1>3
  <1>15. pair.tag = <<t>> <=> \E i \in A .. Z : i \in Says(text, t)
    BY <1>10, <1>11, <1>12
  <1>16. \A i \in A .. Z : i \in Says(text, t) => pair.value = Cover(text, Values(text, i))
    BY <1>12, <1>13, <1>14
  <1> QED
    BY <1>15, <1>16 DEF PairSays, pair

LEMMA SegmentSays ==
  ASSUME NEW text \in Text, NEW A, NEW Z, Segment(text, A, Z), NEW t, Plain(t)
  PROVE  PairSays(text, t, A, Z)
  <1> DEFINE E == {e \in A .. Z : text[e] = "="}
  <1>1. CASE E = {}
    <2>1. \A e \in A .. Z : text[e] # "="
      BY <1>1
    <2> QED
      BY <2>1, PairWithoutSays
  <1>2. CASE E # {}
    <2>1. Len(text) \in Nat /\ A \in 1 .. Len(text) /\ Z \in 1 .. Len(text) /\ A <= Z
      BY SegmentFacts
    <2>2. E \in SUBSET (1 .. Len(text))
      BY <2>1
    <2>3. \A e : e \in E <=> e \in A .. Z /\ text[e] = "="
      OBVIOUS
    <2> HIDE DEF E
    <2>4. PICK e \in E : \A j \in E : e <= j
      BY <1>2, <2>1, <2>2, EndsOf
    <2>5. e \in A .. Z /\ text[e] = "="
      BY <2>3, <2>4
    <2>6. \A j \in A .. e - 1 : text[j] # "="
      <3> SUFFICES ASSUME NEW j \in A .. e - 1, text[j] = "=" PROVE FALSE
        OBVIOUS
      <3>1. j \in A .. Z /\ ~(e <= j)
        BY <2>1, <2>5
      <3> QED
        BY <2>3, <2>4, <3>1
    <2> QED
      BY <2>5, <2>6, PairWithSays
  <1> QED
    BY <1>1, <1>2

\* The pairs of a record, and where their parts are.
PairsOf(text, N, a, z) ==
    /\ Cuts(text, Semicolon, N, a, z)
    /\ Parse(text) = [k \in 1 .. N |-> PairOf(Slice(text, a[k], z[k]))]

LEMMA ParseCuts ==
  ASSUME NEW text \in Text
  PROVE  \E N, a, z : PairsOf(text, N, a, z)
  <1>1. PICK N, a, z :
           Cuts(text, Semicolon, N, a, z) /\ Items(text, Semicolon) = Slices(text, N, a, z)
    BY ItemsAreCut DEF CutsInto
  <1> DEFINE items == Items(text, Semicolon)
  <1>2. Parse(text) = [k \in DOMAIN items |-> PairOf(items[k])]
    BY DEF Parse
  <1> HIDE DEF items
  <1>3. items = [k \in 1 .. N |-> Slice(text, a[k], z[k])]
    BY <1>1 DEF Slices, items
  <1>4. DOMAIN items = 1 .. N /\ \A k \in 1 .. N : items[k] = Slice(text, a[k], z[k])
    BY <1>3
  <1>5. Parse(text) = [k \in 1 .. N |-> PairOf(Slice(text, a[k], z[k]))]
    BY <1>2, <1>4
  <1> QED
    BY <1>1, <1>5 DEF PairsOf

\* A tag is in just one of the parts.
LEMMA PairsSay ==
  ASSUME NEW text \in Text, NEW N, NEW a, NEW z, PairsOf(text, N, a, z),
         NEW t, Plain(t)
  PROVE  /\ N \in Nat /\ DOMAIN Parse(text) = 1 .. N
         /\ \A k \in 1 .. N : a[k] \in 1 .. Len(text) /\ z[k] \in 1 .. Len(text) /\ a[k] <= z[k]
         /\ \A k \in 1 .. N : text[a[k]] # Blank /\ text[a[k]] # Semicolon
         /\ \A k \in 1 .. N : \A i \in a[k] .. z[k] : text[i] # Semicolon
         /\ \A j, k \in 1 .. N : j < k => z[j] < a[k]
         /\ \A k \in 1 .. N :
               Parse(text)[k].tag = <<t>> <=> \E i \in a[k] .. z[k] : i \in Says(text, t)
         /\ \A k \in 1 .. N : \A i \in a[k] .. z[k] :
               i \in Says(text, t) => Parse(text)[k].value = Cover(text, Values(text, i))
         /\ \A i \in Says(text, t) : \E k \in 1 .. N : i \in a[k] .. z[k]
         /\ \A i \in 1 .. Len(text) :
               text[i] = Blank \/ text[i] = Semicolon \/ \E k \in 1 .. N : i \in a[k] .. z[k]
  <1>1. Cuts(text, Semicolon, N, a, z)
    BY DEF PairsOf
  <1>2. Parse(text) = [k \in 1 .. N |-> PairOf(Slice(text, a[k], z[k]))]
    BY DEF PairsOf
  <1>3. /\ N \in Nat /\ \A k \in 1 .. N : Tight(text, a[k], z[k])
        /\ \A j, k \in 1 .. N : j < k => z[j] < a[k]
        /\ \A k \in 1 .. N : \A i \in a[k] .. z[k] : text[i] # Semicolon
        /\ \A i \in 1 .. Len(text) :
              text[i] = Blank \/ text[i] = Semicolon \/ \E k \in 1 .. N : i \in a[k] .. z[k]
    BY <1>1 DEF Cuts
  <1>4. DOMAIN Parse(text) = 1 .. N
        /\ \A k \in 1 .. N : Parse(text)[k] = PairOf(Slice(text, a[k], z[k]))
    BY <1>2
  <1>5. ASSUME NEW k \in 1 .. N
        PROVE  /\ a[k] \in 1 .. Len(text) /\ z[k] \in 1 .. Len(text) /\ a[k] <= z[k]
               /\ text[a[k]] # Blank
    <2>1. Tight(text, a[k], z[k])
      BY <1>3
    <2>2. text[a[k]] # Blank
      BY <2>1 DEF Tight
    <2> QED
      BY <2>1, <2>2, TightFacts
  <1>6. ASSUME NEW k \in 1 .. N PROVE Segment(text, a[k], z[k])
    BY <1>1 DEF Cuts, Segment
  <1>7. ASSUME NEW k \in 1 .. N PROVE PairSays(text, t, a[k], z[k])
    BY <1>6, SegmentSays
  <1>8. \A k \in 1 .. N : text[a[k]] # Semicolon
    <2> TAKE k \in 1 .. N
    <2>1. a[k] \in a[k] .. z[k]
      BY <1>5
    <2> QED
      BY <1>3, <2>1
  <1>9. ASSUME NEW i \in Says(text, t) PROVE \E k \in 1 .. N : i \in a[k] .. z[k]
    <2>1. text[i] = t
      BY SaysTag
    <2>2. i \in DOMAIN text
      BY DEF Says
    <2>3. i \in 1 .. Len(text)
      BY <2>2 DEF Text
    <2> QED
      BY <1>3, <2>1, <2>3 DEF Plain
  <1>10. \A k \in 1 .. N :
            Parse(text)[k].tag = <<t>> <=> \E i \in a[k] .. z[k] : i \in Says(text, t)
    BY <1>4, <1>7 DEF PairSays
  <1>11. \A k \in 1 .. N : \A i \in a[k] .. z[k] :
            i \in Says(text, t) => Parse(text)[k].value = Cover(text, Values(text, i))
    BY <1>4, <1>7 DEF PairSays
  <1> QED
    BY <1>3, <1>4, <1>5, <1>8, <1>9, <1>10, <1>11

LEMMA SaysValues ==
  ASSUME NEW text \in Text, NEW t
  PROVE  /\ Len(text) \in Nat /\ Says(text, t) \in SUBSET (1 .. Len(text))
         /\ \A i \in Says(text, t) : Values(text, i) \in SUBSET (1 .. Len(text))
         /\ \A i \in Says(text, t) : text[i] = t
  <1>1. Len(text) \in Nat /\ DOMAIN text = 1 .. Len(text)
    BY DEF Text
  <1>2. Says(text, t) \in SUBSET (1 .. Len(text)) /\ \A i \in Says(text, t) : text[i] = t
    BY <1>1 DEF Says
  <1>3. ASSUME NEW i \in Says(text, t) PROVE Values(text, i) \in SUBSET (1 .. Len(text))
    <2>1. i \in 1 .. Len(text)
      BY <1>2
    <2>2. \A j \in i + 1 .. Len(text) : j \in 1 .. Len(text)
      BY <1>1, <2>1
    <2> QED
      BY <2>2 DEF Values
  <1> QED
    BY <1>1, <1>2, <1>3

\* What a record has for a tag is the value of the first that it says.
LEMMA GetFacts ==
  ASSUME NEW text \in Text, NEW t, Plain(t)
  PROVE  Get(Parse(text), t) =
            IF Says(text, t) = {} THEN <<>>
            ELSE Cover(text, Values(text, Least(Says(text, t))))
  <1> DEFINE S == Says(text, t)
             list == Parse(text)
             at == {k \in DOMAIN list : list[k].tag = <<t>>}
  <1>1. Get(list, t) = IF at = {} THEN <<>> ELSE list[Least(at)].value
    BY DEF Get, Least
  <1>2. PICK N, a, z : PairsOf(text, N, a, z)
    BY ParseCuts
  <1>3. /\ N \in Nat /\ DOMAIN list = 1 .. N
        /\ \A k \in 1 .. N : a[k] \in 1 .. Len(text) /\ z[k] \in 1 .. Len(text) /\ a[k] <= z[k]
        /\ \A j, k \in 1 .. N : j < k => z[j] < a[k]
    BY <1>2, PairsSay
  <1>4. \A k \in 1 .. N : list[k].tag = <<t>> <=> \E i \in a[k] .. z[k] : i \in S
    BY <1>2, PairsSay
  <1>5. \A k \in 1 .. N : \A i \in a[k] .. z[k] :
           i \in S => list[k].value = Cover(text, Values(text, i))
    BY <1>2, PairsSay
  <1>6. \A i \in S : \E k \in 1 .. N : i \in a[k] .. z[k]
    BY <1>2, PairsSay
  <1>7. Len(text) \in Nat /\ S \in SUBSET (1 .. Len(text))
    BY SaysValues
  <1>8. at \in SUBSET (1 .. N) /\ \A k \in 1 .. N : k \in at <=> \E i \in a[k] .. z[k] : i \in S
    BY <1>3, <1>4
  <1> HIDE DEF S, list, at
  <1>9. CASE S = {}
    <2>1. at = {}
      BY <1>8, <1>9
    <2> QED
      BY <1>1, <1>9, <2>1 DEF S, list
  <1>10. CASE S # {}
    <2> DEFINE i == Least(S)
    <2>1. i \in S /\ \A j \in S : i <= j
      BY <1>7, <1>10, LeastFacts
    <2> HIDE DEF i
    <2>2. PICK k \in 1 .. N : i \in a[k] .. z[k]
      BY <1>6, <2>1
    <2>3. k \in at
      BY <1>8, <2>1, <2>2
    <2>4. ASSUME NEW l \in at PROVE k <= l
      <3>1. PICK j \in a[l] .. z[l] : j \in S
        BY <1>8
      <3>2. l \in 1 .. N /\ i <= j
        BY <1>8, <2>1, <3>1
      <3>3. l < k => z[l] < a[k]
        BY <1>3, <3>2
      <3>4. a[k] \in Int /\ z[l] \in Int /\ a[l] \in Int /\ z[k] \in Int
        BY <1>3, <3>2
      <3> QED
        BY <1>3, <2>2, <3>1, <3>2, <3>3, <3>4
    <2>5. Least(at) = k
      BY <1>3, <1>8, <2>3, <2>4, LeastIs
    <2>6. list[k].value = Cover(text, Values(text, i))
      BY <1>5, <2>1, <2>2
    <2> QED
      BY <1>1, <1>10, <2>3, <2>5, <2>6 DEF S, list, i
  <1> QED
    BY <1>9, <1>10

LEMMA PlainTags == Plain("v") /\ Plain("V") /\ Plain("p") /\ Plain("rua")
  BY DEF Plain, Blank, Semicolon

\* Its policy.
LEMMA PolicyFacts ==
  ASSUME NEW text \in Text
  PROVE  Get(Parse(text), "p") # <<>> <=> HasPolicy(text)
  <1> DEFINE S == Says(text, "p")
             i == Least(S)
  <1>1. /\ Len(text) \in Nat /\ S \in SUBSET (1 .. Len(text))
        /\ \A j \in S : Values(text, j) \in SUBSET (1 .. Len(text))
    BY SaysValues
  <1>2. Get(Parse(text), "p") = IF S = {} THEN <<>> ELSE Cover(text, Values(text, i))
    BY GetFacts, PlainTags
  <1>3. HasPolicy(text) <=> \E j \in S : Values(text, j) # {} /\ \A k \in S : j <= k
    BY DEF HasPolicy
  <1> HIDE DEF S, i
  <1>4. CASE S = {}
    BY <1>2, <1>3, <1>4
  <1>5. CASE S # {}
    <2>1. i \in S /\ \A k \in S : i <= k
      BY <1>1, <1>5, LeastFacts DEF i
    <2>2. \A j \in S : (\A k \in S : j <= k) => j = i
      <3> SUFFICES ASSUME NEW j \in S, \A k \in S : j <= k PROVE j = i
        OBVIOUS
      <3>1. j <= i /\ i <= j /\ i \in Int /\ j \in Int
        BY <1>1, <2>1
      <3> QED
        BY <3>1
    <2>3. HasPolicy(text) <=> Values(text, i) # {}
      BY <1>3, <2>1, <2>2
    <2>4. Values(text, i) \in SUBSET (1 .. Len(text))
      BY <1>1, <2>1
    <2>5. Cover(text, Values(text, i)) = <<>> <=> Values(text, i) = {}
      BY <2>4, CoverFacts
    <2> QED
      BY <1>2, <1>5, <2>3, <2>5
  <1> QED
    BY <1>4, <1>5

\* Its version.
LEMMA FoldedFacts ==
  ASSUME NEW w
  PROVE  /\ Folded(w) = <<"v">> <=> w = <<"v">> \/ w = <<"V">>
         /\ Folded(w) = <<"DMARC1">> <=> w = <<"DMARC1">> \/ w = <<"dmarc1">>
  <1>1. CASE w = <<"V">>
    <2>1. Folded(w) = <<"v">>
      BY <1>1 DEF Folded
    <2> QED
      BY <1>1, <2>1
  <1>2. CASE w = <<"dmarc1">>
    <2>1. w # <<"V">>
      BY <1>2
    <2>2. Folded(w) = <<"DMARC1">>
      BY <1>2, <2>1 DEF Folded
    <2> QED
      BY <1>2, <2>2
  <1>3. CASE w # <<"V">> /\ w # <<"dmarc1">>
    <2>1. Folded(w) = w
      BY <1>3 DEF Folded
    <2> QED
      BY <1>3, <2>1
  <1> QED
    BY <1>1, <1>2, <1>3

\* Nothing but spaces and semicolons comes before, and the value is the version.
Leads(text, i) == \A j \in 1 .. i - 1 : text[j] = Blank \/ text[j] = Semicolon
IsVersion(w) == w = <<"DMARC1">> \/ w = <<"dmarc1">>
VersionAt(text, i) ==
    OneAt(text, Values(text, i), "DMARC1") \/ OneAt(text, Values(text, i), "dmarc1")

LEMMA FirstPair ==
  ASSUME NEW text \in Text, NEW t, Plain(t)
  PROVE  Parse(text) # <<>> /\ Parse(text)[1].tag = <<t>> /\ IsVersion(Parse(text)[1].value) <=>
            \E i \in Says(text, t) : Leads(text, i) /\ VersionAt(text, i)
  <1> DEFINE S == Says(text, t)
             list == Parse(text)
  <1>1. PICK N, a, z : PairsOf(text, N, a, z)
    BY ParseCuts
  <1>2. /\ N \in Nat /\ DOMAIN list = 1 .. N
        /\ \A k \in 1 .. N : a[k] \in 1 .. Len(text) /\ z[k] \in 1 .. Len(text) /\ a[k] <= z[k]
        /\ \A j, k \in 1 .. N : j < k => z[j] < a[k]
    BY <1>1, PairsSay
  <1>3. /\ \A k \in 1 .. N : text[a[k]] # Blank
        /\ \A k \in 1 .. N : \A i \in a[k] .. z[k] : text[i] # Semicolon
    BY <1>1, PairsSay
  <1>4. \A k \in 1 .. N : list[k].tag = <<t>> <=> \E i \in a[k] .. z[k] : i \in S
    BY <1>1, PairsSay
  <1>5. \A k \in 1 .. N : \A i \in a[k] .. z[k] :
           i \in S => list[k].value = Cover(text, Values(text, i))
    BY <1>1, PairsSay
  <1>6. \A i \in S : \E k \in 1 .. N : i \in a[k] .. z[k]
    BY <1>1, PairsSay
  <1>7. \A i \in 1 .. Len(text) :
           text[i] = Blank \/ text[i] = Semicolon \/ \E k \in 1 .. N : i \in a[k] .. z[k]
    BY <1>1, PairsSay
  <1>8. /\ Len(text) \in Nat /\ S \in SUBSET (1 .. Len(text))
        /\ \A i \in S : Values(text, i) \in SUBSET (1 .. Len(text))
    BY SaysValues
  <1>9. list # <<>> <=> 1 \in 1 .. N
    <2>1. list # <<>> => N # 0
      <3>1. list = [k \in 1 .. N |-> PairOf(Slice(text, a[k], z[k]))]
        BY <1>1 DEF PairsOf
      <3> QED
        BY <3>1
    <2>2. list = <<>> => DOMAIN list = {}
      OBVIOUS
    <2>3. N # 0 <=> 1 \in 1 .. N
      BY <1>2
    <2>4. 1 \in 1 .. N => DOMAIN list # {}
      BY <1>2
    <2> QED
      BY <2>1, <2>2, <2>3, <2>4
  <1>10. \A i \in S : IsVersion(Cover(text, Values(text, i))) <=> VersionAt(text, i)
    <2> TAKE i \in S
    <2>1. Values(text, i) \in SUBSET (1 .. Len(text))
      BY <1>8
    <2>2. Cover(text, Values(text, i)) = <<"DMARC1">> <=> OneAt(text, Values(text, i), "DMARC1")
      BY <2>1, CoverOne
    <2>3. Cover(text, Values(text, i)) = <<"dmarc1">> <=> OneAt(text, Values(text, i), "dmarc1")
      BY <2>1, CoverOne
    <2> QED
      BY <2>2, <2>3 DEF IsVersion, VersionAt
  <1>11. \A i \in S : \A j \in 1 .. i - 1 :
            text[j] = Blank \/ \E m \in j .. i - 1 : text[m] = Semicolon
    BY DEF Says
  <1> HIDE DEF S, list
  <1>12. ASSUME 1 \in 1 .. N, list[1].tag = <<t>>, IsVersion(list[1].value)
         PROVE  \E i \in S : Leads(text, i) /\ VersionAt(text, i)
    <2>1. PICK i \in a[1] .. z[1] : i \in S
      BY <1>4, <1>12
    <2>2. VersionAt(text, i)
      BY <1>5, <1>10, <1>12, <2>1
    <2>3. a[1] \in Int /\ z[1] \in Int /\ i \in 1 .. Len(text) /\ i <= z[1]
      BY <1>2, <1>8, <1>12, <2>1
    <2>4. ASSUME NEW j \in 1 .. i - 1, text[j] # Blank, text[j] # Semicolon PROVE FALSE
      <3>1. j \in 1 .. Len(text)
        BY <1>8, <2>3
      <3>2. PICK k \in 1 .. N : j \in a[k] .. z[k]
        BY <1>7, <2>4, <3>1
      <3>3. ~(1 < k)
        <4>1. 1 < k => z[1] < a[k]
          BY <1>2, <1>12
        <4>2. a[k] \in Int
          BY <1>2
        <4> QED
          BY <2>3, <3>2, <4>1, <4>2
      <3>4. k = 1
        BY <1>2, <3>3
      <3>5. PICK m \in j .. i - 1 : text[m] = Semicolon
        BY <1>11, <2>1, <2>4
      <3>6. m \in a[1] .. z[1]
        BY <2>1, <2>3, <3>2, <3>4
      <3> QED
        BY <1>3, <1>12, <3>5, <3>6
    <2>5. Leads(text, i)
      BY <2>4 DEF Leads
    <2> QED
      BY <2>1, <2>2, <2>5
  <1>13. ASSUME NEW i \in S, Leads(text, i), VersionAt(text, i)
         PROVE  1 \in 1 .. N /\ list[1].tag = <<t>> /\ IsVersion(list[1].value)
    <2>1. PICK k \in 1 .. N : i \in a[k] .. z[k]
      BY <1>6
    <2>2. 1 \in 1 .. N /\ k \in Int /\ 1 <= k
      BY <1>2
    <2>3. ~(1 < k)
      <3> SUFFICES ASSUME 1 < k PROVE FALSE
        OBVIOUS
      <3>1. z[1] < a[k] /\ a[1] <= z[1] /\ a[1] \in 1 .. Len(text) /\ z[1] \in Int /\ a[k] \in Int
        BY <1>2, <2>2
      <3>2. a[1] \in 1 .. i - 1
        BY <1>8, <2>1, <3>1
      <3>3. a[1] \in a[1] .. z[1]
        BY <3>1
      <3>4. text[a[1]] # Blank /\ text[a[1]] # Semicolon
        BY <1>3, <2>2, <3>3
      <3> QED
        BY <1>13, <3>2, <3>4 DEF Leads
    <2>4. k = 1
      BY <2>2, <2>3
    <2>5. list[1].tag = <<t>>
      BY <1>4, <2>1, <2>4
    <2>6. IsVersion(list[1].value)
      BY <1>5, <1>10, <1>13, <2>1, <2>4
    <2> QED
      BY <2>2, <2>5, <2>6
  <1>14. list # <<>> /\ list[1].tag = <<t>> /\ IsVersion(list[1].value) <=>
            \E i \in S : Leads(text, i) /\ VersionAt(text, i)
    BY <1>9, <1>12, <1>13
  <1> QED
    BY <1>14 DEF S, list

LEMMA VersionFacts ==
  ASSUME NEW text \in Text
  PROVE  OfVersion(text, "DMARC1") <=> IsDmarc(text)
  <1> DEFINE list == Parse(text)
             Good(t) == \E i \in Says(text, t) : Leads(text, i) /\ VersionAt(text, i)
  <1>1. OfVersion(text, "DMARC1") <=>
           list # <<>> /\ Folded(list[1].tag) = <<"v">> /\ Folded(list[1].value) = <<"DMARC1">>
    BY DEF OfVersion
  <1>2. Good("v") <=> list # <<>> /\ list[1].tag = <<"v">> /\ IsVersion(list[1].value)
    BY FirstPair, PlainTags
  <1>3. Good("V") <=> list # <<>> /\ list[1].tag = <<"V">> /\ IsVersion(list[1].value)
    BY FirstPair, PlainTags
  <1>4. Folded(list[1].tag) = <<"v">> <=> list[1].tag = <<"v">> \/ list[1].tag = <<"V">>
    BY FoldedFacts
  <1>5. Folded(list[1].value) = <<"DMARC1">> <=> IsVersion(list[1].value)
    BY FoldedFacts DEF IsVersion
  <1> HIDE DEF list
  <1>6. IsDmarc(text) <=> Good("v") \/ Good("V")
    <2>1. ASSUME NEW i
          PROVE  /\ (\A j \in 1 .. i - 1 : text[j] \in {Blank, Semicolon}) <=> Leads(text, i)
                 /\ (\E j \in Values(text, i) :
                       Values(text, i) = {j} /\ text[j] \in {"DMARC1", "dmarc1"})
                       <=> VersionAt(text, i)
      BY DEF Leads, VersionAt, OneAt
    <2>2. IsDmarc(text) <=> \E i \in Says(text, "v") \cup Says(text, "V") :
                               Leads(text, i) /\ VersionAt(text, i)
      BY <2>1 DEF IsDmarc
    <2> QED
      BY <2>2
  <1> HIDE DEF Good
  <1> QED
    BY <1>1, <1>2, <1>3, <1>4, <1>5, <1>6

\* Where the items of a list begin, and which tokens they begin with.
Begins(value, sep, x) ==
    /\ value[x] # Blank /\ value[x] # sep
    /\ \A y \in 1 .. x - 1 : value[y] = Blank \/ \E c \in y .. x - 1 : value[c] = sep
Heads(value, sep) == {x \in 1 .. Len(value) : Begins(value, sep, x)}
SameTokens(u, text, W) ==
    /\ \A k \in DOMAIN u : \E j \in W : u[k] = text[j]
    /\ \A j \in W : \E k \in DOMAIN u : u[k] = text[j]

LEMMA ItemsBegin ==
  ASSUME NEW value \in Text, NEW sep,
         NEW u, u = [k \in DOMAIN Items(value, sep) |-> Items(value, sep)[k][1]]
  PROVE  SameTokens(u, value, Heads(value, sep))
  <1> DEFINE items == Items(value, sep)
             L == Len(value)
  <1>1. PICK N, a, z : Cuts(value, sep, N, a, z) /\ items = Slices(value, N, a, z)
    BY ItemsAreCut DEF CutsInto
  <1>2. /\ L \in Nat /\ N \in Nat /\ a \in [1 .. N -> 1 .. L] /\ z \in [1 .. N -> 1 .. L]
        /\ \A k \in 1 .. N : Tight(value, a[k], z[k])
        /\ \A k \in 1 .. N : \A i \in a[k] .. z[k] : value[i] # sep
    BY <1>1 DEF Cuts, Text
  <1>3. \A k \in 1 .. N : \A j \in 1 .. a[k] - 1 :
           value[j] = Blank \/ \E m \in j .. a[k] - 1 : value[m] = sep
    BY <1>1 DEF Cuts
  <1>4. \A i \in 1 .. L : value[i] = Blank \/ value[i] = sep \/ \E k \in 1 .. N : i \in a[k] .. z[k]
    BY <1>1 DEF Cuts
  <1>5. DOMAIN u = 1 .. N /\ \A k \in 1 .. N : u[k] = items[k][1]
    <2>1. DOMAIN items = 1 .. N
      BY <1>1 DEF Slices
    <2> QED
      BY <2>1
  <1> HIDE DEF items, L
  <1>6. ASSUME NEW k \in 1 .. N
        PROVE  u[k] = value[a[k]] /\ Begins(value, sep, a[k]) /\ a[k] \in 1 .. L
    <2>1. Span(value, a[k], z[k]) /\ a[k] <= z[k] /\ value[a[k]] # Blank
      BY <1>2 DEF Tight
    <2>2. a[k] \in 1 .. L /\ z[k] \in 1 .. L
      BY <1>2
    <2>3. items[k] = Slice(value, a[k], z[k])
      BY <1>1 DEF Slices
    <2>4. Slice(value, a[k], z[k])[1] = value[a[k]]
      <3>1. 1 \in 1 .. z[k] - a[k] + 1 /\ a[k] + 1 - 1 = a[k]
        BY <2>1, <2>2
      <3>2. \A i \in 1 .. z[k] - a[k] + 1 : Slice(value, a[k], z[k])[i] = value[a[k] + i - 1]
        BY <2>1, SliceFacts
      <3> QED
        BY <3>1, <3>2
    <2>5. a[k] \in a[k] .. z[k]
      BY <2>1, <2>2
    <2>6. value[a[k]] # sep
      BY <1>2, <2>5
    <2>7. Begins(value, sep, a[k])
      BY <1>3, <2>1, <2>6 DEF Begins
    <2> QED
      BY <1>5, <2>2, <2>3, <2>4, <2>7
  <1>7. ASSUME NEW x \in Heads(value, sep) PROVE \E k \in 1 .. N : a[k] = x
    <2>1. x \in 1 .. L /\ Begins(value, sep, x)
      BY DEF Heads, L
    <2>2. PICK k \in 1 .. N : x \in a[k] .. z[k]
      BY <1>4, <2>1 DEF Begins
    <2>3. a[k] \in 1 .. L /\ z[k] \in 1 .. L
      BY <1>2
    <2>4. ASSUME a[k] # x PROVE FALSE
      <3>1. a[k] \in 1 .. x - 1
        BY <1>2, <2>1, <2>2, <2>3, <2>4
      <3>2. value[a[k]] # Blank
        BY <1>2 DEF Tight
      <3>3. PICK c \in a[k] .. x - 1 : value[c] = sep
        BY <2>1, <3>1, <3>2 DEF Begins
      <3>4. c \in a[k] .. z[k]
        BY <2>1, <2>2, <2>3
      <3> QED
        BY <1>2, <3>3, <3>4
    <2> QED
      BY <2>4
  <1>8. \A k \in 1 .. N : a[k] \in Heads(value, sep)
    BY <1>6 DEF Heads, L
  <1>9. \A k \in DOMAIN u : \E j \in Heads(value, sep) : u[k] = value[j]
    BY <1>5, <1>6, <1>8
  <1>10. \A j \in Heads(value, sep) : \E k \in DOMAIN u : u[k] = value[j]
    BY <1>5, <1>6, <1>7
  <1> QED
    BY <1>9, <1>10 DEF SameTokens

\* The words among the positions of a value.
WordsIn(text, V, sep) ==
    {j \in V : text[j] # sep /\ \A m \in V : m < j => \E c \in m .. j - 1 : text[c] = sep}

\* What lies between the first and the last of them is theirs, spaces aside.
Dense(text, V) ==
    /\ V \in SUBSET (1 .. Len(text))
    /\ \A j \in V : text[j] # Blank
    /\ \A j, l \in V : \A m \in j .. l : text[m] # Blank => m \in V

LEMMA ValuesDense ==
  ASSUME NEW text \in Text, NEW t, NEW i \in Says(text, t)
  PROVE  Dense(text, Values(text, i))
  <1> DEFINE V == Values(text, i)
             L == Len(text)
  <1>1. L \in Nat /\ i \in 1 .. L /\ V \in SUBSET (1 .. L)
    BY SaysValues
  <1>2. \A j : j \in V <=> /\ j \in i + 1 .. L /\ text[j] # Blank
                           /\ \E e \in i + 1 .. j - 1 : text[e] = "="
                           /\ \A m \in i + 1 .. j : text[m] # Semicolon
    BY DEF Values
  <1> HIDE DEF V, L
  <1>3. ASSUME NEW j \in V, NEW l \in V, NEW m \in j .. l, text[m] # Blank PROVE m \in V
    <2>1. j \in i + 1 .. L /\ l \in i + 1 .. L
      BY <1>2
    <2>2. m \in i + 1 .. L /\ j <= m /\ m <= l
      BY <1>1, <2>1
    <2>3. PICK e \in i + 1 .. j - 1 : text[e] = "="
      BY <1>2
    <2>4. e \in i + 1 .. m - 1
      BY <1>1, <2>1, <2>2
    <2>5. \A x \in i + 1 .. m : x \in i + 1 .. l
      BY <1>1, <2>1, <2>2
    <2>6. \A x \in i + 1 .. m : text[x] # Semicolon
      BY <1>2, <2>5
    <2> QED
      BY <1>2, <1>3, <2>2, <2>3, <2>4, <2>6
  <1> QED
    BY <1>1, <1>2, <1>3 DEF Dense, V, L

\* They are where the items of the value begin.
LEMMA HeadsOfCover ==
  ASSUME NEW text \in Text, NEW V, Dense(text, V), V # {}, NEW sep
  PROVE  \A x \in 1 .. Len(Cover(text, V)) :
            /\ Cover(text, V)[x] = text[Least(V) + x - 1]
            /\ x \in Heads(Cover(text, V), sep) <=> Least(V) + x - 1 \in WordsIn(text, V, sep)
  <1> DEFINE lo == Least(V)
             hi == Greatest(V)
             value == Cover(text, V)
             n == Len(value)
  <1>1. Len(text) \in Nat /\ V \in SUBSET (1 .. Len(text))
    BY DEF Dense, Text
  <1>2. /\ lo \in V /\ hi \in V /\ \A j \in V : lo <= j /\ j <= hi
        /\ lo \in 1 .. Len(text) /\ hi \in 1 .. Len(text) /\ lo <= hi
    BY <1>1, LeastFacts
  <1>3. value = Slice(text, lo, hi)
    BY DEF Cover
  <1> HIDE DEF lo, hi, value, n
  <1>4. Span(text, lo, hi)
    BY <1>1, <1>2 DEF Span
  <1>5. value \in Text /\ n = hi - lo + 1 /\ \A x \in 1 .. n : value[x] = text[lo + x - 1]
    BY <1>3, <1>4, SliceFacts DEF n
  <1>6. n \in Nat /\ lo \in Int /\ hi \in Int
    BY <1>1, <1>2, <1>5
  <1>7. /\ \A j \in V : text[j] # Blank
        /\ \A m \in lo .. hi : text[m] # Blank => m \in V
    BY <1>2 DEF Dense
  <1>8. \A m \in lo .. hi : m - lo + 1 \in 1 .. n /\ value[m - lo + 1] = text[m]
    <2> TAKE m \in lo .. hi
    <2>1. m - lo + 1 \in 1 .. n /\ lo + (m - lo + 1) - 1 = m
      BY <1>5, <1>6
    <2> QED
      BY <1>5, <2>1
  <1>9. ASSUME NEW x \in 1 .. n
        PROVE  x \in Heads(value, sep) <=> lo + x - 1 \in WordsIn(text, V, sep)
    <2> DEFINE p == lo + x - 1
    <2>1. p \in lo .. hi /\ value[x] = text[p]
      BY <1>5, <1>6
    <2>2. x = p - lo + 1 /\ p \in Int
      BY <1>6
    <2> HIDE DEF p
    <2>3. x \in Heads(value, sep) <=> Begins(value, sep, x)
      BY DEF Heads, n
    <2>4. ASSUME Begins(value, sep, x) PROVE p \in WordsIn(text, V, sep)
      <3>1. p \in V /\ text[p] # sep
        BY <1>7, <2>1, <2>4 DEF Begins
      <3>2. ASSUME NEW m \in V, m < p PROVE \E c \in m .. p - 1 : text[c] = sep
        <4>1. m \in lo .. hi
          BY <1>1, <1>2, <1>6
        <4>2. m - lo + 1 \in 1 .. x - 1
          BY <1>6, <2>2, <3>2, <4>1
        <4>3. value[m - lo + 1] # Blank
          BY <1>7, <1>8, <4>1
        <4>4. PICK d \in m - lo + 1 .. x - 1 : value[d] = sep
          BY <2>4, <4>2, <4>3 DEF Begins
        <4>5. d \in 1 .. n
          BY <1>6, <4>1
        <4>6. lo + d - 1 \in m .. p - 1
          BY <1>6, <2>2, <4>1, <4>5
        <4> QED
          BY <1>5, <4>4, <4>5, <4>6
      <3> QED
        BY <3>1, <3>2 DEF WordsIn
    <2>5. ASSUME p \in WordsIn(text, V, sep) PROVE Begins(value, sep, x)
      <3>1. p \in V /\ text[p] # sep /\ \A m \in V : m < p => \E c \in m .. p - 1 : text[c] = sep
        BY <2>5 DEF WordsIn
      <3>2. ASSUME NEW y \in 1 .. x - 1, value[y] # Blank
            PROVE  \E c \in y .. x - 1 : value[c] = sep
        <4>1. y \in 1 .. n /\ lo + y - 1 \in lo .. hi /\ lo + y - 1 < p
          BY <1>5, <1>6, <2>1, <2>2
        <4>2. lo + y - 1 \in V
          BY <1>5, <1>7, <3>2, <4>1
        <4>3. PICK c \in lo + y - 1 .. p - 1 : text[c] = sep
          BY <3>1, <4>1, <4>2
        <4>4. c \in lo .. hi /\ c - lo + 1 \in y .. x - 1
          BY <1>6, <2>1, <2>2, <4>1
        <4> QED
          BY <1>8, <4>3, <4>4
      <3> QED
        BY <1>7, <2>1, <3>1, <3>2 DEF Begins
    <2> QED
      BY <2>3, <2>4, <2>5 DEF p
  <1> QED
    BY <1>5, <1>9 DEF lo, value, n

\* The URIs of a record's rua= list are its words.
LEMMA RuaFacts ==
  ASSUME NEW text \in Text
  PROVE  SameTokens(URIs(Get(Parse(text), "rua")), text, Words(text))
  <1> DEFINE S == Says(text, "rua")
             i == Least(S)
             V == Values(text, i)
             value == Get(Parse(text), "rua")
             u == URIs(value)
             sep == ","
  <1>1. Len(text) \in Nat /\ S \in SUBSET (1 .. Len(text))
    BY SaysValues
  <1>2. value = IF S = {} THEN <<>> ELSE Cover(text, V)
    BY GetFacts, PlainTags
  <1>3. u = [k \in DOMAIN Items(value, sep) |-> Items(value, sep)[k][1]]
    BY DEF URIs
  <1>4. \A j : j \in Words(text) <=>
           /\ j \in DOMAIN text
           /\ \E p \in S : /\ \A k \in S : p <= k
                           /\ j \in WordsIn(text, Values(text, p), sep)
    BY DEF Words, WordsIn
  <1>5. S # {} => i \in S /\ \A k \in S : i <= k
    BY <1>1, LeastFacts
  <1>6. S # {} => Dense(text, V)
    BY <1>5, ValuesDense
  <1>7. ASSUME NEW j, NEW W, W = WordsIn(text, V, sep)
        PROVE  j \in W => j \in V
    BY <1>7 DEF WordsIn
  <1>8. DOMAIN text = 1 .. Len(text)
    BY DEF Text
  <1> HIDE DEF S, i, V, value, u, sep
  <1>9. S = {} => Words(text) = {}
    BY <1>4
  <1>10. S # {} => Words(text) = WordsIn(text, V, sep)
    <2> SUFFICES ASSUME S # {} PROVE Words(text) = WordsIn(text, V, sep)
      OBVIOUS
    <2>1. \A p \in S : (\A k \in S : p <= k) => p = i
      <3> SUFFICES ASSUME NEW p \in S, \A k \in S : p <= k PROVE p = i
        OBVIOUS
      <3>1. p <= i /\ i <= p
        BY <1>5
      <3>2. p \in 1 .. Len(text) /\ i \in 1 .. Len(text)
        BY <1>1, <1>5, Zenon
      <3> QED
        BY <3>1, <3>2
    <2>2. V \in SUBSET (DOMAIN text)
      BY <1>6, <1>8 DEF Dense
    <2>3. \A j \in WordsIn(text, V, sep) : j \in DOMAIN text
      BY <1>7, <2>2
    <2>4. V = Values(text, i)
      BY DEF V
    <2>5. ASSUME NEW j PROVE j \in Words(text) <=> j \in WordsIn(text, V, sep)
      BY <1>4, <1>5, <2>1, <2>3, <2>4
    <2> QED
      BY <2>5
  <1>11. ASSUME value = <<>>, Words(text) = {} PROVE SameTokens(u, text, Words(text))
    <2>1. <<>> \in Text /\ Len(<<>>) = 0
      BY DEF Text
    <2>2. SameTokens(u, value, Heads(value, sep))
      BY <1>3, <1>11, <2>1, ItemsBegin
    <2>3. Heads(value, sep) = {}
      BY <1>11, <2>1 DEF Heads
    <2> QED
      BY <1>11, <2>2, <2>3 DEF SameTokens
  <1>12. CASE S = {}
    BY <1>2, <1>9, <1>11, <1>12 DEF u, value
  <1>13. CASE S # {} /\ V = {}
    <2>1. WordsIn(text, V, sep) = {}
      BY <1>13 DEF WordsIn
    <2>2. value = <<>>
      BY <1>2, <1>13 DEF Cover
    <2> QED
      BY <1>10, <1>11, <1>13, <2>1, <2>2 DEF u, value
  <1>14. CASE S # {} /\ V # {}
    <2> DEFINE lo == Least(V)
               H == Heads(value, sep)
               W == WordsIn(text, V, sep)
    <2>1. Dense(text, V) /\ value = Cover(text, V) /\ Words(text) = W
      BY <1>2, <1>6, <1>10, <1>14
    <2>2. V \in SUBSET (1 .. Len(text))
      BY <2>1 DEF Dense
    <2>3. value \in Text /\ Len(value) \in Nat
      BY <2>1, <2>2, CoverFacts DEF Text
    <2>4. SameTokens(u, value, H)
      BY <1>3, <2>3, ItemsBegin
    <2>5. \A x \in 1 .. Len(value) : /\ value[x] = text[lo + x - 1]
                                     /\ x \in H <=> lo + x - 1 \in W
      BY <1>14, <2>1, HeadsOfCover
    <2>6. \A x \in H : x \in 1 .. Len(value)
      BY DEF Heads
    <2>7. \A j \in W : j \in V
      BY <1>7
    <2>8. \A j \in V : j - lo + 1 \in 1 .. Len(value) /\ lo + (j - lo + 1) - 1 = j
      <3>1. /\ lo \in 1 .. Len(text) /\ Greatest(V) \in 1 .. Len(text) /\ lo <= Greatest(V)
            /\ \A j \in V : lo <= j /\ j <= Greatest(V)
        BY <1>1, <1>14, <2>2, LeastFacts
      <3> DEFINE hi == Greatest(V)
      <3>2. Span(text, lo, hi)
        BY <1>1, <3>1 DEF Span
      <3>3. value = Slice(text, lo, hi)
        BY <1>14, <2>1 DEF Cover
      <3>4. Len(value) = hi - lo + 1
        BY <3>2, <3>3, SliceFacts
      <3> HIDE DEF lo, hi
      <3>5. lo \in Int /\ hi \in Int /\ \A j \in V : j \in Int /\ lo <= j /\ j <= hi
        BY <1>1, <2>2, <3>1 DEF hi
      <3> QED
        BY <3>4, <3>5
    <2> HIDE DEF lo, H, W
    <2>9. \A k \in DOMAIN u : \E j \in W : u[k] = text[j]
      <3> TAKE k \in DOMAIN u
      <3>1. PICK x \in H : u[k] = value[x]
        BY <2>4 DEF SameTokens
      <3>2. lo + x - 1 \in W /\ value[x] = text[lo + x - 1]
        BY <2>5, <2>6
      <3> QED
        BY <3>1, <3>2
    <2>10. \A j \in W : \E k \in DOMAIN u : u[k] = text[j]
      <3> TAKE j \in W
      <3>1. j - lo + 1 \in 1 .. Len(value) /\ lo + (j - lo + 1) - 1 = j
        BY <2>7, <2>8
      <3>2. j - lo + 1 \in H /\ value[j - lo + 1] = text[j]
        BY <2>5, <3>1
      <3>3. PICK k \in DOMAIN u : u[k] = value[j - lo + 1]
        BY <2>4, <3>2 DEF SameTokens
      <3> QED
        BY <3>2, <3>3
    <2>11. SameTokens(u, text, Words(text))
      BY <2>1, <2>9, <2>10 DEF SameTokens
    <2> QED
      BY <2>11 DEF u, value
  <1> QED
    BY <1>12, <1>13, <1>14

LEMMA NoUris == DOMAIN URIs(<<>>) = {}
  <1> DEFINE u == URIs(<<>>)
             sep == ","
  <1>1. u = [k \in DOMAIN Items(<<>>, sep) |-> Items(<<>>, sep)[k][1]]
    BY DEF URIs
  <1>2. <<>> \in Text /\ Len(<<>>) = 0
    BY DEF Text
  <1> HIDE DEF u, sep
  <1>3. SameTokens(u, <<>>, Heads(<<>>, sep))
    BY <1>1, <1>2, ItemsBegin
  <1>4. Heads(<<>>, sep) = {}
    BY <1>2 DEF Heads
  <1> QED
    BY <1>3, <1>4 DEF SameTokens, u

-----------------------------------------------------------------------------
(* The record that decides.                                                *)

\* Whatever the section, a lookup of texts is answered with texts.
TextList(texts) ==
    \E n \in Nat : DOMAIN texts = 1 .. n /\ \A k \in 1 .. n : texts[k] \in Text

LEMMA TextsTold ==
  ASSUME NEW section \in Seq(RR)
  PROVE  TextList(Records("doh", "TXT", section)) /\ TextList(Records("udp", "TXT", section))
  <1> DEFINE n == Len(section)
             P == Of("TXT", section)
             N == Cardinality(P)
             texts == Picked(section, P)
             doh == Records("doh", "TXT", section)
             udp == Records("udp", "TXT", section)
  <1>1. n \in Nat /\ P \in SUBSET (1 .. n)
    BY DEF Of
  <1>2. \A k \in P : section[k].strings \in Seq(Text)
    BY TextsOfRecords
  <1>3. /\ doh = [k \in DOMAIN texts |-> Legible(FlattenSeq(texts[k].strings))]
        /\ udp = [k \in DOMAIN texts |-> Escaped(FlattenSeq(texts[k].strings))]
    BY TextsAgree
  <1> HIDE DEF n, P, doh, udp
  <1>4. N \in Nat /\ DOMAIN texts = 1 .. N
    <2>1. texts = [k \in 1 .. N |-> texts[k]]
      BY <1>1, PickedAlike
    <2> QED
      BY <1>1, <2>1, PickedAlike
  <1>5. \A k \in 1 .. N : From(P, k) \in P /\ texts[k] = section[From(P, k)]
    <2>1. P \in SUBSET (DOMAIN section)
      BY <1>1 DEF n
    <2>2. \A k \in 1 .. Cardinality(P) :
             From(P, k) \in P /\ Picked(section, P)[k] = section[From(P, k)]
      BY <2>1, FromFacts
    <2> QED
      BY <2>2
  <1> HIDE DEF N, texts
  <1>6. ASSUME NEW k \in 1 .. N PROVE doh[k] \in Text /\ udp[k] \in Text
    <2> DEFINE i == From(P, k)
    <2>1. i \in P /\ texts[k] = section[i]
      BY <1>5
    <2> HIDE DEF i
    <2> DEFINE strings == section[i].strings
    <2>2. /\ strings \in Seq(Text) /\ doh[k] = Legible(FlattenSeq(strings))
          /\ udp[k] = Escaped(FlattenSeq(strings))
      BY <1>2, <1>3, <1>4, <2>1
    <2> HIDE DEF strings
    <2>3. FlattenSeq(strings) \in Text
      <3>1. Len(strings) \in Nat /\ FlattenSeq(strings) = Glued(strings, Len(strings))
        BY <2>2, StringsGlued
      <3>2. \A m \in 0 .. Len(strings) : Glued(strings, m) \in Text
        BY <2>2, StringsGlued
      <3>3. Len(strings) \in 0 .. Len(strings)
        BY <3>1
      <3> QED
        BY <3>1, <3>2, <3>3
    <2>4. Escaped(FlattenSeq(strings)) \in Text /\ Legible(FlattenSeq(strings)) \in Text
      BY <2>3, EscapedNext, LegibleType
    <2> QED
      BY <2>2, <2>4
  <1>7. DOMAIN doh = 1 .. N /\ DOMAIN udp = 1 .. N
    BY <1>3, <1>4
  <1> QED
    BY <1>4, <1>6, <1>7 DEF TextList, doh, udp

\* The first of some texts that is a DMARC record, read without Parse.
First(texts) ==
    LET found == {k \in DOMAIN texts : IsDmarc(texts[k])}
    IN  IF found = {} THEN <<>> ELSE texts[CHOOSE k \in found : \A j \in found : k <= j]

LEMMA FirstIsPicked ==
  ASSUME NEW texts, TextList(texts)
  PROVE  /\ PickByVersion(texts, "DMARC1") = First(texts)
         /\ First(texts) # <<>> => First(texts) \in Text
  <1> DEFINE at == {k \in DOMAIN texts : OfVersion(texts[k], "DMARC1")}
             found == {k \in DOMAIN texts : IsDmarc(texts[k])}
  <1>1. PICK n \in Nat : DOMAIN texts = 1 .. n /\ \A k \in 1 .. n : texts[k] \in Text
    BY DEF TextList
  <1>2. at = found
    BY <1>1, VersionFacts
  <1>3. PickByVersion(texts, "DMARC1") = IF at = {} THEN <<>> ELSE texts[Least(at)]
    BY DEF PickByVersion, Least
  <1>4. First(texts) = IF found = {} THEN <<>> ELSE texts[Least(found)]
    BY DEF First, Least
  <1>5. found \in SUBSET (1 .. n)
    BY <1>1
  <1> HIDE DEF at, found
  <1>6. found # {} => Least(found) \in 1 .. n
    BY <1>5, LeastFacts
  <1> QED
    BY <1>1, <1>2, <1>3, <1>4, <1>6

\* The status and the mark of a record, of its pairs and of its endpoints.
LEMMA StatusFacts ==
  LET status == DmarcVerdict([ok |-> TRUE, found |-> TRUE, policy |-> PolicySeen])
  IN  /\ Get(pairs, "p") # <<>> => status = "present"
      /\ Get(pairs, "p") = <<>> => status = "misconfigured"
  <1>1. Get(pairs, "p") # <<>> => PolicySeen = "none"
    BY Zenon DEF PolicySeen
  <1>2. Get(pairs, "p") = <<>> => PolicySeen = ""
    BY Zenon DEF PolicySeen
  <1>3. DmarcVerdict([ok |-> TRUE, found |-> TRUE, policy |-> "none"]) = "present"
    BY DEF DmarcVerdict
  <1>4. DmarcVerdict([ok |-> TRUE, found |-> TRUE, policy |-> ""]) = "misconfigured"
    BY DEF DmarcVerdict
  <1> QED
    BY <1>1, <1>2, <1>3, <1>4, Zenon

LEMMA MarkFacts ==
  ASSUME Get(pairs, "rua") = <<>> => Checked = {}
  PROVE  /\ RuaMark = "tick" => Checked # {} /\ \A k \in Checked : checks[k].reachable
         /\ RuaMark = "cross" => \E k \in Checked : ~checks[k].reachable
         /\ Checked # {} => RuaMark \in {"tick", "cross"}
  <1> DEFINE value == Get(pairs, "rua")
             C == Checked
             good == \A k \in C : checks[k].reachable
  <1>1. value = <<>> => RuaMark = "none"
    BY DEF RuaMark
  <1>2. value # <<>> /\ C = {} => RuaMark = "rua"
    BY DEF RuaMark
  <1>3. value # <<>> /\ C # {} => RuaMark = IF good THEN "tick" ELSE "cross"
    BY DEF RuaMark
  <1> HIDE DEF value, C
  <1>4. value = <<>> => C = {}
    BY DEF value, C
  <1>5. CASE C = {}
    <2>1. RuaMark \in {"none", "rua"}
      BY <1>1, <1>2, <1>5
    <2> QED
      BY <1>5, <2>1 DEF C
  <1>6. CASE C # {}
    <2>1. RuaMark = IF good THEN "tick" ELSE "cross"
      BY <1>3, <1>4, <1>6
    <2>2. ~good => \E k \in C : ~checks[k].reachable
      OBVIOUS
    <2> QED
      BY <1>6, <2>1, <2>2 DEF C
  <1> QED
    BY <1>5, <1>6

\* How long the sites on the way take, each of them.
Delays(way) == [k \in DOMAIN way |-> web[way[k]].delay]

\* What the probe holds once it has a record, what each endpoint has shown, what
\* it makes of both, and where the client is that has been sent on.
Holds == Record # <<>> /\ pairs = Parse(Record) /\ targets = URIs(Get(pairs, "rua"))
Shown(k) ==
    /\ checks[k].checked <=> Wanted(targets[k])
    /\ checks[k].reachable => Answers(targets[k])
    /\ checks[k].checked /\ ~checks[k].reachable =>
          FailsToAnswer(targets[k]) \/ clock = Budget
Judged ==
    \/ pc = "failed" /\ checks = <<>> /\ feature = [status |-> "unknown", mark |-> "none"]
    \/ /\ pc = "answered" /\ Record = <<>> /\ checks = <<>>
       /\ feature = [status |-> "absent", mark |-> "none"]
    \/ /\ pc = "answered" /\ Holds /\ Len(checks) = Len(targets)
       /\ feature = [status |-> DmarcVerdict([ok |-> TRUE, found |-> TRUE, policy |-> PolicySeen]),
                     mark |-> RuaMark]
OnTheWay ==
    visited # <<>> =>
        /\ Wanted(This)
        /\ visited \in Ways(This)
        /\ clock - began = Together(Delays(visited), Len(visited) - 1)
RecordInv ==
    /\ stage # "other" => question = "TXT"
    /\ stage \in {"lookup", "other"} => checks = <<>>
    /\ stage = "heads" => Holds
    /\ \A k \in DOMAIN checks : Shown(k)
    /\ Done => Judged
    /\ OnTheWay

LEMMA InitRecordInv == Init => RecordInv
  <1> SUFFICES ASSUME Init PROVE RecordInv
    OBVIOUS
  <1>1. checks = <<>> /\ stage \in {"lookup", "other"}
    BY DEF Init
  <1>2. stage # "other" => question = "TXT"
    BY DEF Init
  <1>3. DOMAIN checks = {}
    BY <1>1
  <1>4. visited = <<>>
    BY DEF Init
  <1> QED
    BY <1>1, <1>2, <1>3, <1>4 DEF RecordInv, Done, OnTheWay

LEMMA TogetherSame ==
  ASSUME NEW p, NEW q, NEW n \in Nat, \A k \in 1 .. n : p[k] = q[k]
  PROVE  Together(p, n) = Together(q, n)
  BY DEF Together

\* How long a way takes: the sites before the last, and the last.
LEMMA WayTakes ==
  ASSUME TypeInv, NEW way \in Seq(Site), way # <<>>
  PROVE  /\ Together(Delays(way), 0) = 0
         /\ TimeOf(way) = Together(Delays(way), Len(way) - 1) + web[Last(way)].delay
  <1> DEFINE n == Len(way)
             times == Delays(way)
  <1>1. n \in Nat /\ n >= 1 /\ DOMAIN way = 1 .. n /\ \A k \in 1 .. n : way[k] \in Site
    OBVIOUS
  <1>2. \A k \in 1 .. n : times[k] = web[way[k]].delay /\ times[k] \in Int
    <2> TAKE k \in 1 .. n
    <2>1. times[k] = web[way[k]].delay
      BY <1>1 DEF Delays
    <2>2. web[way[k]] \in [reply : Reply, to : Site, delay : WebDelay]
      BY <1>1, DmarcAssumption DEF TypeInv, TypeOK, Web
    <2>3. web[way[k]].delay \in WebDelay
      BY <2>2
    <2>4. web[way[k]].delay \in Nat \ {0}
      BY <2>3, DmarcAssumption
    <2> QED
      BY <2>1, <2>4
  <1>3. TimeOf(way) = Together(times, n)
    BY DEF TimeOf, Delays
  <1>4. Last(way) = way[n]
    BY DEF Last
  <1> HIDE DEF n, times
  <1> DEFINE m == n - 1
  <1>5. m \in Nat /\ m + 1 = n /\ n \in 1 .. n
    BY <1>1
  <1> HIDE DEF m
  <1>6. /\ Together(times, 0) = 0
        /\ Together(times, m + 1) = Together(times, m) + times[m + 1]
    <2>1. \A k \in 1 .. m + 1 : times[k] \in Int
      BY <1>2, <1>5
    <2> QED
      BY <1>5, <2>1, SumUnfolds
  <1>7. times[n] = web[way[n]].delay
    BY <1>2, <1>5
  <1> QED
    BY <1>3, <1>4, <1>5, <1>6, <1>7 DEF m, n, times

\* What a chain of requests takes when its last answer comes.
LEMMA ChainTakes ==
  ASSUME TypeInv, OnTheWay, visited # <<>>
  PROVE  TimeOf(visited) = (clock - began) + Asked.delay
  <1>1. TimeOf(visited) = Together(Delays(visited), Len(visited) - 1) + Asked.delay
    BY WayTakes DEF TypeInv, TypeOK, Asked
  <1> QED
    BY <1>1 DEF OnTheWay

\* One endpoint more.
LEMMA NextShown ==
  ASSUME TypeInv, RecordInv, Skips \/ HeadAnswers \/ HeadTimesOut
  PROVE  /\ More /\ UNCHANGED <<targets, enabled, web>> /\ visited' = <<>>
         /\ \A k \in DOMAIN checks' : Shown(k)'
  <1> DEFINE n == Len(checks)
             t == targets[n + 1]
  <1>1. /\ More /\ visited' = <<>>
        /\ UNCHANGED <<pc, server, answer, dnsWorld, stage, pairs, targets, began, feature,
                       dmarcWorld>>
        /\ \E c, r \in BOOLEAN : checks' = Append(checks, [checked |-> c, reachable |-> r])
    BY DEF Skips, HeadAnswers, HeadTimesOut, Found, Replies, TooLate
  <1>2. UNCHANGED <<targets, enabled, web>> /\ stage = "heads"
    BY <1>1 DEF dmarcWorld, More
  <1>3. /\ checks \in Seq([checked : BOOLEAN, reachable : BOOLEAN])
        /\ n \in Nat /\ Len(targets) \in Nat /\ n < Len(targets) /\ targets \in Seq(URI)
    BY <1>1 DEF TypeInv, TypeOK, More
  <1>4. This = t
    BY DEF This
  <1>5. ASSUME visited # <<>>
        PROVE  /\ Wanted(t) /\ visited \in Ways(t) /\ TimeOf(visited) = (clock - began) + Asked.delay
               /\ Asked = web[Last(visited)]
    <2>1. OnTheWay
      BY DEF RecordInv
    <2>2. TimeOf(visited) = (clock - began) + Asked.delay
      BY <1>5, <2>1, ChainTakes
    <2> QED
      BY <1>4, <1>5, <2>1, <2>2 DEF OnTheWay, Asked
  <1>6. PICK c \in BOOLEAN, r \in BOOLEAN :
           /\ checks' = Append(checks, [checked |-> c, reachable |-> r])
           /\ c <=> Wanted(t)
           /\ r => Answers(t)
           /\ c /\ ~r => FailsToAnswer(t) \/ clock' = Budget
    <2>1. CASE Skips
      <3>1. checks' = Append(checks, [checked |-> FALSE, reachable |-> FALSE]) /\ ~Wanted(t)
        BY <1>4, <2>1 DEF Skips, Found
      <3> QED
        BY <3>1
    <2>2. CASE HeadAnswers
      <3> DEFINE good == Asked.reply = "ok"
      <3>1. /\ checks' = Append(checks, [checked |-> TRUE, reachable |-> good])
            /\ visited # <<>> /\ Asked.reply # "silent"
            /\ Asked.reply = "redirect" => Len(visited) = MaxRequests
            /\ clock + Asked.delay <= HeadDeadline
        BY <2>2 DEF HeadAnswers, Replies, Found
      <3>2. Wanted(t)
        BY <1>5, <3>1
      <3>3. good => Answers(t)
        <4>1. /\ Asked.delay \in Nat /\ clock \in Nat /\ began \in Nat /\ HeadTimeout \in Nat
              /\ HeadDeadline \in Nat /\ HeadDeadline <= began + HeadTimeout
          BY <3>1, ChainFacts
        <4>2. TimeOf(visited) <= HeadTimeout
          BY <1>5, <3>1, <4>1
        <4> QED
          BY <1>5, <3>1, <4>2 DEF Answers
      <3>4. ~good => FailsToAnswer(t)
        <4>1. ~good => Asked.reply = "not-ok" \/ Asked.reply = "redirect"
          BY <3>1, ChainFacts DEF Reply
        <4>2. visited \in Ways(t) /\ Asked = web[Last(visited)]
          BY <1>5, <3>1
        <4> QED
          BY <3>1, <4>1, <4>2 DEF FailsToAnswer
      <3>5. good \in BOOLEAN
        OBVIOUS
      <3> HIDE DEF good
      <3> QED
        BY <3>1, <3>2, <3>3, <3>4, <3>5
    <2>3. CASE HeadTimesOut
      <3>1. /\ checks' = Append(checks, [checked |-> TRUE, reachable |-> FALSE])
            /\ visited # <<>> /\ clock' = HeadDeadline
            /\ Asked.reply = "silent" \/ clock + Asked.delay >= HeadDeadline
        BY <2>3 DEF HeadTimesOut, TooLate, Found
      <3>2. /\ Wanted(t) /\ visited \in Ways(t) /\ TimeOf(visited) = (clock - began) + Asked.delay
            /\ Asked = web[Last(visited)]
        BY <1>5, <3>1
      <3>3. CASE Asked.reply = "silent"
        <4>1. FailsToAnswer(t)
          BY <3>2, <3>3 DEF FailsToAnswer
        <4> QED
          BY <3>1, <3>2, <4>1
      <3>4. CASE clock + Asked.delay >= HeadDeadline /\ HeadDeadline = began + HeadTimeout
        <4>1. /\ Asked.delay \in Nat /\ clock \in Nat /\ began \in Nat /\ HeadTimeout \in Nat
          BY <3>1, ChainFacts
        <4>2. TimeOf(visited) >= HeadTimeout
          BY <3>2, <3>4, <4>1
        <4>3. FailsToAnswer(t)
          BY <3>2, <4>2 DEF FailsToAnswer
        <4> QED
          BY <3>1, <3>2, <4>3
      <3>5. CASE HeadDeadline = Budget
        BY <3>1, <3>2, <3>5
      <3>6. HeadDeadline = Budget \/ HeadDeadline = began + HeadTimeout
        BY <3>1, ChainFacts
      <3> QED
        BY <3>1, <3>3, <3>4, <3>5, <3>6
    <2> QED
      BY <2>1, <2>2, <2>3
  <1>7. clock = Budget => clock' = Budget
    <2>1. CASE Skips
      BY <2>1 DEF Skips
    <2>2. CASE HeadAnswers
      <3>1. /\ visited # <<>> /\ clock' = clock + Asked.delay
            /\ clock + Asked.delay <= HeadDeadline
        BY <2>2 DEF HeadAnswers, Replies
      <3>2. /\ Asked.delay \in Nat /\ clock \in Nat /\ Budget \in Nat
            /\ HeadDeadline \in Nat /\ HeadDeadline <= Budget
        BY <3>1, ChainFacts
      <3> QED
        BY <3>1, <3>2
    <2>3. CASE HeadTimesOut
      <3>1. visited # <<>> /\ clock' = HeadDeadline
        BY <2>3 DEF HeadTimesOut, TooLate
      <3>2. /\ clock \in Nat /\ Budget \in Nat /\ HeadDeadline \in Nat
            /\ clock <= HeadDeadline /\ HeadDeadline <= Budget
        BY <3>1, ChainFacts
      <3> QED
        BY <3>1, <3>2
    <2> QED
      BY <2>1, <2>2, <2>3
  <1> DEFINE e == [checked |-> c, reachable |-> r]
  <1>8. e.checked = c /\ e.reachable = r /\ e \in [checked : BOOLEAN, reachable : BOOLEAN]
    OBVIOUS
  <1>9. checks' = Append(checks, e)
    BY <1>6
  <1> HIDE DEF e, n, t
  <1>10. /\ DOMAIN checks' = 1 .. n + 1 /\ checks'[n + 1] = e
         /\ \A k \in 1 .. n : checks'[k] = checks[k] /\ k \in DOMAIN checks
    BY <1>3, <1>8, <1>9 DEF n
  <1>11. ASSUME NEW k \in 1 .. n + 1 PROVE Shown(k)'
    <2>1. CASE k = n + 1
      <3>1. checks'[k] = e /\ targets'[k] = t
        BY <1>2, <1>10, <2>1 DEF t
      <3>2. /\ (Wanted(targets[k]))' <=> Wanted(t)
            /\ (Answers(targets[k]))' <=> Answers(t)
            /\ (FailsToAnswer(targets[k]))' <=> FailsToAnswer(t)
        BY <1>2, <3>1, Zenon DEF Wanted, Answers, FailsToAnswer, Ways, TimeOf
      <3> QED
        BY <1>6, <1>8, <3>1, <3>2 DEF Shown
    <2>2. CASE k # n + 1
      <3>1. k \in 1 .. n
        BY <1>3, <2>2 DEF n
      <3>2. checks'[k] = checks[k] /\ Shown(k)
        BY <1>10, <3>1 DEF RecordInv
      <3>3. targets'[k] = targets[k]
        BY <1>2
      <3>4. /\ (Wanted(targets[k]))' <=> Wanted(targets[k])
            /\ (Answers(targets[k]))' <=> Answers(targets[k])
            /\ (FailsToAnswer(targets[k]))' <=> FailsToAnswer(targets[k])
        BY <1>2, <3>3, Zenon DEF Wanted, Answers, FailsToAnswer, Ways, TimeOf
      <3> QED
        BY <1>7, <3>2, <3>4 DEF Shown
    <2> QED
      BY <2>1, <2>2
  <1> QED
    BY <1>1, <1>2, <1>10, <1>11

\* A request that is sent, and one that is sent on.
LEMMA WayBegins ==
  ASSUME TypeInv, HeadSends
  PROVE  OnTheWay'
  <1>1. /\ More /\ Wanted(This) /\ visited' = <<This>> /\ began' = clock /\ clock' = clock
        /\ UNCHANGED <<targets, checks, enabled, web>>
    BY DEF HeadSends, dnsVars, dmarcWorld
  <1>2. This \in Site /\ MaxRequests \in Nat \ {0} /\ clock \in Nat
    <2>1. Len(checks) + 1 \in DOMAIN targets /\ clock \in started .. Budget /\ started \in Nat
      BY <1>1, DnsAssumption DEF TypeInv, TypeOK, DnsTypeOK, More
    <2> QED
      BY <2>1, DmarcAssumption DEF TypeInv, TypeOK, This, Site
  <1>3. /\ (Ways(This))' = Ways(This) /\ (Wanted(This))' <=> Wanted(This)
        /\ (Delays(visited))' = Delays(<<This>>)
    BY <1>1, Zenon DEF Ways, Wanted, This, Delays
  <1> DEFINE way == <<This>>
  <1>4. way \in Seq(Site) /\ way # <<>> /\ Len(way) = 1 /\ way[1] = This /\ way \in [1 .. 1 -> Site]
    BY <1>2
  <1> HIDE DEF way
  <1>5. way \in Ways(This)
    <2>1. 1 \in 1 .. MaxRequests
      BY <1>2
    <2>2. way \in UNION {[1 .. n -> Site] : n \in 1 .. MaxRequests}
      BY <1>4, <2>1
    <2>3. 1 .. Len(way) - 1 = {}
      BY <1>4
    <2> QED
      BY <1>4, <2>2, <2>3 DEF Ways
  <1>6. Together(Delays(way), 0) = 0
    BY <1>4, WayTakes
  <1>7. Len(way) - 1 = 0 /\ clock - clock = 0
    BY <1>2, <1>4
  <1>8. Together(Delays(way), Len(way) - 1) = 0
    BY <1>6, <1>7
  <1>9. visited' = way /\ (Delays(visited))' = Delays(way)
    BY <1>1, <1>3 DEF way
  <1>10. /\ (Wanted(This))' /\ visited' \in (Ways(This))'
         /\ clock' - began' = Together((Delays(visited))', Len(visited') - 1)
    BY <1>1, <1>3, <1>5, <1>7, <1>8, <1>9
  <1> QED
    BY <1>10 DEF OnTheWay

LEMMA WayGoesOn ==
  ASSUME TypeInv, OnTheWay, HeadRedirected
  PROVE  OnTheWay'
  <1> DEFINE m == Len(visited)
             way == Append(visited, Asked.to)
  <1>1. /\ visited # <<>> /\ visited' = way /\ m < MaxRequests
        /\ Asked.reply = "redirect"
        /\ clock' = clock + Asked.delay
        /\ UNCHANGED <<targets, checks, began, enabled, web>>
    BY DEF HeadRedirected, Replies, dmarcWorld
  <1>2. /\ m \in Nat /\ m >= 1 /\ Asked.to \in Site /\ Asked.delay \in Nat
        /\ clock \in Nat /\ began \in Nat /\ Asked = web[visited[m]]
    BY <1>1, ChainFacts DEF Asked
  <1>3. visited \in Seq(Site) /\ MaxRequests \in Nat
    BY DmarcAssumption DEF TypeInv, TypeOK
  <1>4. /\ way \in Seq(Site) /\ Len(way) = m + 1 /\ way # <<>>
        /\ \A k \in 1 .. m : way[k] = visited[k]
        /\ way[m + 1] = Asked.to
        /\ DOMAIN way = 1 .. m + 1 /\ DOMAIN visited = 1 .. m
    BY <1>2, <1>3
  <1>5. /\ (Ways(This))' = Ways(This) /\ (Wanted(This))' <=> Wanted(This)
        /\ (Delays(visited))' = Delays(way)
    BY <1>1, Zenon DEF Ways, Wanted, This, Delays
  <1>6. visited \in Ways(This) /\ Wanted(This)
    BY <1>1 DEF OnTheWay
  <1>11. TimeOf(visited) = (clock - began) + Asked.delay
    BY <1>1, ChainTakes
  <1> HIDE DEF way
  <1>7. way \in Ways(This)
    <2>1. m + 1 \in 1 .. MaxRequests
      BY <1>1, <1>2, <1>3
    <2>2. way \in [1 .. m + 1 -> Site]
      BY <1>4
    <2>3. way \in UNION {[1 .. n -> Site] : n \in 1 .. MaxRequests}
      BY <2>1, <2>2
    <2>4. /\ visited[1] = This
          /\ \A k \in 1 .. m - 1 :
                web[visited[k]].reply = "redirect" /\ visited[k + 1] = web[visited[k]].to
      BY <1>6 DEF Ways
    <2>5. way[1] = This
      <3>1. 1 \in 1 .. m
        BY <1>2
      <3> QED
        BY <1>4, <2>4, <3>1
    <2>6. ASSUME NEW k \in 1 .. Len(way) - 1
          PROVE  web[way[k]].reply = "redirect" /\ way[k + 1] = web[way[k]].to
      <3>1. k \in 1 .. m /\ way[k] = visited[k]
        BY <1>2, <1>4
      <3>2. CASE k = m
        BY <1>1, <1>2, <1>4, <3>1, <3>2
      <3>3. CASE k # m
        <4>1. k \in 1 .. m - 1 /\ k + 1 \in 1 .. m
          BY <1>2, <3>1, <3>3
        <4> QED
          BY <1>4, <2>4, <3>1, <4>1
      <3> QED
        BY <3>2, <3>3
    <2> QED
      BY <2>3, <2>5, <2>6 DEF Ways
  <1>8. Together(Delays(way), m) = Together(Delays(visited), m)
    <2>1. ASSUME NEW k \in 1 .. m PROVE Delays(way)[k] = Delays(visited)[k]
      <3>1. k \in DOMAIN way /\ k \in DOMAIN visited /\ way[k] = visited[k]
        BY <1>2, <1>4
      <3> QED
        BY <3>1 DEF Delays
    <2> QED
      BY <1>2, <2>1, TogetherSame
  <1>9. Together(Delays(visited), m) = TimeOf(visited)
    BY DEF TimeOf, Delays
  <1>10. Len(way) - 1 = m /\ (clock + Asked.delay) - began = (clock - began) + Asked.delay
    BY <1>2, <1>4
  <1>12. Together(Delays(way), Len(way) - 1) = (clock + Asked.delay) - began
    BY <1>8, <1>9, <1>10, <1>11
  <1>13. /\ (Wanted(This))' /\ visited' \in (Ways(This))'
         /\ clock' - began' = Together((Delays(visited))', Len(visited') - 1)
    BY <1>1, <1>5, <1>6, <1>7, <1>12
  <1> QED
    BY <1>13 DEF OnTheWay

\* What the records of the endpoints say stays true.
LEMMA StillShown ==
  ASSUME RecordInv, UNCHANGED <<targets, checks, enabled, web>>, clock = Budget => clock' = Budget
  PROVE  \A k \in DOMAIN checks' : Shown(k)'
  <1> SUFFICES ASSUME NEW k \in DOMAIN checks PROVE Shown(k)'
    OBVIOUS
  <1>1. Shown(k)
    BY DEF RecordInv
  <1>2. /\ (Wanted(targets[k]))' <=> Wanted(targets[k])
        /\ (Answers(targets[k]))' <=> Answers(targets[k])
        /\ (FailsToAnswer(targets[k]))' <=> FailsToAnswer(targets[k])
    BY Zenon DEF Wanted, Answers, FailsToAnswer, Ways, TimeOf
  <1> QED
    BY <1>1, <1>2 DEF Shown

LEMMA StepRecordInv == LookupInv /\ TypeInv /\ RecordInv /\ [Next]_vars => RecordInv'
  <1> SUFFICES ASSUME LookupInv, TypeInv, RecordInv, [Next]_vars PROVE RecordInv'
    OBVIOUS
  <1>1. CASE Lookup
    <2>1. UNCHANGED dnsWorld /\ UNCHANGED dmarcVars /\ Pending
      BY <1>1, DnsFrame DEF Lookup, LookupInv
    <2>2. stage \in {"lookup", "other"}
      <3>1. stage # "heads"
        BY <2>1 DEF LookupInv, PlaceInv, Pending
      <3>2. stage # "done"
        BY <2>1 DEF RecordInv, Done, Judged, Pending
      <3> QED
        BY <3>1, <3>2 DEF TypeInv, TypeOK
    <2>3. stage' = stage /\ checks' = checks /\ question' = question /\ visited' = visited
      BY <2>1 DEF dmarcVars, chain, dnsWorld
    <2>5. visited' = <<>>
      BY <2>2, <2>3 DEF TypeInv, More
    <2>4. checks' = <<>> /\ DOMAIN checks' = {}
      BY <2>2, <2>3 DEF RecordInv
    <2> QED
      BY <2>2, <2>3, <2>4, <2>5 DEF RecordInv, Done, OnTheWay
  <1>2. CASE LookupFailed \/ NoRecord
    <2>1. /\ stage = "lookup" /\ stage' = "done" /\ checks' = checks /\ UNCHANGED dnsVars
          /\ visited' = visited
      BY <1>2 DEF LookupFailed, NoRecord, chain
    <2>5. visited' = <<>>
      BY <2>1 DEF TypeInv, More
    <2>2. question' = question /\ pc' = pc /\ Record' = Record
      BY <2>1 DEF dnsVars, dnsWorld, Record
    <2>3. checks' = <<>> /\ DOMAIN checks' = {} /\ question = "TXT"
      BY <2>1 DEF RecordInv
    <2>4. Judged'
      <3>1. CASE LookupFailed
        <4>1. pc = "failed" /\ feature' = [status |-> "unknown", mark |-> "none"]
          BY <3>1, DmarcVerdicts DEF LookupFailed
        <4> QED
          BY <2>2, <2>3, <4>1 DEF Judged
      <3>2. CASE NoRecord
        <4>1. /\ pc = "answered" /\ Record = <<>>
              /\ feature' = [status |-> "absent", mark |-> "none"]
          BY <3>2, DmarcVerdicts DEF NoRecord
        <4> QED
          BY <2>2, <2>3, <4>1 DEF Judged
      <3> QED
        BY <1>2, <3>1, <3>2
    <2> QED
      BY <2>1, <2>2, <2>3, <2>4, <2>5 DEF RecordInv, OnTheWay
  <1>3. CASE HasRecord
    <2>1. /\ stage = "lookup" /\ stage' = "heads" /\ checks' = checks /\ UNCHANGED dnsVars
          /\ Record # <<>> /\ pairs' = Parse(Record) /\ targets' = URIs(Get(pairs', "rua"))
          /\ visited' = visited
      BY <1>3 DEF HasRecord, chain
    <2>5. visited' = <<>>
      BY <2>1 DEF TypeInv, More
    <2>2. question' = question /\ Record' = Record
      BY <2>1 DEF dnsVars, dnsWorld, Record
    <2>3. checks' = <<>> /\ DOMAIN checks' = {} /\ question = "TXT"
      BY <2>1 DEF RecordInv
    <2>4. Holds'
      BY <2>1, <2>2 DEF Holds
    <2> QED
      BY <2>1, <2>2, <2>3, <2>4, <2>5 DEF RecordInv, Done, OnTheWay
  <1>4. CASE Skips \/ HeadAnswers \/ HeadTimesOut
    <2>1. visited' = <<>> /\ \A k \in DOMAIN checks' : Shown(k)'
      BY <1>4, NextShown
    <2>2. /\ UNCHANGED <<pc, server, answer, dnsWorld, stage, pairs, targets>>
          /\ stage = "heads"
      BY <1>4 DEF Skips, HeadAnswers, HeadTimesOut, Replies, TooLate, Found, More
    <2>3. Record' = Record /\ question' = question
      BY <2>2 DEF Record, dnsWorld
    <2>4. Holds' /\ question = "TXT"
      BY <2>2, <2>3 DEF RecordInv, Holds
    <2> QED
      BY <2>1, <2>2, <2>3, <2>4 DEF RecordInv, Done, OnTheWay
  <1>7. CASE HeadSends \/ HeadRedirected
    <2>1. /\ UNCHANGED <<answer, question, stage, pairs, targets, checks, enabled, web>>
          /\ stage = "heads"
      BY <1>7 DEF HeadSends, HeadRedirected, Replies, More, dnsVars, dnsWorld, dmarcWorld
    <2>2. clock = Budget => clock' = Budget
      <3>1. CASE HeadSends
        BY <3>1 DEF HeadSends, dnsVars
      <3>2. CASE HeadRedirected
        <4>1. /\ visited # <<>> /\ clock' = clock + Asked.delay
              /\ clock + Asked.delay <= HeadDeadline
          BY <3>2 DEF HeadRedirected, Replies
        <4>2. /\ Asked.delay \in Nat /\ clock \in Nat /\ Budget \in Nat
              /\ HeadDeadline \in Nat /\ HeadDeadline <= Budget
          BY <4>1, ChainFacts
        <4> QED
          BY <4>1, <4>2
      <3> QED
        BY <1>7, <3>1, <3>2
    <2>3. \A k \in DOMAIN checks' : Shown(k)'
      BY <2>1, <2>2, StillShown
    <2>4. Record' = Record
      BY <2>1 DEF Record
    <2>5. Holds' /\ question = "TXT"
      BY <2>1, <2>4 DEF RecordInv, Holds
    <2>6. OnTheWay'
      BY <1>7, WayBegins, WayGoesOn DEF RecordInv
    <2> QED
      BY <2>1, <2>3, <2>5, <2>6 DEF RecordInv, Done
  <1>5. CASE Judge
    <2>1. /\ stage = "heads" /\ stage' = "done" /\ Len(checks) = Len(targets)
          /\ UNCHANGED <<dnsVars, pairs, targets, checks, chain, dmarcWorld>>
          /\ feature' = [status |-> DmarcVerdict([ok |-> TRUE, found |-> TRUE,
                                                  policy |-> PolicySeen]),
                         mark |-> RuaMark]
      BY <1>5 DEF Judge
    <2>2. /\ question' = question /\ pc' = pc /\ clock' = clock /\ Record' = Record
          /\ enabled' = enabled /\ web' = web
      BY <2>1 DEF dnsVars, dnsWorld, dmarcWorld, Record
    <2>3. PolicySeen' = PolicySeen
      BY <2>1, Zenon DEF PolicySeen
    <2>4. RuaMark' = RuaMark
      BY <2>1, Zenon DEF RuaMark, Checked
    <2>5. pc = "answered" /\ Holds /\ question = "TXT"
      BY <2>1 DEF LookupInv, PlaceInv, RecordInv
    <2>6. Holds'
      BY <2>1, <2>2, <2>5 DEF Holds
    <2>7. Judged'
      BY <2>1, <2>2, <2>3, <2>4, <2>5, <2>6, Zenon DEF Judged
    <2>8. \A k \in DOMAIN checks' : Shown(k)'
      BY <2>1, <2>2, StillShown
    <2>9. visited' = <<>>
      <3>1. Len(checks) = Len(targets) /\ Len(checks) \in Nat /\ visited' = visited
        BY <2>1 DEF TypeInv, TypeOK, chain
      <3> QED
        BY <3>1 DEF TypeInv, More
    <2> QED
      BY <2>1, <2>2, <2>5, <2>7, <2>8, <2>9 DEF RecordInv, OnTheWay
  <1>6. CASE Terminated \/ UNCHANGED vars
    <2>1. UNCHANGED vars
      BY <1>6 DEF Terminated
    <2>2. /\ UNCHANGED <<pc, answer, question, clock, stage, pairs, targets, checks, feature>>
          /\ UNCHANGED <<enabled, web, visited, began>>
      BY <2>1 DEF vars, dnsVars, dnsWorld, dmarcVars, chain, dmarcWorld
    <2>3. \A k \in DOMAIN checks' : Shown(k)'
      BY <2>2, StillShown
    <2>4. OnTheWay' <=> OnTheWay
      BY <2>2, Zenon DEF OnTheWay, Wanted, This, Ways, Delays
    <2>5. (Holds' <=> Holds) /\ (Judged' <=> Judged)
      BY <2>2, Zenon DEF Judged, Holds, Record, RuaMark, Checked, PolicySeen
    <2> QED
      BY <2>2, <2>3, <2>4, <2>5 DEF RecordInv, Done
  <1> QED
    BY <1>1, <1>2, <1>3, <1>4, <1>5, <1>6, <1>7 DEF Next

\* Where the endpoints are, in the record and in the list.
LEMMA ListedFacts ==
  ASSUME FirstDmarc = Record, Record \in Text, Holds
  PROVE  /\ \A k \in DOMAIN targets : schemeOf[targets[k]] = "https" => targets[k] \in Listed
         /\ \A uri \in Listed : \E k \in DOMAIN targets :
               uri = targets[k] /\ schemeOf[targets[k]] = "https"
  <1> DEFINE T == Record
             W == Words(T)
  <1>1. SameTokens(URIs(Get(Parse(T), "rua")), T, W)
    BY RuaFacts
  <1>2. targets = URIs(Get(Parse(T), "rua"))
    BY DEF Holds
  <1>3. Listed = {uri \in {T[j] : j \in W} : schemeOf[uri] = "https"}
    BY DEF Listed
  <1> HIDE DEF T, W
  <1>4. /\ \A k \in DOMAIN targets : \E j \in W : targets[k] = T[j]
        /\ \A j \in W : \E k \in DOMAIN targets : targets[k] = T[j]
    BY <1>1, <1>2 DEF SameTokens
  <1> QED
    BY <1>3, <1>4

\* No record is judged but the first that is DMARC's.
LEMMA RecordIsFirst ==
  ASSUME TypeInv, RecordInv, stage # "other"
  PROVE  FirstDmarc = Record /\ (Record # <<>> => Record \in Text)
  <1>1. answer \in {Told, <<>>} /\ question = "TXT" /\ transport \in {"udp", "doh"}
    BY DEF TypeInv, TypeOK, DnsTypeOK, RecordInv
  <1>2. zone \in Zones /\ zone \in Seq(RR)
    BY ZonesAssumption DEF TypeInv, TypeOK, DnsTypeOK
  <1>3. TextList(Told)
    <2>1. \A over \in {"udp", "doh"}, t \in RRType : Reading[over][t][zone] = Records(over, t, zone)
      BY <1>2 DEF Reading
    <2>2. Told = Records(transport, "TXT", zone)
      BY <1>1, <2>1 DEF Told, RRType
    <2> QED
      BY <1>1, <1>2, <2>2, TextsTold
  <1>4. TextList(<<>>)
    <2>1. 0 \in Nat /\ DOMAIN <<>> = 1 .. 0 /\ 1 .. 0 = {}
      OBVIOUS
    <2> QED
      BY <2>1 DEF TextList
  <1>5. TextList(answer)
    BY <1>1, <1>3, <1>4
  <1>6. FirstDmarc = First(answer) /\ Record = PickByVersion(answer, "DMARC1")
    BY DEF FirstDmarc, First, Record
  <1> QED
    BY <1>5, <1>6, FirstIsPicked

LEMMA JudgedByRecord ==
  ASSUME TypeInv, RecordInv
  PROVE  RecordDecides
  <1> SUFFICES ASSUME Done
               PROVE  feature.status =
                        CASE pc = "failed" -> "unknown"
                          [] pc = "answered" /\ FirstDmarc = <<>> -> "absent"
                          [] pc = "answered" /\ FirstDmarc # <<>> ->
                                IF HasPolicy(FirstDmarc) THEN "present" ELSE "misconfigured"
    BY DEF RecordDecides
  <1>1. Judged /\ stage # "other"
    BY DEF RecordInv, Done
  <1>2. FirstDmarc = Record /\ (Record # <<>> => Record \in Text)
    BY <1>1, RecordIsFirst
  <1>3. CASE pc = "failed" /\ feature = [status |-> "unknown", mark |-> "none"]
    BY <1>3
  <1>4. CASE /\ pc = "answered" /\ Record = <<>>
             /\ feature = [status |-> "absent", mark |-> "none"]
    BY <1>2, <1>4
  <1> DEFINE status == DmarcVerdict([ok |-> TRUE, found |-> TRUE, policy |-> PolicySeen])
  <1>5. CASE pc = "answered" /\ Holds /\ feature = [status |-> status, mark |-> RuaMark]
    <2>1. Record # <<>> /\ Record \in Text /\ pairs = Parse(Record)
      BY <1>2, <1>5 DEF Holds
    <2>2. Get(pairs, "p") # <<>> <=> HasPolicy(Record)
      BY <2>1, PolicyFacts
    <2>3. status = IF HasPolicy(Record) THEN "present" ELSE "misconfigured"
      BY <2>2, StatusFacts
    <2> HIDE DEF status
    <2>4. feature.status = status
      BY <1>5
    <2> QED
      BY <1>2, <1>5, <2>1, <2>3, <2>4
  <1> QED
    BY <1>1, <1>3, <1>4, <1>5 DEF Judged

LEMMA MarkedByRecord ==
  ASSUME TypeInv, RecordInv
  PROVE  RuaMarkIsEarned
  <1>1. \A k \in DOMAIN checks : Shown(k)
    BY DEF RecordInv
  <1>2. \A k \in Checked : k \in DOMAIN checks /\ checks[k].checked
    BY DEF Checked
  <1>3. \A k \in Checked : schemeOf[targets[k]] = "https" /\ enabled
    BY <1>1, <1>2 DEF Shown, Wanted
  <1>8. visited # <<>> => enabled /\ \E uri \in Listed : visited \in Ways(uri)
    <2> SUFFICES ASSUME visited # <<>> PROVE enabled /\ \E uri \in Listed : visited \in Ways(uri)
      OBVIOUS
    <2>1. More /\ stage = "heads" /\ Wanted(This) /\ visited \in Ways(This) /\ Holds
      BY DEF TypeInv, RecordInv, OnTheWay, More
    <2>2. FirstDmarc = Record /\ Record \in Text
      BY <2>1, RecordIsFirst DEF Holds
    <2>3. \A k \in DOMAIN targets : schemeOf[targets[k]] = "https" => targets[k] \in Listed
      BY <2>1, <2>2, ListedFacts
    <2>4. Len(checks) + 1 \in DOMAIN targets
      BY <2>1 DEF TypeInv, TypeOK, More
    <2>5. This \in Listed /\ enabled
      BY <2>1, <2>3, <2>4 DEF This, Wanted
    <2> QED
      BY <2>1, <2>5
  <1>4. CASE Done /\ pc = "answered" /\ Holds /\ Len(checks) = Len(targets)
                  /\ feature.mark = RuaMark
    <2>1. FirstDmarc = Record /\ Record \in Text
      BY <1>4, RecordIsFirst DEF Done, Holds
    <2>2. /\ \A k \in DOMAIN targets : schemeOf[targets[k]] = "https" => targets[k] \in Listed
          /\ \A uri \in Listed : \E k \in DOMAIN targets :
                uri = targets[k] /\ schemeOf[targets[k]] = "https"
      BY <1>4, <2>1, ListedFacts
    <2>3. DOMAIN checks = DOMAIN targets
      <3>1. /\ DOMAIN checks = 1 .. Len(checks)
            /\ DOMAIN targets = 1 .. Len(targets)
        BY DEF TypeInv, TypeOK
      <3> QED
        BY <1>4, <3>1
    <2>4. Get(pairs, "rua") = <<>> => Checked = {}
      <3> SUFFICES ASSUME Get(pairs, "rua") = <<>> PROVE Checked = {}
        OBVIOUS
      <3>1. targets = URIs(<<>>)
        BY <1>4 DEF Holds
      <3>2. DOMAIN URIs(<<>>) = {}
        BY NoUris
      <3> QED
        BY <2>3, <3>1, <3>2 DEF Checked
    <2>5. /\ RuaMark = "tick" => Checked # {} /\ \A k \in Checked : checks[k].reachable
          /\ RuaMark = "cross" => \E k \in Checked : ~checks[k].reachable
          /\ Checked # {} => RuaMark \in {"tick", "cross"}
      BY <2>4, MarkFacts
    <2>6. ASSUME NEW uri \in Listed, enabled PROVE \E k \in Checked : uri = targets[k]
      <3>1. PICK k \in DOMAIN targets : uri = targets[k] /\ schemeOf[targets[k]] = "https"
        BY <2>2
      <3>2. checks[k].checked /\ k \in DOMAIN checks
        BY <1>1, <2>3, <2>6, <3>1 DEF Shown, Wanted
      <3> QED
        BY <3>1, <3>2 DEF Checked
    <2>7. \A k \in Checked : targets[k] \in Listed
      BY <1>2, <1>3, <2>2, <2>3
    <2>8. ASSUME feature.mark = "tick" PROVE Listed # {} /\ \A uri \in Listed : Answers(uri)
      <3>1. Checked # {} /\ \A k \in Checked : checks[k].reachable
        BY <1>4, <2>5, <2>8
      <3>2. enabled /\ Listed # {}
        BY <1>3, <2>7, <3>1
      <3>3. \A k \in Checked : Answers(targets[k])
        BY <1>1, <1>2, <3>1 DEF Shown
      <3> QED
        BY <2>6, <3>2, <3>3
    <2>9. ASSUME feature.mark = "cross"
          PROVE  (\E uri \in Listed : FailsToAnswer(uri)) \/ clock = Budget
      <3>1. PICK k \in Checked : ~checks[k].reachable
        BY <1>4, <2>5, <2>9
      <3>2. FailsToAnswer(targets[k]) \/ clock = Budget
        BY <1>1, <1>2, <3>1 DEF Shown
      <3> QED
        BY <2>7, <3>2
    <2>10. enabled /\ Listed # {} => feature.mark \in {"tick", "cross"}
      BY <1>4, <2>5, <2>6
    <2> QED
      BY <1>3, <1>8, <2>8, <2>9, <2>10 DEF RuaMarkIsEarned
  <1>5. CASE Done /\ feature.mark = "none" /\ (pc = "answered" => Record = <<>>)
    <2>1. FirstDmarc = Record
      BY <1>5, RecordIsFirst DEF Done
    <2>2. pc = "answered" => Listed = {}
      <3> SUFFICES ASSUME pc = "answered" PROVE Listed = {}
        OBVIOUS
      <3>1. FirstDmarc = <<>> /\ DOMAIN <<>> = {}
        BY <1>5, <2>1
      <3>2. Words(<<>>) = {}
        BY <3>1 DEF Words
      <3> QED
        BY <3>1, <3>2 DEF Listed
    <2> QED
      BY <1>3, <1>5, <1>8, <2>2 DEF RuaMarkIsEarned
  <1>6. CASE ~Done
    BY <1>3, <1>6, <1>8 DEF RuaMarkIsEarned
  <1>7. Done => Judged
    BY DEF RecordInv
  <1> QED
    BY <1>4, <1>5, <1>6, <1>7 DEF Judged

LEMMA RecordInvariant == Spec => [](TypeInv /\ RecordInv)
  <1>1. Spec => []TypeInv
    BY InitTypeInv, StepTypeInv, LookupInvariant, PTL DEF Spec
  <1>2. Spec => []RecordInv
    BY <1>1, InitRecordInv, StepRecordInv, LookupInvariant, PTL DEF Spec
  <1> QED
    BY <1>1, <1>2, PTL

\* dmarc.go:107-174: for every zone, over either transport, the status is that of
\* the first v=DMARC1 record that was answered, as it reads without the parser.
THEOREM StatusOfTheRecord == Spec => []RecordDecides
  <1>1. TypeInv /\ RecordInv => RecordDecides
    BY JudgedByRecord
  <1> QED
    BY <1>1, RecordInvariant, PTL

\* dmarc.go:72-81, 183-211, httpfetcher.go:31-39: for any list of endpoints, any web
\* servers and wherever they send the client, the tick is earned, the cross is
\* deserved, and a request is made of nobody but the endpoints and whom they send to.
THEOREM MarkOfTheEndpoints == Spec => []RuaMarkIsEarned
  <1>1. TypeInv /\ RecordInv => RuaMarkIsEarned
    BY MarkedByRecord
  <1> QED
    BY <1>1, RecordInvariant, PTL
=============================================================================
