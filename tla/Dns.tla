-------------------------------- MODULE Dns ---------------------------------
(***************************************************************************)
(* One lookup of internal/probe/dnsclient: over UDP with a list of         *)
(* servers, one deadline for all of them and a TCP retry (client.exchange),*)
(* or over DoH (dohClient), whose list of providers dnsdata-go tries one   *)
(* after the other, each with a timeout of its own; and how an answer of   *)
(* either transport becomes the records a probe sees.                      *)
(*                                                                         *)
(* Time is the `clock' of the domain's budget, which jumps to the moment   *)
(* at which the request under way ends.  Every server answers in a way and *)
(* after a delay of its own; an answer due exactly at a deadline may be    *)
(* had or lost.                                                            *)
(***************************************************************************)
EXTENDS Integers, Sequences, SequencesExt, Pick

CONSTANTS
    NumServers,  \* the servers of the UDP client, or the providers of the DoH client
    Timeout,     \* Config.Timeout of the UDP client, in units of time
    ProviderTimeout,  \* how long the DoH client waits for one provider
    Budget,      \* the domain's context, opts.timeout*2
    Delay,       \* how long a server may take
    Starts,      \* when in the budget a lookup may begin
    decimal,     \* byte outside ' '..'~' -> its value in three digits
    Zones        \* answer sections: sequences of resource records

Server == 1 .. NumServers
RRType == {"TXT", "MX", "TLSA", "DS"}  \* the types that probes ask for

\* A server's ways: the answer fits, is cut (TC) and then had over TCP or not,
\* is an error code, or does not come: an error at once, or silence.
Way == {"whole", "cut", "cut-error", "cut-silent", "refuses", "error", "silent"}

ASSUME DnsAssumption ==
    /\ NumServers \in Nat \ {0}
    /\ Timeout \in Nat \ {0} /\ ProviderTimeout \in Nat \ {0}
    /\ Budget \in Nat /\ Timeout <= Budget
    /\ Delay \subseteq Nat \ {0}
    /\ Starts \subseteq 0 .. Budget - 1

\* A resource record.  A text is a sequence of tokens, a name one of labels.
\* Whether a TLSA record's data can be had is its library's word: over UDP that
\* it is hexadecimal, over DoH that the record comes with a handler.
RR == [type : {"TXT"}, strings : Seq(Seq(STRING))]
        \cup [type : {"MX"}, pref : Nat, host : Seq(STRING)]
        \cup [type : {"TLSA"}, data : STRING, hex : BOOLEAN, handled : BOOLEAN]
        \cup [type : STRING \ {"TXT", "MX", "TLSA"}]

ASSUME ZonesAssumption == Zones \subseteq Seq(RR)

-----------------------------------------------------------------------------
(* What a transport makes of an answer section.                            *)

Quote == "\""
Backslash == "\\"
Space == " "

ASSUME DecimalAssumption ==
    /\ decimal \in [DOMAIN decimal -> STRING]
    /\ DOMAIN decimal \cap {Quote, Backslash, Space} = {}

\* A character in print.
Printed(c) == IF c \in DOMAIN decimal THEN decimal[c] ELSE c

\* The presentation form: quotes and backslashes are written with a backslash
\* before them, bytes that cannot be printed as a backslash and three digits.
Escaped(text) ==
    FlattenSeq([i \in DOMAIN text |->
        IF text[i] \in {Quote, Backslash} \cup DOMAIN decimal
        THEN <<Backslash, Printed(text[i])>> ELSE <<text[i]>>])

\* miekg/dns hands over the strings of a TXT record with their escapes.
Txt(strings) == [k \in DOMAIN strings |-> Escaped(strings[k])]

\* dnsdata-go hands over one text: the strings, quoted, with blanks between.
Value(strings) ==
    FlattenSeq([k \in DOMAIN strings |->
        (IF k = 1 THEN <<>> ELSE <<Space>>)
            \o <<Quote>> \o Escaped(strings[k]) \o <<Quote>>])

\* One token read: between strings, inside one, after a backslash (which takes
\* the next character for itself, three digits included); bad for good where a
\* string does not start with a quote.
DecodeStep(state, c) ==
    CASE state.at = "between" ->
            [state EXCEPT !.at = CASE c = Space -> "between"
                                   [] c = Quote -> "inside"
                                   [] OTHER -> "bad"]
      [] state.at = "inside" ->
            CASE c = Backslash -> [state EXCEPT !.at = "escape"]
              [] c = Quote -> [state EXCEPT !.at = "between"]
              [] OTHER -> [state EXCEPT !.text = Append(@, c)]
      [] state.at = "escape" -> [at |-> "inside", text |-> Append(state.text, c)]
      [] state.at = "bad" -> state

\* Whether the value is well formed, and the strings glued together.
decodeTXTPresentation(value) ==
    LET end == FoldLeft(DecodeStep, [at |-> "between", text |-> <<>>], value)
    IN  [ok |-> end.at = "between", text |-> end.text]

\* The preference and the host; the root's name is an empty host, and refused.
decodeMXPresentation(rr) ==
    IF rr.host = <<>> THEN <<>> ELSE <<[pref |-> rr.pref, host |-> rr.host]>>

\* A bug: the escapes stay in the text.
DohReads_Escaped(rr) ==
    CASE rr.type = "TXT" -> << FlattenSeq(Txt(rr.strings)) >>
      [] rr.type = "MX" -> decodeMXPresentation(rr)
      [] rr.type = "TLSA" -> IF rr.handled THEN <<rr.data>> ELSE <<>>
      [] OTHER -> <<rr>>

DohReads(rr) ==
    CASE rr.type = "TXT" ->
            LET decoded == decodeTXTPresentation(Value(rr.strings))
            IN  IF decoded.ok THEN <<decoded.text>> ELSE <<>>
      [] rr.type = "MX" -> decodeMXPresentation(rr)
      [] rr.type = "TLSA" -> IF rr.handled THEN <<rr.data>> ELSE <<>>
      [] OTHER -> <<rr>>

UdpReads(rr) ==
    CASE rr.type = "TXT" -> << FlattenSeq(Txt(rr.strings)) >>
      [] rr.type = "MX" -> <<[pref |-> rr.pref, host |-> rr.host]>>
      [] rr.type = "TLSA" -> IF rr.hex THEN <<rr.data>> ELSE <<>>
      [] OTHER -> <<rr>>

OfType(rr, type) == rr.type = type

\* LookupTXT, LookupMX, LookupTLSA and HasDS (which asks for any at all).
Records(over, type, section) ==
    FlattenSeq([k \in DOMAIN section |->
        CASE ~OfType(section[k], type) -> <<>>
          [] OfType(section[k], type) /\ over = "udp" -> UdpReads(section[k])
          [] OfType(section[k], type) /\ over = "doh" -> DohReads(section[k])])

\* What each transport tells of each section, worked out once.
Reading == [over \in {"udp", "doh"} |-> [type \in RRType |->
                [section \in Zones |-> Records(over, type, section)]]]

-----------------------------------------------------------------------------

VARIABLES
    pc,        \* "udp", "tcp" or "doh"; "answered" or "failed" in the end
    server,    \* the server that is asked
    clock,     \* time since the domain's context began
    answer,    \* the records the caller gets
    started,   \* when the lookup began
    question,  \* the type asked for
    transport, \* what --dns-server chose
    zone,      \* the answer section that a server has to give
    servers    \* server -> its way and delay

dnsWorld == <<started, question, transport, zone, servers>>
dnsVars == <<pc, server, clock, answer, dnsWorld>>

Behaviour == [way : Way, delay : Delay]

\* The records this lookup is about.
Told == Reading[transport][question][zone]

LookedUp == pc \in {"answered", "failed"}

DnsTypeOK ==
    /\ pc \in {"udp", "tcp", "doh", "answered", "failed"}
    /\ server \in Server
    /\ clock \in started .. Budget
    /\ answer \in {Told, <<>>}
    /\ started \in Starts
    /\ question \in RRType
    /\ transport \in {"udp", "doh"}
    /\ zone \in Zones
    /\ servers \in [Server -> Behaviour]

DnsInit ==
    /\ transport \in {"udp", "doh"}
    /\ pc = transport
    /\ server = 1
    /\ started \in Starts
    /\ clock = started
    /\ answer = <<>>
    /\ question \in RRType
    /\ zone \in Zones
    /\ servers \in [Server -> Behaviour]
    /\ transport = "doh" =>
           \A s \in Server : servers[s].way \in {"whole", "refuses", "error", "silent"}

-----------------------------------------------------------------------------

Earlier(t, u) == IF t <= u THEN t ELSE u

\* A bug: every server gets the whole timeout.
Deadline_PerServer ==
    IF transport = "udp" THEN clock + Timeout ELSE Earlier(clock + ProviderTimeout, Budget)

\* When the request that is made now ends.  Over UDP dctx is made before the
\* loop over the servers; over DoH each provider has its own time, and only the
\* domain's context limits them together.
Deadline ==
    IF transport = "udp" THEN Earlier(started + Timeout, Budget)
    ELSE Earlier(clock + ProviderTimeout, Budget)

\* The moment the request under way would be answered, and whether it is.
Due(b) == clock + b.delay
MayCome(b) == b.way # "silent" /\ Due(b) <= Deadline
MayBeLost(b) == b.way = "silent" \/ Due(b) >= Deadline

\* The caller gets the records; an error code is not looked at.
Return(b) ==
    /\ pc' = "answered"
    /\ answer' = IF b.way = "refuses" THEN <<>> ELSE Told
    /\ UNCHANGED <<server, dnsWorld>>

\* A bug: the loop goes on past the last server.
Failover_PastLast ==
    /\ pc' = "udp"
    /\ server' = server + 1
    /\ UNCHANGED <<answer, dnsWorld>>

\* The error is kept, and the next server is asked while there is one.
Failover ==
    /\ IF server = NumServers THEN pc' = "failed" /\ server' = server
       ELSE pc' = transport /\ server' = server + 1
    /\ UNCHANGED <<answer, dnsWorld>>

\* An answer over UDP that is not cut.
UdpAnswers ==
    /\ pc = "udp"
    /\ servers[server].way \in {"whole", "refuses"}
    /\ MayCome(servers[server])
    /\ clock' = Due(servers[server])
    /\ Return(servers[server])

\* A bug: what fitted into the datagram is taken for the answer.
UdpCut_Taken ==
    /\ pc = "udp"
    /\ servers[server].way \in {"cut", "cut-error", "cut-silent"}
    /\ MayCome(servers[server])
    /\ clock' = Due(servers[server])
    /\ pc' = "answered"
    /\ answer' = SubSeq(Told, 1, Len(Told) - 1)
    /\ UNCHANGED <<server, dnsWorld>>

\* The answer has the TC bit: the same server is asked over TCP.
UdpCut ==
    /\ pc = "udp"
    /\ servers[server].way \in {"cut", "cut-error", "cut-silent"}
    /\ MayCome(servers[server])
    /\ clock' = Due(servers[server])
    /\ pc' = "tcp"
    /\ UNCHANGED <<server, answer, dnsWorld>>

\* An error, at once or when dctx is done (which then fails all that follow).
UdpFails ==
    /\ pc = "udp"
    /\ \/ /\ servers[server].way = "error"
          /\ MayCome(servers[server])
          /\ clock' = Due(servers[server])
       \/ MayBeLost(servers[server]) /\ clock' = Deadline
    /\ Failover

TcpAnswers ==
    /\ pc = "tcp"
    /\ servers[server].way = "cut"
    /\ MayCome(servers[server])
    /\ clock' = Due(servers[server])
    /\ Return(servers[server])

TcpFails ==
    /\ pc = "tcp"
    /\ \/ /\ servers[server].way = "cut-error"
          /\ MayCome(servers[server])
          /\ clock' = Due(servers[server])
       \/ /\ servers[server].way = "cut-silent" \/ MayBeLost(servers[server])
          /\ clock' = Deadline
    /\ Failover

\* Over DoH nothing is cut.  Whether dnsdata-go takes an error code for an
\* answer or goes on to the next provider, nothing here tells.
DohAnswers ==
    /\ pc = "doh"
    /\ servers[server].way \in {"whole", "refuses"}
    /\ MayCome(servers[server])
    /\ clock' = Due(servers[server])
    /\ Return(servers[server])

DohFails ==
    /\ pc = "doh"
    /\ \/ /\ servers[server].way \in {"error", "refuses"}
          /\ MayCome(servers[server])
          /\ clock' = Due(servers[server])
       \/ MayBeLost(servers[server]) /\ clock' = Deadline
    /\ Failover

DnsNext ==
    \/ UdpAnswers \/ UdpCut \/ UdpFails
    \/ TcpAnswers \/ TcpFails
    \/ DohAnswers \/ DohFails

-----------------------------------------------------------------------------
(* Properties.                                                             *)

Contract == INSTANCE Lookup WITH
    outcome  <- IF LookedUp THEN pc ELSE "pending",
    records  <- answer,
    held     <- Told,
    refusing <- \E s \in Server : servers[s].way = "refuses"

\* dnsclient.go:195-231, doh.go:39-124: a lookup keeps the contract of Lookup
\* over either transport, through failover, truncation and the TCP retry: one
\* outcome, all records or none, never a cut answer or a record of another type.
ImplementsLookup == Contract!Spec

\* The servers that are sure to answer, given time, those that may, and how
\* long each holds up those after it (over UDP a silent one for ever: longer
\* than any deadline).
Answering ==
    IF transport = "udp" THEN {s \in Server : servers[s].way \in {"whole", "refuses", "cut"}}
    ELSE {s \in Server : servers[s].way = "whole" /\ servers[s].delay < ProviderTimeout}
Takes == [s \in Server |->
    CASE transport = "doh" ->
            IF servers[s].way = "silent" THEN ProviderTimeout
            ELSE Earlier(servers[s].delay, ProviderTimeout)
      [] transport = "udp" /\ servers[s].way \in {"whole", "refuses", "error"} ->
            servers[s].delay
      [] transport = "udp" /\ servers[s].way \in {"cut", "cut-error"} -> 2 * servers[s].delay
      [] transport = "udp" /\ servers[s].way \in {"silent", "cut-silent"} -> Budget + 1]

\* How long the first n take together.
Together(times, n) == FoldLeft(LAMBDA sum, t : sum + t, 0, [s \in 1 .. n |-> times[s]])
TakenBy(s) == Together(Takes, s)

\* docs/ARCHITECTURE.md:134, dnsclient.go:199-211, README.md:219: failover
\* reaches the first server that answers as long as it and those before it are
\* done in time, and otherwise no server at all.  Over UDP that time is the one
\* timeout of the lookup, over DoH the domain's budget; and a lookup is never
\* longer than that.
FailoverReaches ==
    LET end   == IF transport = "udp" THEN Earlier(started + Timeout, Budget) ELSE Budget
        first == CHOOSE s \in Answering : \A r \in Answering : s <= r
    IN  /\ pc # "answered" => clock <= end
        /\ pc = "answered" => started + TakenBy(server) <= end
        /\ pc = "answered" /\ Answering # {} => server <= first
        /\ pc = "answered" /\ transport = "udp" => server \in Answering
        /\ pc = "failed" => Answering = {} \/ started + TakenBy(first) >= end

\* doh.go:126-131: over DoH a probe sees the texts and the exchangers of a zone
\* as it would over UDP, in the same order, but for three things: DoH leaves out
\* an MX record of the root; it gives quotes and backslashes as they are, where
\* UDP keeps their escapes; and of a byte that cannot be printed it gives the
\* three digits of its escape, where UDP keeps the backslash too.
TransportsAgree ==
    LET udp(t) == Reading["udp"][t][zone]
        doh(t) == Reading["doh"][t][zone]
        texts  == Picked(zone, {k \in DOMAIN zone : zone[k].type = "TXT"})
        glued  == [k \in DOMAIN texts |-> FlattenSeq(texts[k].strings)]
        hosts  == {k \in DOMAIN udp("MX") : udp("MX")[k].host # <<>>}
    IN  /\ doh("MX") = Picked(udp("MX"), hosts)
        /\ udp("TXT") = [k \in DOMAIN texts |-> Escaped(glued[k])]
        /\ doh("TXT") = [k \in DOMAIN texts |->
                            [i \in DOMAIN glued[k] |->
                                IF glued[k][i] \in DOMAIN decimal
                                THEN decimal[glued[k][i]] ELSE glued[k][i]]]

\* README.md:70: "`MX 0 .` (null MX) is reported as absent with the explicit
\* reason": what the mx probe looks for in an answer (mx.go:100, 121-123) is in
\* the answer, whichever transport gives it.
NullMxIsTold ==
    /\ pc = "answered" /\ question = "MX"
    /\ zone = <<[type |-> "MX", pref |-> 0, host |-> <<>>]>>
    /\ \A s \in Server : servers[s].way # "refuses"
    => answer = <<[pref |-> 0, host |-> <<>>]>>
=============================================================================
