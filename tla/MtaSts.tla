------------------------------- MODULE MtaSts -------------------------------
(***************************************************************************)
(* The MTA-STS probe of one domain: internal/probe/mtasts/mtasts.go.       *)
(*                                                                         *)
(* Three requests one after the other: the TXT marker, the policy over     *)
(* HTTPS and, if both halves and an mx: line were found, the MX records,   *)
(* which the policy's patterns must cover.  Then the verdict.              *)
(*                                                                         *)
(* Names, and the values of policy lines, are sequences of the parts       *)
(* between their dots: "" is <<"">>, "*.example." is <<"*", "example", "">>. *)
(***************************************************************************)
EXTENDS Integers, FiniteSets, Sequences, Pick, Verdicts

CONSTANTS
    Label,      \* the parts of names and values; "", "*" and the modes belong
    lower,      \* label -> its lower-case form
    Deployments \* what a domain may be found to publish: the records at
                \* _mta-sts ("sts" where v=STSv1 comes first, or "other"), the
                \* HTTPS reply, its body a sequence of [key, value] lines with
                \* keys in lower case, and the host names of the MX records

Blank == ""         \* what is between two dots in a row, and after a final one
Name == Seq(Label) \ {<<>>}
Empty == <<Blank>>  \* the empty string

ASSUME MtaStsAssumption ==
    /\ {Blank, "*", "none"} \subseteq Label
    /\ lower \in [Label -> Label]
    /\ \A l \in Label : lower[l] = Blank <=> l = Blank
    /\ Deployments \subseteq
          [txt   : Seq({"sts", "other"}),
           reply : [status : Nat,
                    body   : Seq([key   : {"version", "mode", "mx", "other"},
                                  value : Name])],
           mx    : Seq(Name)]

-----------------------------------------------------------------------------
(* The policy.                                                             *)

toLower(name) == [k \in DOMAIN name |-> lower[name[k]]]

\* The value of a key: that of its last line.
ValueOf(body, key) ==
    LET lines == {k \in DOMAIN body : body[k].key = key}
    IN  IF lines = {} THEN Empty
        ELSE body[CHOOSE k \in lines : \A j \in lines : j <= k].value

\* version as it is, mode in lower case, every mx line.
parsePolicy(body) ==
    [version |-> ValueOf(body, "version"),
     mode    |-> toLower(ValueOf(body, "mode")),
     mx      |-> Picked([k \in DOMAIN body |-> body[k].value],
                        {k \in DOMAIN body : body[k].key = "mx"})]

NoPolicy == [version |-> Empty, mode |-> Empty, mx |-> <<>>]

-----------------------------------------------------------------------------
(* MX hosts against the patterns of the policy.                            *)

\* A bug: the trailing dot is kept.
TrimDot_Keeps(name) == name

\* strings.TrimSuffix(name, ".").
TrimDot(name) ==
    IF Len(name) > 1 /\ name[Len(name)] = Blank
    THEN SubSeq(name, 1, Len(name) - 1) ELSE name

\* A bug: the wildcard stands for any number of labels.
matchPattern_AnyDepth(host, pattern) ==
    \/ host = pattern
    \/ /\ Len(pattern) > 1 /\ pattern[1] = "*"
       /\ Len(host) >= Len(pattern)
       /\ \A k \in 2 .. Len(pattern) : host[Len(host) - Len(pattern) + k] = pattern[k]

\* The same name, or "*." and a suffix below which the host is one label.
matchPattern(host, pattern) ==
    \/ host = pattern
    \/ /\ Len(pattern) > 1 /\ pattern[1] = "*"
       /\ Len(host) = Len(pattern)
       /\ \A k \in 2 .. Len(pattern) : host[k] = pattern[k]
       /\ host[1] # Blank

matchAnyPattern(host, patterns) ==
    \E k \in DOMAIN patterns : matchPattern(host, patterns[k])

\* The hosts no pattern covers, in the order of the answer.
Unmatched(hosts, patterns) ==
    LET Norm(name) == TrimDot(toLower(name))
        normal == [k \in DOMAIN patterns |-> Norm(patterns[k])]
    IN  Picked(hosts, {k \in DOMAIN hosts : ~matchAnyPattern(Norm(hosts[k]), normal)})

-----------------------------------------------------------------------------

VARIABLES
    pc,         \* "txt", "https", "mx", "judge", then "done"
    dnsPresent, \* the TXT marker was seen
    policy,     \* the policy that was fetched, NoPolicy without one
    match,      \* what the MX check said, "skipped" if it was not made
    expired,    \* the domain's context is done
    status,     \* the verdict, "pending" until then
    txt,        \* what the TXT lookup answers
    reply,      \* what the policy host answers
    mx,         \* what the MX lookup answers
    dead        \* the requests that are never answered

world == <<txt, reply, mx, dead>>
vars == <<pc, dnsPresent, policy, match, expired, status, world>>

policyPresent == policy.mode # Empty \/ policy.version # Empty

\* A bug: the check is made whatever was found.
Wanted_Always(found, fetched) == TRUE

\* Both halves are there and the policy names hosts.
Wanted(found, fetched) ==
    /\ found
    /\ fetched.mode # Empty \/ fetched.version # Empty
    /\ fetched.mx # <<>>

TypeOK ==
    /\ pc \in {"txt", "https", "mx", "judge", "done"}
    /\ dnsPresent \in BOOLEAN
    /\ policy \in {NoPolicy, parsePolicy(reply.body)}
    /\ match \in {"skipped", "matched", "unmatched"}
    /\ match # "skipped" => dnsPresent /\ policyPresent
    /\ expired \in BOOLEAN
    /\ status \in {"pending", "present", "absent", "misconfigured"}
    /\ [txt |-> txt, reply |-> reply, mx |-> mx] \in Deployments
    /\ dead \in SUBSET {"txt", "https", "mx"}

Init ==
    /\ pc = "txt"
    /\ dnsPresent = FALSE
    /\ policy = NoPolicy
    /\ match = "skipped"
    /\ expired = FALSE
    /\ status = "pending"
    /\ \E d \in Deployments : txt = d.txt /\ reply = d.reply /\ mx = d.mx
    /\ dead \in SUBSET {"txt", "https", "mx"}

-----------------------------------------------------------------------------

\* The three requests follow each other, so one that comes after the end of
\* the context fails.  (The HTTPS client has a timeout of its own besides: a
\* policy host that is too slow for it is among the dead.)
Answers(r) == r \notin dead /\ ~expired
Fails(r) == r \in dead \/ expired

Expire ==
    /\ ~expired
    /\ pc # "done"
    /\ expired' = TRUE
    /\ UNCHANGED <<pc, dnsPresent, policy, match, status, world>>

\* txttag.PickByVersion finds a v=STSv1 record among the answers, or does not.
TxtAnswers ==
    /\ pc = "txt"
    /\ Answers("txt")
    /\ dnsPresent' = \E k \in DOMAIN txt : txt[k] = "sts"
    /\ pc' = "https"
    /\ UNCHANGED <<policy, match, expired, status, world>>

\* A bug: the test of the error is the wrong way round.
TxtFails_AsFound ==
    /\ pc = "txt"
    /\ Fails("txt")
    /\ dnsPresent' = TRUE
    /\ pc' = "https"
    /\ UNCHANGED <<policy, match, expired, status, world>>

TxtFails ==
    /\ pc = "txt"
    /\ Fails("txt")
    /\ pc' = "https"
    /\ UNCHANGED <<dnsPresent, policy, match, expired, status, world>>

\* Only a 200 is read.  Then the MX lookup, if it is wanted.
HttpsAnswers ==
    /\ pc = "https"
    /\ Answers("https")
    /\ policy' = IF reply.status = 200 THEN parsePolicy(reply.body) ELSE NoPolicy
    /\ pc' = IF Wanted(dnsPresent, policy') THEN "mx" ELSE "judge"
    /\ UNCHANGED <<dnsPresent, match, expired, status, world>>

HttpsFails ==
    /\ pc = "https"
    /\ Fails("https")
    /\ pc' = IF Wanted(dnsPresent, NoPolicy) THEN "mx" ELSE "judge"
    /\ UNCHANGED <<dnsPresent, policy, match, expired, status, world>>

\* compareMXAgainstPolicy, unless there is no MX record at all.
MxAnswers ==
    /\ pc = "mx"
    /\ Answers("mx")
    /\ match' = CASE mx = <<>> -> "skipped"
                  [] mx # <<>> /\ Unmatched(mx, policy.mx) = <<>> -> "matched"
                  [] mx # <<>> /\ Unmatched(mx, policy.mx) # <<>> -> "unmatched"
    /\ pc' = "judge"
    /\ UNCHANGED <<dnsPresent, policy, expired, status, world>>

MxFails ==
    /\ pc = "mx"
    /\ Fails("mx")
    /\ pc' = "judge"
    /\ UNCHANGED <<dnsPresent, policy, match, expired, status, world>>

\* What the verdict asks of the mode.
ModeRead == IF policy.mode = <<"none">> THEN "none" ELSE "enforce"

Judge ==
    /\ pc = "judge"
    /\ status' = MtaStsVerdict([txt |-> dnsPresent, policy |-> policyPresent,
                                mode |-> ModeRead, mx |-> match])
    /\ pc' = "done"
    /\ UNCHANGED <<dnsPresent, policy, match, expired, world>>

Done == pc = "done"
Terminated == Done /\ UNCHANGED vars

Next ==
    \/ Expire
    \/ TxtAnswers \/ TxtFails
    \/ HttpsAnswers \/ HttpsFails
    \/ MxAnswers \/ MxFails
    \/ Judge
    \/ Terminated

Spec == Init /\ [][Next]_vars

-----------------------------------------------------------------------------
(* Properties.                                                             *)

\* RFC 8461 as quoted at mtasts.go:233-235: case aside, the host is the
\* pattern, or the pattern with a label for its asterisk.
Covers(pattern, host) ==
    LET Plain(name) == LET low == toLower(name)
                       IN  IF low # Empty /\ low[Len(low)] = Blank
                           THEN SubSeq(low, 1, Len(low) - 1) ELSE low
    IN  \/ Plain(host) = Plain(pattern)
        \/ /\ Len(Plain(pattern)) > 1 /\ Plain(pattern)[1] = "*"
           /\ \E l \in Label \ {Blank} : Plain(host) = <<l>> \o Tail(Plain(pattern))

\* The domain as it is deployed: its marker, its policy, and mail hosts that
\* the policy covers.
Marked == \E k \in DOMAIN txt : txt[k] = "sts"
LastLine(key, value) ==
    \E k \in DOMAIN reply.body :
        /\ reply.body[k].key = key /\ toLower(reply.body[k].value) = value
        /\ \A j \in DOMAIN reply.body : reply.body[j].key = key => j <= k
Published ==
    /\ reply.status = 200
    /\ \E k \in DOMAIN reply.body : reply.body[k].key \in {"mode", "version"} /\
          reply.body[k].value # Empty /\ LastLine(reply.body[k].key, toLower(reply.body[k].value))
Patterns == {reply.body[k].value : k \in {j \in DOMAIN reply.body : reply.body[j].key = "mx"}}
Covered == Patterns = {} \/ \A i \in DOMAIN mx : \E p \in Patterns : Covers(p, mx[i])

\* mtasts.go:186-205: MTA-STS is called present only for a domain whose marker
\* and policy are both there and which does not say mode=none; if every request
\* was answered in time, exactly for those whose policy covers each MX host.
PresentIffDeployed ==
    Done =>
        LET halves == Marked /\ Published /\ ~LastLine("mode", <<"none">>)
        IN  /\ status = "present" => halves /\ {"txt", "https"} \cap dead = {}
            /\ ~expired /\ dead = {} => (status = "present" <=> halves /\ Covered)

\* The MX check blames no host that is covered, whatever fails: "unmatched" is
\* said of an MX host that answers no pattern of the policy.
MismatchIsReal ==
    match = "unmatched" =>
        "mx" \notin dead /\ \E i \in DOMAIN mx : \A p \in Patterns : ~Covers(p, mx[i])

\* The outcomes Scan is given for this probe are those it can have.
OutcomeAsTabulated ==
    Done =>
        /\ ~expired /\ dead = {} => <<status>> \in VerdictTable["mta-sts"]["answered"]
        /\ {"txt", "https"} \subseteq dead => <<status>> \in VerdictTable["mta-sts"]["failed"]
=============================================================================
