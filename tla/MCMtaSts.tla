------------------------------ MODULE MCMtaSts ------------------------------
(***************************************************************************)
(* MtaSts for TLC: every policy of up to three lines with a few hosts, and *)
(* every pattern with every host of up to three labels.                    *)
(***************************************************************************)
EXTENDS MtaSts, SequencesExt

Labels == {"", "*", "a", "A", "b", "none", "None", "enforce", "sts1"}
Lower == [l \in Labels |-> CASE l = "A" -> "a" [] l = "None" -> "none" [] OTHER -> l]

Line(k, v) == [key |-> k, value |-> v]
OK(body) == [status |-> 200, body |-> body]
Mode == Line("mode", <<"enforce">>)

\* A page that is no policy, the two halves in every combination, repeated and
\* empty lines, lines out of order.
Lines == {Line("version", <<"sts1">>), Mode, Line("mode", <<"None">>), Line("mode", Empty),
          Line("mx", <<"*", "a">>), Line("mx", <<"b", "">>), Line("other", <<"a">>)}
Policies ==
    [txt   : {<<>>, <<"other">>, <<"other", "sts">>},
     reply : {OK(body) : body \in BoundedSeq(Lines, 3)} \cup {[status |-> 404, body |-> <<Mode>>]},
     mx    : {<<>>, <<Empty>>, <<<<"b", "A">>>>, <<<<"b", "a">>, <<"b">>>>}]

Names == BoundedSeq({"*", "a", "A", "b"}, 3) \ {<<>>}
Patterns1 == Names \cup {Append(n, "") : n \in Names} \cup {Empty}
Names1 == {n \in Names : \A k \in DOMAIN n : n[k] # "*"} \cup {Empty}
Pairs ==
    [txt   : {<<"sts">>},
     reply : {OK(<<Mode, Line("mx", p)>>) : p \in Patterns1},
     mx    : {<<n>> : n \in Names1}]

AllDeployments == Policies \cup Pairs
=============================================================================
