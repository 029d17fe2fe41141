------------------------------ MODULE MCMtaTls ------------------------------
(***************************************************************************)
(* MtaTls for TLC: two hosts, one of them with two spellings.              *)
(***************************************************************************)
EXTENDS MtaTlsFanOut, TLC

CONSTANTS h1, h2, c1, c2, issuer

Spellings == {"h1", "H1.", "h2", "."}
Normal == ("h1" :> h1) @@ ("H1." :> h1) @@ ("h2" :> h2) @@ ("." :> NoHost)

MX(p, h) == [pref |-> p, host |-> h]

\* None, the null MX, its namesake with a preference, one and two hosts, and
\* one of them twice.
AllAnswers ==
    {<<>>, <<MX(0, ".")>>, <<MX(10, ".")>>, <<MX(10, "h1")>>,
     <<MX(10, "h1"), MX(20, "h2")>>, <<MX(10, "h1"), MX(10, "H1."), MX(20, "h2")>>}
TwoHosts == {<<MX(10, "h1"), MX(20, "h2")>>, <<MX(10, ".")>>, <<>>}

\* Each host has a certificate of its own, both from one issuer.
Chains == (h1 :> <<c1, issuer>>) @@ (h2 :> <<c2, issuer>>)

NoneOrSome == {<<>>, <<c1>>, <<issuer, c2>>, <<c2, c1>>}
=============================================================================
