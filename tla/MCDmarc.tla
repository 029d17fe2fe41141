------------------------------ MODULE MCDmarc -------------------------------
(***************************************************************************)
(* Dmarc and Dns for TLC: two DNS servers, answer sections of every type,  *)
(* records with and without policies and endpoints.                        *)
(***************************************************************************)
EXTENDS Dmarc, TLC

\* Two https endpoints and one each of the schemes that are left alone.
SchemeOf == ("https:x" :> "https") @@ ("https:y" :> "https")
                @@ ("http:z" :> "http") @@ ("mailto:m" :> "mailto")

\* The first https endpoint answers or not, sends to a page to log in at, or to
\* itself again and again; the second answers, or sends to the first when it is
\* almost too late; the others would answer if they were asked.
SiteAs(reply, to, delay) == [reply |-> reply, to |-> to, delay |-> delay]
Sites ==
    { ("https:x" :> x) @@ ("https:y" :> y) @@ ("login" :> login)
          @@ ("http:z" :> SiteAs("ok", "login", 1)) @@ ("mailto:m" :> SiteAs("ok", "login", 1)) :
        x \in {SiteAs(r, "login", 1) : r \in {"ok", "redirect", "not-ok", "silent"}}
                 \cup {SiteAs("redirect", "https:x", 1)},
        y \in {SiteAs("ok", "login", 1), SiteAs("redirect", "https:x", 2)},
        login \in {SiteAs("ok", "login", 1), SiteAs("not-ok", "login", 1)} }

TXT(strings) == [type |-> "TXT", strings |-> strings]
MX(p, h) == [type |-> "MX", pref |-> p, host |-> h]
TLSA(d, h1, h2) == [type |-> "TLSA", data |-> d, hex |-> h1, handled |-> h2]
Other(t) == [type |-> t]

\* One byte that cannot be printed.
Decimal == "0xE9" :> "233"

Version == <<"v", "=", "DMARC1", ";">>
Reports(value) == <<"p", "=", "none", ";", " ", "rua", "=">> \o value

\* A record in two strings with every scheme; two records, the first without a
\* policy and behind a CNAME and another text; one with quotes, a backslash and
\* a byte that cannot be printed in it and the policy twice; one that has too
\* many endpoints for its budget; none, with records of the other types; the
\* null MX; and nothing at all.
Sections ==
    {<<TXT(<<Version, Reports(<<"mailto:m", ",", "https:x", ",", " ", "http:z">>)>>)>>,
     <<Other("CNAME"), TXT(<< <<"p", "=", "none">> >>),
       TXT(<< <<";", " ", "V", " ", "=", " ", "dmarc1", ";", "P", "=", "none", ";", "p", ";",
                "rua", "=", "http:z", " ">> >>),
       TXT(<<Version \o <<"p", "=", "none">> >>)>>,
     <<TXT(<<Version \o <<"n", "=", Quote, "0xE9", Backslash, Quote, ";", " ", "p", "=", ";",
                          "p", "=", "none">> >>)>>,
     <<TXT(<<Version \o Reports(<<"https:x", ",", "https:y", ",", "https:x", ",", ",",
                                  "https:y", ",", "https:x">>)>>)>>,
     <<MX(10, <<"h", "org">>), MX(0, <<>>), TLSA("a", TRUE, FALSE), Other("DS"),
       TLSA("b", TRUE, TRUE), TLSA("c", FALSE, TRUE)>>,
     <<MX(0, <<>>)>>,
     <<>>}
=============================================================================
