---------------------------- MODULE MCScanFanOut ----------------------------
(***************************************************************************)
(* A whole scan for TLC: more domains than tokens, one probe.              *)
(***************************************************************************)
EXTENDS Program, Verdicts

OneProbe == <<"dkim">>

Spellings == ("a" :> "a") @@ ("A " :> "a") @@ ("b" :> "b") @@ ("B" :> "b")
                @@ ("c" :> "c") @@ ("#a" :> "#a") @@ (" " :> NoName)
Comments == {"#a"}

\* Arguments and lines that say the same name twice, in two spellings, with a
\* comment and a blank line; an argument that looks like a comment; nothing.
Lines == {[args |-> <<"b", "A ">>, file |-> <<"#a", "a", " ", "c", "B">>],
          [args |-> <<"#a", "B">>, file |-> <<"b", "a">>],
          [args |-> <<>>, file |-> <<" ", "#a">>]}
=============================================================================
