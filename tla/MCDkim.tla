------------------------------- MODULE MCDkim -------------------------------
(***************************************************************************)
(* Dkim for TLC: a handful of selectors, zones of the record mixes that    *)
(* the code tells apart.                                                   *)
(***************************************************************************)
EXTENDS DkimFanOut, SequencesExt

CONSTANTS s1, s2, s3, google

Names == {s1, s2, s3}

\* s2 is configured and implied as well; s3 is only implied.
TwoBase == <<s2, s1>>
OneRule == <<[match |-> google, add |-> s2], [match |-> google, add |-> s3],
             [match |-> google, add |-> s2]>>
ThreeBase == <<s2, s1, s3>>
NoRules == <<>>

\* Answers that differ from selector to selector, and every mix of up to two
\* records, the same at every selector (a wildcard).
Mixed == [Names -> {<<>>, <<"key">>, <<"bare-key", "revoked">>}]
Wildcards == {[s \in Names |-> r] : r \in BoundedSeq(Kind, 2)}
AllZones == Mixed \cup Wildcards
=============================================================================
