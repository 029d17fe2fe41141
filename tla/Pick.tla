-------------------------------- MODULE Pick --------------------------------
(***************************************************************************)
(* Loops that go through a slice and keep some of its elements, in order.  *)
(* They are stated by position and not by recursion, so that they can be   *)
(* reasoned about (Pick_proofs).                                           *)
(***************************************************************************)
EXTENDS Integers, FiniteSets, Sequences

\* The positions of P below i.
Below(P, i) == {j \in P : j < i}

\* The elements of s at the positions of P, in the order of s.
Picked(s, P) ==
    [k \in 1 .. Cardinality(P) |->
        s[CHOOSE i \in P : Cardinality(Below(P, i)) = k - 1]]

\* The positions of P that hold an element for the first time.
Firsts(s, P) == {i \in P : \A j \in P : s[j] = s[i] => i <= j}
=============================================================================
