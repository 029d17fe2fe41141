------------------------------- MODULE Lookup -------------------------------
(***************************************************************************)
(* What a probe may expect of one lookup, whatever the transport and the   *)
(* servers behind it: it ends once, with an error or with an answer, and   *)
(* an answer holds every record there is of the type asked for; no part of *)
(* them, and none of another type.  The one exception is a server that     *)
(* answers with an error code: nobody reads the code, so its empty answer  *)
(* passes for an answer that there are no records.                         *)
(***************************************************************************)
EXTENDS Sequences

VARIABLES
    outcome,  \* "pending", "failed" or "answered"
    records,  \* what the caller got
    held,     \* the records there are, as the transport spells them
    refusing  \* some server answers with an error code

vars == <<outcome, records, held, refusing>>

Init ==
    /\ outcome = "pending"
    /\ records = <<>>
    /\ refusing \in BOOLEAN

Answer ==
    /\ outcome = "pending"
    /\ outcome' = "answered"
    /\ records' = held \/ (refusing /\ records' = <<>>)
    /\ UNCHANGED <<held, refusing>>

Fail ==
    /\ outcome = "pending"
    /\ outcome' = "failed"
    /\ UNCHANGED <<records, held, refusing>>

Next == Answer \/ Fail

Spec == Init /\ [][Next]_vars
=============================================================================
