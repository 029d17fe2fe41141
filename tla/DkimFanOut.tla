----------------------------- MODULE DkimFanOut -----------------------------
(***************************************************************************)
(* The selector lookups of a DKIM probe are a fan-out group: Dkim          *)
(* implements FanOut.  A task is a slot; the group is opened once the SPF  *)
(* record has had its say, and gathered when the results are judged.       *)
(***************************************************************************)
EXTENDS Dkim

Group == INSTANCE FanOut WITH
    Task <- Slot,
    Limit <- Conc,
    Value <- Result,
    NoValue <- NoResult,
    phase <- CASE pc = "infer" -> "idle" [] pc = "scan" -> "open" [] pc = "done" -> "gathered",
    todo <- IF pc = "infer" THEN {} ELSE Tried,
    slot <- results

\* dkim.go:164-207 keeps the contract of FanOut: never more than
\* --dkim-concurrency lookups, one final result per slot, judged only when
\* complete.
ImplementsFanOut == Group!Spec
=============================================================================
