----------------------------- MODULE ScanFanOut -----------------------------
(***************************************************************************)
(* The domains of a scan are a fan-out group: Scan implements FanOut.      *)
(* A task is a domain, its slot is its entry of reports; the group is open *)
(* while run's loop and Wait are under way, and a task runs from g.Go      *)
(* until its report is written (its token is given back a step later).     *)
(***************************************************************************)
EXTENDS Scan

ReportValue == {Report(d, slots) : d \in Domain, slots \in SlotArrays}

Group == INSTANCE FanOut WITH
    Task <- Domain,
    Value <- ReportValue,
    NoValue <- NoReport,
    phase <- IF main \in {"setup", "refused"} THEN "idle"
             ELSE IF main = "spawn" THEN "open" ELSE "gathered",
    todo <- IF main \in {"setup", "refused"} THEN {} ELSE Domain,
    running <- {d \in Domain : pc[d] \in {"spawned", "probing"}},
    slot <- reports

\* cli.go:179-190 keeps the contract of FanOut: bounded, one final result per
\* slot, gathered only when complete.
ImplementsFanOut == Group!Spec
=============================================================================
