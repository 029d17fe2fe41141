---------------------------- MODULE MtaTlsFanOut ----------------------------
(***************************************************************************)
(* Both phases of the active SMTP probe are fan-out groups: MtaTls         *)
(* implements FanOut twice, once with the sessions for tasks and once with *)
(* the TLSA lookups.  Without an MX to probe neither group is opened.      *)
(***************************************************************************)
EXTENDS MtaTls

Sessions == INSTANCE FanOut WITH
    Task <- Slot,
    Limit <- Conc,
    Value <- SessionResults,
    NoValue <- NoSession,
    phase <- CASE pc \in {"mx", "early"} -> "idle"
               [] pc = "smtp" -> "open"
               [] pc \in {"tlsa", "done"} -> "gathered",
    todo <- Probed,
    running <- IF pc = "smtp" THEN running ELSE {},
    slot <- mxResults

Lookups == INSTANCE FanOut WITH
    Task <- Slot,
    Limit <- Conc,
    Value <- LookupResult,
    NoValue <- NoLookup,
    phase <- CASE pc \in {"mx", "early", "smtp"} -> "idle"
               [] pc = "tlsa" -> "open"
               [] pc = "done" -> "gathered",
    todo <- IF pc \in {"tlsa", "done"} THEN Probed ELSE {},
    running <- IF pc = "tlsa" THEN running ELSE {},
    slot <- tlsa

\* mtatls.go:184-193 and 201-214: each phase keeps the contract of FanOut.
SessionsImplementFanOut == Sessions!Spec
LookupsImplementFanOut == Lookups!Spec
=============================================================================
