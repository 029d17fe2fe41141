------------------------------- MODULE Input -------------------------------
(***************************************************************************)
(* internal/cli/input.go: the domains of a scan, from the command line and *)
(* the --input file.  What is typed is a spelling: upper or lower case,    *)
(* blanks around it, or nothing but blanks; the constant `normal' says     *)
(* what is left of it.  A dot at its end is kept, and makes another name.  *)
(***************************************************************************)
EXTENDS Pick, SequencesExt

CONSTANTS
    normal,  \* spelling -> its name in lower case and trimmed, NoName if blank
    Comment  \* the spellings that begin with "#", blanks before it aside

NoName == ""

\* The lines that count; nothing else in a line is stripped, nor its case.
readDomainsFile(lines) ==
    Picked(lines, {k \in DOMAIN lines : normal[lines[k]] # NoName /\ lines[k] \notin Comment})

\* A bug: what was typed is compared before it is normalised.
mergeDomains_ByCase(a, b) ==
    LET all   == a \o b
        solid == {k \in DOMAIN all : normal[all[k]] # NoName}
    IN  Picked([k \in DOMAIN all |-> normal[all[k]]], Firsts(all, solid))

\* Both lists, normalised, each name where it is first seen.
mergeDomains(a, b) ==
    LET all   == a \o b
        name  == [k \in DOMAIN all |-> normal[all[k]]]
        solid == {k \in DOMAIN all : name[k] # NoName}
    IN  Picked(name, Firsts(name, solid))
=============================================================================
