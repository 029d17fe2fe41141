------------------------------- MODULE TxtTag -------------------------------
(***************************************************************************)
(* internal/probe/txttag: tag=value records.  A text is a sequence of      *)
(* tokens: the characters the code looks for (";", "=", ",", " ", the      *)
(* quote and the backslash) and words in between.                          *)
(***************************************************************************)
EXTENDS Integers, Sequences, SequencesExt, Pick

Blank == " "
Semicolon == ";"

\* The text cut at every occurrence of a token.
SplitOn(text, sep) ==
    FoldLeft(LAMBDA parts, c :
                 IF c = sep THEN Append(parts, <<>>)
                 ELSE [parts EXCEPT ![Len(parts)] = Append(@, c)],
             << <<>> >>, text)

\* strings.TrimSpace
TrimSpace(text) ==
    LET solid == {i \in DOMAIN text : text[i] # Blank}
    IN  IF solid = {} THEN <<>>
        ELSE SubSeq(text, CHOOSE i \in solid : \A j \in solid : i <= j,
                          CHOOSE i \in solid : \A j \in solid : j <= i)

\* The parts between the separators, trimmed, but for the empty ones.
Items(text, sep) ==
    LET parts == [k \in DOMAIN SplitOn(text, sep) |-> TrimSpace(SplitOn(text, sep)[k])]
    IN  Picked(parts, {k \in DOMAIN parts : parts[k] # <<>>})

\* strings.Cut at "=": a part without one is a tag without a value.
PairOf(part) ==
    LET eq == {i \in DOMAIN part : part[i] = "="}
        at == CHOOSE i \in eq : \A j \in eq : i <= j
    IN  IF eq = {} THEN [tag |-> part, value |-> <<>>]
        ELSE [tag   |-> TrimSpace(SubSeq(part, 1, at - 1)),
              value |-> TrimSpace(SubSeq(part, at + 1, Len(part)))]

\* The pairs of a record, in order.
Parse(text) ==
    LET full == Items(text, Semicolon)
    IN  [k \in DOMAIN full |-> PairOf(full[k])]

\* The value of the first pair with the tag, which is compared as it is written.
Get(pairs, tag) ==
    LET at == {k \in DOMAIN pairs : pairs[k].tag = <<tag>>}
    IN  IF at = {} THEN <<>> ELSE pairs[CHOOSE k \in at : \A j \in at : k <= j].value

\* strings.EqualFold, on the words that occur here.
Folded(word) == CASE word = <<"V">> -> <<"v">>
                  [] word = <<"dmarc1">> -> <<"DMARC1">>
                  [] OTHER -> word

\* Whether the first pair of a record is v=<version>, in either case.
OfVersion(text, version) ==
    LET pairs == Parse(text)
    IN  /\ pairs # <<>>
        /\ Folded(pairs[1].tag) = <<"v">>
        /\ Folded(pairs[1].value) = <<version>>

\* The first record of the version, or <<>>.
PickByVersion(texts, version) ==
    LET at == {k \in DOMAIN texts : OfVersion(texts[k], version)}
    IN  IF at = {} THEN <<>> ELSE texts[CHOOSE k \in at : \A j \in at : k <= j]
=============================================================================
