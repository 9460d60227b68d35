--------------------------- MODULE MCConversions ---------------------------
(***************************************************************************)
(* Inputs for Conversions.  Texts are given as ASCII codes: 49 is "1", 58  *)
(* is ":", 71 is "G", 102 is "f".                                          *)
(***************************************************************************)
EXTENDS Conversions

SomeGroups == {0, 43981}      \* 0xabcd: four letters; 0 can be padded

Ends == {<< >>, <<49>>, <<71>>, <<48, 48, 48, 48>>, <<48, 48, 48, 48, 102>>}
Body(s) == FlattenSeq([i \in DOMAIN s |-> IF s[i] = "field" THEN <<49, 58>> ELSE <<58>>])
Longest == FlattenSeq([i \in 1..7 |-> <<102, 70, 70, 70, 58>>]) \o <<70, 102, 102, 102>>

\* Up to nine fields and colons in any order, then an end: none, a field, a
\* bad character, four or five digits.  Eight groups of four digits fill 39
\* characters; one colon more is too long.
SomeTexts == {Body(s) \o e : s \in UNION {[1..n -> {"field", "colon"}] : n \in 0..9}, e \in Ends}
             \cup {Longest, Append(Longest, 58)}

\* "", "0", "007", "255", "256", "1x", "00012"
SomeComponents == {<< >>, <<48>>, <<48, 48, 55>>, <<50, 53, 53>>, <<50, 53, 54>>,
                   <<49, 120>>, <<48, 48, 48, 49, 50>>}

SomeVectors == UNION {[1..n -> {0, 1, 7}] : n \in 0..2} \cup [1..3 -> {1, 7}]
SomePayloads == {[i \in 1..n |-> b] : n \in {0, 1, 2, 61}, b \in {0, 1, 7}}
=============================================================================
