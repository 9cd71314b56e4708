------------------------------ MODULE MCPlainTags ------------------------------
(***************************************************************************)
(* Small instances of PlainTags.  Texts by rank: "-0", "-1" .. "-4", alpha,*)
(* beta, t0, t1, t10, t2, t3.  An int is at most 3.                        *)
(***************************************************************************)
EXTENDS PlainTags

MCTextInts == [r \in 0..4 |-> -r]
MCMinus == [n \in (-4)..(-1) |-> -n]
Minus == <<1, 1>>
Alpha == <<1, 5>>
Beta == <<1, 6>>
Levels4 == [l \in 0..3 |-> IF l < 2 THEN 7 + l ELSE 8 + l]
MCShaped == 7..11
T10 == <<1, 9>>
T2 == <<1, 10>>

Tag(core, pre) == [component |-> "none", v |-> TRUE, core |-> core, zeros |-> FALSE, pre |-> pre, build |-> FALSE]
Short == [Tag(<<1>>, <<>>) EXCEPT !.v = FALSE]
Built == [Tag(<<1, 0, 1>>, <<Beta, Numeral(1)>>) EXCEPT !.build = TRUE]
Other == [Tag(<<0, 1, 0>>, <<>>) EXCEPT !.component = "auth"]

MCNames == {Short, Built, Other,
            Tag(<<1, 0, 0>>, <<Beta, Alpha>>), Tag(<<1, 0, 0>>, <<Alpha, Numeral(1)>>),
            Tag(<<1, 0, 0>>, <<Alpha, Numeral(3)>>), Tag(<<1, 0, 0>>, <<Numeral(1), Numeral(4)>>),
            Tag(<<1, 1, 0>>, <<T2, Numeral(1)>>), Tag(<<1, 1, 0>>, <<T10, Numeral(1)>>)}
LastNames == {Tag(<<1, 0, 15>>, <<>>)}
MinusNames == {Tag(<<1, 0, 0>>, <<Minus>>)}
LargeNames == {Tag(<<1, 0, 0>>, <<Alpha, Numeral(4)>>)}
MCPreids == {<<>>, <<Alpha>>, <<Beta>>, <<T2>>}
NoPreids == {<<>>}
==============================================================================
