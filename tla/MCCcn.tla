-------------------------------- MODULE MCCcn --------------------------------
\* Names, files and hosts for the model checker.
EXTENDS Ccn

CONSTANTS A, B, c1, c2, c3, c4, c5, p1, p2

Names == [n \in {A, B} |-> IF n = A THEN "A" ELSE "B"]

\* Two consumers on node B want the same content, a third on the producer's
\* own node too; the others want a content whose file does not open, and a
\* name that fills the field of the header.
Places == [c \in Consumer |-> IF c = c3 THEN A ELSE B]
Wishes == [c \in Consumer |-> CASE c = c4 -> <<"B", "y">>
                                [] c = c5 -> <<"A", "long">>
                                [] OTHER -> <<"A", "sub", "x">>]
Lengths == [x \in Name |-> IF x = <<"A", "long">> THEN 3 ELSE 2]

Homes == [p \in Producer |-> IF p = p1 THEN A ELSE B]
Paths == [p \in Producer |-> IF p = p1 THEN <<"sub", "x">> ELSE <<"y">>]
Sizes == [p \in Producer |-> IF p = p1 THEN 2 ELSE NoFile]

\* A longer prefix overrides the host of a shorter one.
Table == [x \in {<<"A">>, <<"A", "sub">>, <<"B">>} |->
            IF x = <<"A", "sub">> THEN A ELSE B]
=============================================================================
