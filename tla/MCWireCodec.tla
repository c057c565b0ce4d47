----------------------------- MODULE MCWireCodec -----------------------------
(* Byte strings that take every branch of Unmarshal, for five bits per byte,  *)
(* words of eleven bits and field numbers of four: the tag of field 1 is 10   *)
(* and the one of field 2 is 18, as in the code.                              *)
EXTENDS WireGrammar

Zeros(n) == [k \in 1 .. n |-> 0]

Chunks == {
    <<>>,
    <<10, 1, 7>>, <<10, 0>>, <<18, 0>>,             \* the fields, and an empty one
    <<18, 2, 24, 1>>, <<18, 3, 27, 10, 0>>,         \* a message with an unknown field, with half a group
    <<24, 33, 1>>, <<25>> \o Zeros(8), <<29>> \o Zeros(4), <<26, 2, 10, 9>>,
    <<27, 10, 2, 28, 28, 28>>, <<27, 27, 28>>, <<28>>, \* groups
    <<27, 2, 1, 0, 28>>,                            \* number 0 inside of a group
    <<34, 36, 1, 5>>,                               \* a number above int32
    <<10, 63, 63, 1>>, <<10, 63, 31>>,              \* a negative length, the largest length
    <<26, 63, 63, 1>>, <<26, 63, 31>>, <<26, 60, 63, 1>>, <<26, 63, 63, 63, 0>>,
    <<63, 63, 63, 0>>, <<30>>, <<2>> }

Alphabet == {0, 1, 2, 10, 18, 24, 26, 27, 28, 33, 63}

MCInputs ==
    {a \o b \o c : a, b, c \in Chunks}
    \union UNION {[1 .. n -> Alphabet] : n \in 1 .. 3}

MCAuthorities == {<<>>, <<10>>, <<18, 0>>, [k \in 1 .. 31 |-> k], [k \in 1 .. 32 |-> 63]}
=============================================================================
