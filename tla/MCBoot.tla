------------------------------- MODULE MCBoot -------------------------------
(* Boot with a memory striped over two channels, a second memory of the same  *)
(* chip, and two channels of another chip that do not agree on their size.    *)
EXTENDS Boot

CONSTANTS c1, c2, c3, c4, c5

FiveChannels == {c1, c2, c3, c4, c5}
Chips == [c \in FiveChannels |-> IF c \in {c4, c5} THEN 1 ELSE 0]

\* Base addresses of a four-bit space, as they are and sign-extended: the stripes are at
\* 8, the second memory is at 2, and that of the other chip begins inside the program.
Bases == (c1 :> 8) @@ (c2 :> -8) @@ (c3 :> 2) @@ (c4 :> 9) @@ (c5 :> -7)
Sizes == (c1 :> 7) @@ (c2 :> 7) @@ (c3 :> 13) @@ (c4 :> 7) @@ (c5 :> 2)

\* A memory seven bytes below a new one, in the reach of its copy, or far above it.
SomeGaps == {-7, 20}

\* Two chunks that fill, cross and share blocks of two bytes.
TwoChunks == <<[addr |-> 8, len |-> 2], [addr |-> 11, len |-> 2]>>
Striped   == [a \in {2} \cup 8..14 |-> CASE a = 2 -> c3 [] a \in 8..10 -> c1 [] OTHER -> c2]

\* Init writes outside the program, before and after a read, and one that patches it.
SomeAccesses ==
    LET Stored(a) == [addr |-> a, len |-> 1, store |-> TRUE]
        Read(a)   == [addr |-> a, len |-> 1, store |-> FALSE]
    IN {<<>>, <<Stored(9)>>, <<Stored(13), Read(13)>>, <<Read(10), Stored(2)>>}
=============================================================================
