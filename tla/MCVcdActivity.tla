---------------------------- MODULE MCVcdActivity ----------------------------
(* An instance of VcdActivity for TLC: rich headers under several maps, and *)
(* rich dumps under short headers.                                          *)
EXTENDS VcdActivity

CONSTANTS ca, cab   \* two codes, the first a prefix of the second

TwoCodes == {ca, cab}
Mixed    == [c \in TwoCodes |-> IF c = ca THEN 1 ELSE 2]

\* The wide signal is written in full, without its leading zero, or unknown.
FourState == [c \in TwoCodes |->
                IF c = ca THEN {<<"0">>, <<"1">>}
                ELSE {<<"0", "1">>, <<"1">>, <<"1", "0">>, <<"x">>}]

CutCodes == [c \in TwoCodes |-> IF c = cab THEN {ca} ELSE {}]

\* The lower-cased words of the instances that occur in one another.
Words == {<<w, w>> : w \in {"gemmini", "mesh", "spad", "testdriver", "clock", "tl"}}
         \cup {<<"tl", "io_tl">>}

InstanceNames == {"testdriver", "gemmini"}
NetNames      == {"clock", "io_tl"}

\* No map, and the maps of a design with a Gemmini or with a mesh.
WithGemmini == WriteMap({"gemmini", "testdriver"})
AllMaps     == {NoMap, WithGemmini, WriteMap({"mesh", "testdriver"})}

\* Headers of five lines come under one map only, and a dump has values only under
\* that map, after at most three lines in the scope of the test driver.
RichInOnePart ==
    /\ Len(header) = 5 => map = WithGemmini
    /\ body # <<>> =>
        /\ map = WithGemmini
        /\ Len(header) <= 3
        /\ \A i \in DOMAIN header : header[i] # <<"scope", "gemmini">>
=============================================================================
