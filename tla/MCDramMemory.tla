---------------------------- MODULE MCDramMemory ----------------------------
(* Small memories for DramMemory.                                            *)
EXTENDS DramMemory

TwoWords == 0..1
Bits == {0, 1}
Zeroes == {[w \in TwoWords |-> 0]}
=============================================================================
