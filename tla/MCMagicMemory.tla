--------------------------- MODULE MCMagicMemory ---------------------------
(* A memory of two words of two bytes for MagicMemory.                       *)
EXTENDS MagicMemory

Bits == {0, 1}
=============================================================================
