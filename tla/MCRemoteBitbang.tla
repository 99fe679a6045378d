-------------------------- MODULE MCRemoteBitbang --------------------------
(* RemoteBitbang with a TAP of two bits: TMS clears it, TDI is shifted in.   *)
EXTENDS RemoteBitbang

FourTaps == 0..3
Shift    == [x \in FourTaps \X Bits \X Bits |-> IF x[2] = 1 THEN 0 ELSE (2 * x[1] + x[3]) % 4]
HighBit  == [t \in FourTaps |-> t \div 2]
=============================================================================
