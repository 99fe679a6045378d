---------------------------- MODULE MagicMemory ----------------------------
(***************************************************************************)
(* gen-collateral/mm.h, mm.cc: the memory without +dramsim, byte by byte,   *)
(* and the end of SimDRAM.cc memory_tick, which shows its port to the       *)
(* design through the registers of SimDRAM.v.                               *)
(*                                                                          *)
(* Both sides decide on a handshake, each by its own copy of the port: the  *)
(* memory by its queues at the start of the tick (ready), the design by the *)
(* registers (port).  A step serves a channel on the sides that decide for  *)
(* it, and due is the design's account of what it has begun.                *)
(*                                                                          *)
(* The phase is the position in tick(): a channel is served before the      *)
(* later ones, and what a served channel started is finished first.  Left   *)
(* out: the cycle counter, the response codes (always 0) and the reset      *)
(* branch, which SimDRAM.v never takes.                                     *)
(***************************************************************************)
EXTENDS Integers, Sequences

CONSTANTS
    Ids,        \* AXI ids
    Bytes,      \* what a byte can hold
    word_size,  \* bytes of the data bus
    NumWords,   \* words of memory
    Sizes,      \* bytes a beat can carry
    MaxLen,     \* longest burst
    MaxReads,   \* bound on the reads of a behaviour
    MaxWrites,  \* bound on its writes
    Idle        \* no burst

ASSUME MagicAssumption ==
    /\ word_size \in Nat \ {0} /\ NumWords \in Nat \ {0} /\ MaxLen \in Nat \ {0}
    /\ MaxReads \in Nat /\ MaxWrites \in Nat
    /\ Sizes \subseteq 1..word_size
    /\ \A s \in Sizes : word_size % s = 0

Lanes     == 0..(word_size - 1)
Addresses == 0..(NumWords * word_size - 1)
Beats     == [Lanes -> Bytes]

\* What the design sends: aligned beats, full ones in a longer burst, inside the
\* memory (the asserts of read and write).
Bursts == {q \in [id : Ids, addr : Addresses, size : Sizes, left : 1..MaxLen] :
              /\ q.addr % q.size = 0
              /\ q.left > 1 => q.size = word_size
              /\ (q.addr \div word_size) + q.left <= NumWords}

\* Idle is no burst, here or as AxiMemory sees it.
ASSUME IdleAssumption ==
    /\ Idle \notin [id : Ids, addr : Nat, size : Sizes, left : Nat]
    /\ Idle \notin [id : Ids, addr : Nat, left : Nat]

VARIABLES
    data,     \* the backing array, a value per byte
    store,    \* the burst being stored, or Idle
    load,     \* the burst being read in this tick, or Idle
    rresp,    \* beats for the design
    bresp,    \* acknowledgements for the design
    port,     \* SimDRAM.v's registers: what the design sees of the port
    ready,    \* what the port could do when the tick began
    due,      \* the design's account: beats to come, beats to send, acknowledgements to come
    phase,    \* position in the tick, 0 between ticks
    up,       \* has the design seen a clock out of reset?
    written,  \* history: the byte last written to each address, by the rules of AXI
    reads,    \* reads so far (bound)
    writes    \* writes so far (bound)

vars == <<data, store, load, rresp, bresp, port, ready, due, phase, up, written, reads, writes>>

First(queue) == IF queue = <<>> THEN Idle ELSE Head(queue)

Port == [ar |-> TRUE, aw |-> store = Idle, w |-> store # Idle, r |-> First(rresp), b |-> First(bresp)]

InReset == [ar |-> FALSE, aw |-> FALSE, w |-> FALSE, r |-> Idle, b |-> Idle]

Init ==
    /\ data \in [Addresses -> Bytes]
    /\ store = Idle /\ load = Idle
    /\ rresp = <<>> /\ bresp = <<>>
    /\ port = InReset /\ ready = InReset
    /\ due = [beats |-> 0, left |-> 0, acks |-> 0]
    /\ phase = 0
    /\ up = FALSE
    /\ written = data
    /\ reads = 0 /\ writes = 0

LastBeatStored == store # Idle /\ store.left = 0

Serve(n) ==
    /\ phase \in 1..n /\ phase' = n + 1
    /\ load = Idle /\ ~LastBeatStored

Tick ==
    /\ phase = 0 /\ phase' = 1
    /\ ready' = Port
    /\ UNCHANGED <<data, store, load, rresp, bresp, port, due, up, written, reads, writes>>

\* A design out of reset drives valid only after its first clock: in that one the
\* memory is ready and the registers are not.
AcceptRead(q) ==
    /\ Serve(1) /\ up
    /\ ready.ar \/ port.ar
    /\ reads < MaxReads
    /\ reads' = reads + 1
    /\ load' = IF ready.ar THEN q ELSE load
    /\ due' = IF port.ar THEN [due EXCEPT !.beats = @ + q.left] ELSE due
    /\ UNCHANGED <<data, store, rresp, bresp, port, ready, up, written, writes>>

\* Fault: the beats follow the address of the request, not that of its word.
ReadFromRequest ==
    /\ load # Idle
    /\ rresp' = rresp \o [k \in 1..load.left |->
                  [id |-> load.id, last |-> k = load.left,
                   data |-> [l \in Lanes |-> data[(load.addr + ((k - 1) * word_size) + l) % (NumWords * word_size)]]]]
    /\ load' = Idle
    /\ UNCHANGED <<data, store, bresp, port, ready, due, phase, up, written, reads, writes>>

\* The whole burst is read at once, from the word of its address on.
Read ==
    /\ load # Idle
    /\ LET start_addr == (load.addr \div word_size) * word_size
       IN rresp' = rresp \o [k \in 1..load.left |->
                      [id |-> load.id, last |-> k = load.left,
                       data |-> [l \in Lanes |-> data[start_addr + ((k - 1) * word_size) + l]]]]
    /\ load' = Idle
    /\ UNCHANGED <<data, store, bresp, port, ready, due, phase, up, written, reads, writes>>

AcceptWrite(q) ==
    /\ Serve(2) /\ up
    /\ ready.aw \/ port.aw
    /\ writes < MaxWrites
    /\ writes' = writes + 1
    /\ store' = IF ready.aw THEN q ELSE store
    /\ due' = IF port.aw THEN [due EXCEPT !.left = @ + q.left] ELSE due
    /\ UNCHANGED <<data, load, rresp, bresp, port, ready, up, written, reads>>

\* Fault: the mask is not moved to the lanes of the address.
MaskUnmoved(strb) == strb \cap 0..(store.size - 1)

\* The strobes that count: those of the lanes the beat's address and size name.
Mask(strb) ==
    LET lane == store.addr % word_size IN strb \cap lane..(lane + store.size - 1)

\* AXI: byte b of the beat travels in lane b % word_size.
Carries(strb, b) == b \in store.addr..(store.addr + store.size - 1) /\ b % word_size \in strb

\* mm_t::write and the bookkeeping after it.
Stores(v, strb) ==
    /\ LET base == (store.addr \div word_size) * word_size
       IN data' = [b \in Addresses |-> IF b - base \in Mask(strb) THEN v[b - base] ELSE data[b]]
    /\ written' = [b \in Addresses |-> IF Carries(strb, b) THEN v[b % word_size] ELSE written[b]]
    /\ store' = [store EXCEPT !.addr = @ + store.size, !.left = @ - 1]

\* The design sends a beat while, by its account, it has one to send.
WriteBeat(v, strb) ==
    /\ Serve(3) /\ due.left > 0
    /\ ready.w \/ port.w
    /\ IF ready.w THEN Stores(v, strb) ELSE UNCHANGED <<data, written, store>>
    /\ due' = IF port.w THEN [due EXCEPT !.left = @ - 1, !.acks = IF due.left = 1 THEN @ + 1 ELSE @] ELSE due
    /\ UNCHANGED <<load, rresp, bresp, port, ready, up, reads, writes>>

EndWrite ==
    /\ LastBeatStored
    /\ store' = Idle
    /\ bresp' = Append(bresp, store.id)
    /\ UNCHANGED <<data, load, rresp, port, ready, due, phase, up, written, reads, writes>>

TakeAck ==
    /\ Serve(4)
    /\ ready.b # Idle \/ port.b # Idle
    /\ bresp' = IF ready.b # Idle THEN Tail(bresp) ELSE bresp
    /\ due' = IF port.b # Idle THEN [due EXCEPT !.acks = @ - 1] ELSE due
    /\ UNCHANGED <<data, store, load, rresp, port, ready, up, written, reads, writes>>

TakeBeat ==
    /\ Serve(5)
    /\ ready.r # Idle \/ port.r # Idle
    /\ rresp' = IF ready.r # Idle THEN Tail(rresp) ELSE rresp
    /\ due' = IF port.r # Idle THEN [due EXCEPT !.beats = @ - 1] ELSE due
    /\ UNCHANGED <<data, store, load, bresp, port, ready, up, written, reads, writes>>

\* Fault: the outputs are copied to the registers before the memory's tick.
EndTickEarlyCopy ==
    /\ phase > 0 /\ phase' = 0
    /\ load = Idle /\ ~LastBeatStored
    /\ port' = ready
    /\ ready' = InReset
    /\ up' = TRUE
    /\ UNCHANGED <<data, store, load, rresp, bresp, due, written, reads, writes>>

\* memory_tick copies the port as it is after the tick.
EndTick ==
    /\ phase > 0 /\ phase' = 0
    /\ load = Idle /\ ~LastBeatStored
    /\ port' = Port
    /\ ready' = InReset
    /\ up' = TRUE
    /\ UNCHANGED <<data, store, load, rresp, bresp, due, written, reads, writes>>

Next ==
    \/ Tick
    \/ \E q \in Bursts : AcceptRead(q) \/ AcceptWrite(q)
    \/ Read
    \/ \E v \in Beats, strb \in SUBSET Lanes : WriteBeat(v, strb)
    \/ EndWrite
    \/ TakeAck
    \/ TakeBeat
    \/ EndTick

Spec == Init /\ [][Next]_vars
-----------------------------------------------------------------------------
(* Properties.                                                              *)

\* The types of the memory's state, with the burst under way inside the memory.
TypeOK ==
    /\ data \in [Addresses -> Bytes]
    /\ store # Idle =>
        /\ store \in [id : Ids, addr : Nat, size : Sizes, left : 0..MaxLen]
        /\ store.left > 0 => store \in Bursts
    /\ load # Idle => load \in Bursts
    /\ rresp \in Seq([id : Ids, data : Beats, last : BOOLEAN])
    /\ bresp \in Seq(Ids)
    /\ due \in [beats : Int, left : Int, acks : Int]
    /\ phase \in 0..6
    /\ up \in BOOLEAN
    /\ written \in [Addresses -> Bytes]
    /\ reads \in 0..MaxReads /\ writes \in 0..MaxWrites

\* mm_t::write's masks and lanes put every byte where AXI says, for beats narrower
\* than the bus as well: the array is what the design wrote, byte by byte.
BytesAsWritten == data = written

\* The design and the memory each count by their own copy of the port, SimDRAM.v's
\* registers and the memory's queues.  Whatever handshakes follow each other, the design
\* is to get as many beats and acknowledgements as the memory holds for it, and has as
\* many beats of the burst to send as the memory waits for - so nothing is taken or sent
\* by one side only, and the assertion on w_last (mm.cc:97) does not fail.  What the
\* design sees is what the memory drops when it is taken.
SidesAgree ==
    /\ due.beats = Len(rresp) + (IF load = Idle THEN 0 ELSE load.left)
    /\ due.left = IF store = Idle THEN 0 ELSE store.left
    /\ due.acks = Len(bresp) + (IF LastBeatStored THEN 1 ELSE 0)
    /\ phase \in 0..5 /\ port.r # Idle => rresp # <<>> /\ port.r = Head(rresp)
    /\ phase \in 0..4 /\ port.b # Idle => bresp # <<>> /\ port.b = Head(bresp)

\* What the port decided at the start of the tick is still possible when the
\* channel is served, and nothing is under way between ticks.
PortKept ==
    /\ phase = 0 => load = Idle
    /\ phase \in 0..3 => ~LastBeatStored
    /\ ~(ready.aw /\ ready.w)
    /\ phase \in 1..2 /\ ready.aw => store = Idle
    /\ phase \in 1..3 /\ ready.w => store # Idle
    /\ phase \in 1..4 /\ ready.b # Idle => bresp # <<>>
    /\ phase \in 1..5 /\ ready.r # Idle => rresp # <<>>

\* The registers are a tick behind the queues, and the first tick finds nothing.
RegistersKept ==
    /\ up /\ phase = 0 => port = Port
    /\ up /\ phase # 0 => port = ready
    /\ ~up =>
        /\ port = InReset
        /\ ready.b = Idle /\ ready.r = Idle
        /\ store = Idle /\ load = Idle /\ rresp = <<>> /\ bresp = <<>>

\* The inductive invariant behind BytesAsWritten and SidesAgree.
Inv == TypeOK /\ PortKept /\ RegistersKept /\ BytesAsWritten /\ SidesAgree

Word(w) == [l \in Lanes |-> data[(w * word_size) + l]]

\* The memory as AxiMemory sees it: by words, a read waiting only within a tick,
\* a write without its acknowledgement from its last beat to EndWrite.
Memory  == [w \in 0..(NumWords - 1) |-> Word(w)]
Waiting == [id \in Ids |-> IF load # Idle /\ load.id = id
              THEN <<[id |-> id, addr |-> load.addr \div word_size, len |-> load.left]>> ELSE <<>>]
Storing == IF store = Idle \/ LastBeatStored THEN Idle
           ELSE [id |-> store.id, addr |-> store.addr \div word_size, left |-> store.left]
Unacked == [id \in Ids |-> IF LastBeatStored /\ store.id = id THEN 1 ELSE 0]

\* The magic memory keeps the promises of the AXI port as the one with DRAMSim2 does.
Axi == INSTANCE AxiMemory WITH
    Words <- 0..(NumWords - 1), Values <- Beats,
    mem <- Memory, waiting <- Waiting, store <- Storing, unacked <- Unacked

ImplementsAxiMemory == Axi!Spec
=============================================================================
