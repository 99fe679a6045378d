-------------------------------- MODULE Boot --------------------------------
(***************************************************************************)
(* From reset to the exit code: SimDRAM.cc memory_init, which sets up the    *)
(* memory behind each channel, and the TSI host (testchip_tsi, testchip_htif *)
(* and SimTSI.cc), which loads the program, wakes hart 0 and waits for it.   *)
(*                                                                          *)
(* Every channel and the TSI have their own first clock out of reset.  A     *)
(* message to the design is a word here; fesvr's queues, the design's side   *)
(* of the TSI and the hart are external.  Left out: argument parsing (the    *)
(* options are chosen at the start) and the choice of the memory model.      *)
(*                                                                          *)
(* SimDRAM.cc:16-17 says that memory striped over channels is not handled    *)
(* properly, and that the full range is duplicated across each channel.  The *)
(* code below it maps one memory per chip and masked base: stripes that pass *)
(* one base and size share their bytes, and stripes with bases of their own  *)
(* each have a memory, into which the whole program is copied, unchecked.    *)
(***************************************************************************)
EXTENDS Integers, Sequences, FiniteSetsExt, SequencesExt

CONSTANTS
    Channels,     \* memory channels of the harness
    chip_id,      \* the chip of a channel
    mem_base,     \* its base address as memory_init gets it, perhaps sign-extended
    mem_size,
    addr_bits,
    ChannelOf,    \* the channel of chip 0 that serves an address, a function on the addresses
    Gaps,         \* how far apart the host maps two memories
    cblock_bytes, \* bytes of a cache block
    Program,      \* the chunks of the program, a sequence of [addr, len]
    Accesses,     \* choices of +init_write and +init_read, sequences of [addr, len, store]
    Tohost,       \* the address the host polls
    Msip          \* where the interrupt of hart 0 is written, no address of the memory

ASSUME BootAssumption ==
    /\ addr_bits \in Nat /\ 2^addr_bits \in Nat \ {0}
    /\ cblock_bytes \in Nat \ {0}
    /\ mem_base \in [Channels -> Int] /\ mem_size \in [Channels -> Nat \ {0}]
    /\ DOMAIN ChannelOf \subseteq Nat
    /\ \A a \in DOMAIN ChannelOf :
          /\ ChannelOf[a] \in Channels /\ chip_id[ChannelOf[a]] = 0
          /\ a - (mem_base[ChannelOf[a]] % 2^addr_bits) \in 0..(mem_size[ChannelOf[a]] - 1)
    /\ Gaps \subseteq Int
    /\ Tohost \in DOMAIN ChannelOf
    /\ Msip \in Nat \ DOMAIN ChannelOf
    /\ Program \in Seq([addr : Nat, len : Nat \ {0}])
    /\ Accesses \subseteq Seq([addr : Nat, len : Nat \ {0}, store : BOOLEAN])

Addresses == DOMAIN ChannelOf

\* Where the memory of a channel begins, which memory it is, and its offsets.
Base(c)    == mem_base[c] % 2^addr_bits
Key(c)     == <<chip_id[c], Base(c)>>
Offsets(c) == 0..(mem_size[c] - 1)

\* What a byte can hold: nothing, the program, an init write, a store of the hart;
\* tohost holds the exit code shifted, plus 1.
Zero == 0
Text == -1
Datum == -2
Store == -3

Chunk(m) == {a \in Addresses : a \in m.addr..(m.addr + m.len - 1)}

\* Fault: the blocks are counted from the address, not from its block.
FlushFromAddress(addr, nbytes) ==
    [i \in 1..((nbytes + cblock_bytes - 1) \div cblock_bytes) |-> (addr \div cblock_bytes) + i - 1]

\* flush_cache_lines: the blocks from that of the first byte on, below the end.
flush_cache_lines(addr, nbytes) ==
    LET base == addr \div cblock_bytes
        last == (addr + nbytes - 1) \div cblock_bytes
    IN [i \in 1..(last - base + 1) |-> base + i - 1]

VARIABLES
    loadmem,     \* +loadmem: memory_init loads the program
    cflush,      \* +cflush_addr: every access flushes its blocks first
    msip,        \* without +no_hart0_msip: the host wakes hart 0
    backing,     \* per chip and masked base: the memory by offset, once there is one
    initialized, \* per channel: has memory_init run?
    fault,       \* "strayed": memory_init has copied out of bounds; "aborted": it has ended the simulation
    script,      \* what the host sends to boot
    plan,        \* what of it is still to send
    in_data,     \* sent by the host, not taken by the design
    in_reg,      \* SimTSI.v's register: the word the design sees, if any
    reading,     \* does the host wait for the answer to a read?
    out_data,    \* the answer, if there is one
    serving,     \* the access the design makes for the host, if any
    flushed,     \* blocks flushed since the last access
    done,        \* the part of the script the design has carried out
    woken,       \* is hart 0 awake?
    code,        \* the exit code of the program, or -1
    written,     \* history: the byte last stored at each address of chip 0
    exit         \* what tsi_tick returned last

options == <<loadmem, cflush, msip, script>>
memory  == <<backing, initialized, fault, written>>
host    == <<plan, in_data, in_reg, reading>>
target  == <<serving, out_data, flushed, done, woken>>
vars    == <<options, memory, host, target, code, exit>>

InProgram(p) == \E i \in DOMAIN Program : p \in Program[i].addr..(Program[i].addr + Program[i].len - 1)

\* What +loadmem loads at an address: write of loadmem_memif_t, for every chunk.
FromFile(p) == IF loadmem /\ InProgram(p) THEN Text ELSE Zero

\* A memory as memory_init maps it for a channel.
Image(c) == [o \in Offsets(c) |-> FromFile(Base(c) + o)]

Access(op, addr, len, val) == [op |-> op, addr |-> addr, len |-> len, val |-> val]

\* write_chunk and read_chunk of testchip_tsi_t: flushes, then the access.
Flushed(m) ==
    (IF cflush THEN [i \in DOMAIN flush_cache_lines(m.addr, m.len) |->
                        Access("flush", flush_cache_lines(m.addr, m.len)[i], 1, Zero)]
     ELSE <<>>) \o <<m>>

\* load_program: with +loadmem the writes of the program go nowhere.
load_program ==
    IF loadmem THEN <<>>
    ELSE FlattenSeq([i \in DOMAIN Program |-> Flushed(Access("write", Program[i].addr, Program[i].len, Text))])

perform_init_accesses(accesses) ==
    FlattenSeq([i \in DOMAIN accesses |->
        Flushed(IF accesses[i].store THEN Access("write", accesses[i].addr, accesses[i].len, Datum)
                ELSE Access("read", accesses[i].addr, accesses[i].len, Zero))])

\* The interrupt of hart 0 is written like anything else.
Wake == IF msip THEN Flushed(Access("msip", Msip, 1, Zero)) ELSE <<>>

\* Fault: the hart is woken first.
WakeFirst(accesses) == load_program \o Wake \o perform_init_accesses(accesses)

\* testchip_tsi_t::load_program, then reset.
Plan(accesses) == load_program \o perform_init_accesses(accesses) \o Wake

Poll == Flushed(Access("read", Tohost, 1, Zero))

Init ==
    /\ loadmem \in BOOLEAN /\ cflush \in BOOLEAN /\ msip \in BOOLEAN
    /\ backing = <<>> /\ initialized = [c \in Channels |-> FALSE] /\ fault = "none"
    /\ \E accesses \in Accesses : script = Plan(accesses)
    /\ plan = script
    /\ in_data = <<>> /\ in_reg = <<>> /\ reading = FALSE /\ out_data = <<>>
    /\ serving = <<>> /\ flushed = {} /\ done = <<>> /\ woken = FALSE
    /\ code = -1 /\ written = [a \in Addresses |-> FromFile(a)] /\ exit = 0
-----------------------------------------------------------------------------
(* The memory.                                                              *)

Running == fault # "aborted"

\* The copy of the program into the memory of a channel leaves it: addr is not checked.
OutOfBounds(c) == loadmem /\ \E i \in DOMAIN Program :
    ~(Program[i].addr - Base(c) \in Offsets(c) /\ Program[i].addr + Program[i].len - 1 - Base(c) \in Offsets(c))

\* mmap and load_elf.
Maps(c) == backing' = [k \in DOMAIN backing \cup {Key(c)} |-> IF k = Key(c) THEN Image(c) ELSE backing[k]]

\* The same, with the bytes outside in the memories that lie that far from the new one.
MapsAndStrays(c) ==
    \E gap \in [DOMAIN backing -> Gaps] :
        /\ \A k \in DOMAIN backing : \A o \in DOMAIN backing[k] : gap[k] + o \notin Offsets(c)
        /\ backing' = [k \in DOMAIN backing \cup {Key(c)} |->
              IF k = Key(c) THEN Image(c)
              ELSE [o \in DOMAIN backing[k] |->
                       IF InProgram(Base(c) + gap[k] + o) THEN Text ELSE backing[k][o]]]

\* Fault: every channel maps and loads a memory of its own.
memory_init_anew(c) ==
    /\ Running /\ ~initialized[c]
    /\ initialized' = [initialized EXCEPT ![c] = TRUE]
    /\ IF OutOfBounds(c) THEN MapsAndStrays(c) /\ fault' = "strayed"
       ELSE Maps(c) /\ fault' = fault
    /\ UNCHANGED <<options, host, target, code, written, exit>>

\* The first channel of a chip and base maps the memory and loads the program; another
\* has to have its size.  A copy out of bounds ends the simulation or goes unnoticed.
memory_init(c) ==
    /\ Running /\ ~initialized[c]
    /\ \/ /\ Key(c) \in DOMAIN backing /\ DOMAIN backing[Key(c)] = Offsets(c)
          /\ initialized' = [initialized EXCEPT ![c] = TRUE]
          /\ UNCHANGED <<backing, fault>>
       \/ /\ Key(c) \notin DOMAIN backing /\ ~OutOfBounds(c)
          /\ initialized' = [initialized EXCEPT ![c] = TRUE]
          /\ Maps(c)
          /\ fault' = fault
       \/ /\ Key(c) \notin DOMAIN backing /\ OutOfBounds(c)
          /\ initialized' = [initialized EXCEPT ![c] = TRUE]
          /\ MapsAndStrays(c)
          /\ fault' = "strayed"
       \/ /\ IF Key(c) \in DOMAIN backing THEN DOMAIN backing[Key(c)] # Offsets(c) ELSE OutOfBounds(c)
          /\ fault' = "aborted"
          /\ UNCHANGED <<backing, initialized>>
    /\ UNCHANGED <<options, host, target, code, written, exit>>

Up(chunk) == \A a \in chunk : initialized[ChannelOf[a]]

\* Where mm_t::write and mm_t::read find an address.
Offset(a) == a - Base(ChannelOf[a])

\* A store of the design, through the channels of its addresses.
Stores(chunk, v) ==
    /\ backing' = [k \in DOMAIN backing |->
                      [o \in DOMAIN backing[k] |->
                          IF \E a \in chunk : k = Key(ChannelOf[a]) /\ o = Offset(a) THEN v ELSE backing[k][o]]]
    /\ written' = [a \in Addresses |-> IF a \in chunk THEN v ELSE written[a]]

Loaded(a) == backing[Key(ChannelOf[a])][Offset(a)]
-----------------------------------------------------------------------------
(* The TSI.                                                                 *)

\* What the host sends before it has to wait for an answer.
UpToRead(messages) ==
    LET reads == {i \in DOMAIN messages : messages[i].op = "read"}
    IN IF reads = {} THEN messages ELSE SubSeq(messages, 1, Min(reads))

Taken == in_reg # <<>> /\ serving = <<>>

\* The answer to a poll that ends the host's loop.
Finished == out_data # <<>> /\ out_data[1].addr = Tohost /\ out_data[1].val > 0

\* What the host sends in this tick: it runs until it waits for an answer.
Sends ==
    IF (reading /\ out_data = <<>>) \/ Finished THEN <<>>
    ELSE IF plan # <<>> THEN UpToRead(plan) ELSE Poll

\* Fault: a word offered is taken for a word accepted.
PoppedWhenOffered == IF in_reg # <<>> THEN Tail(in_data) ELSE in_data

\* tsi_t::tick drops the word the design took at this clock.
Popped == IF Taken THEN Tail(in_data) ELSE in_data

\* Fault: tsi's exit code is returned as it is.
ExitUnshifted == IF Finished THEN out_data[1].val \div 2 ELSE 0

\* tohost holds the exit code shifted, plus 1; tsi_tick does the same to tsi's exit code.
ExitCode == IF Finished THEN ((out_data[1].val \div 2) * 2) + 1 ELSE 0

tsi_tick ==
    /\ Running /\ exit = 0
    /\ serving' = IF Taken THEN in_reg ELSE serving
    /\ in_data' = Popped \o Sends
    /\ in_reg' = SubSeq(in_data', 1, IF in_data' = <<>> THEN 0 ELSE 1)
    /\ plan' = SubSeq(plan, Len(Sends) + 1, Len(plan))
    /\ reading' = IF reading /\ out_data = <<>> THEN TRUE ELSE \E i \in DOMAIN Sends : Sends[i].op = "read"
    /\ out_data' = <<>>
    /\ exit' = ExitCode
    /\ UNCHANGED <<options, memory, flushed, done, woken, code>>
-----------------------------------------------------------------------------
(* The design.                                                              *)

Serve ==
    /\ Running /\ serving # <<>> /\ serving' = <<>>
    /\ done' = IF Len(done) < Len(script) THEN done \o serving ELSE done
    /\ LET m == serving[1]
       IN \/ /\ m.op = "flush"
             /\ flushed' = flushed \cup {m.addr}
             /\ UNCHANGED <<memory, out_data, woken>>
          \/ /\ m.op = "write" /\ Up(Chunk(m))
             /\ Stores(Chunk(m), m.val)
             /\ flushed' = {}
             /\ UNCHANGED <<initialized, fault, out_data, woken>>
          \/ /\ m.op = "read" /\ Up(Chunk(m))
             /\ out_data' = <<[addr |-> m.addr, val |-> Loaded(m.addr)]>>
             /\ flushed' = {}
             /\ UNCHANGED <<memory, woken>>
          \/ /\ m.op = "msip"
             /\ woken' = TRUE
             /\ UNCHANGED <<memory, out_data, flushed>>
    /\ UNCHANGED <<options, host, code, exit>>

\* The hart changes its data, and ends with an exit code.
HartStore(a) ==
    /\ Running /\ woken /\ code = -1 /\ a # Tohost /\ Up({a})
    /\ Loaded(a) # Text
    /\ Stores({a}, Store)
    /\ UNCHANGED <<options, initialized, fault, host, target, code, exit>>

HartExit(c) ==
    /\ Running /\ woken /\ code = -1 /\ Up({Tohost})
    /\ code' = c
    /\ Stores({Tohost}, (2 * c) + 1)
    /\ UNCHANGED <<options, initialized, fault, host, target, exit>>

Next ==
    \/ \E c \in Channels : memory_init(c)
    \/ tsi_tick
    \/ Serve
    \/ \E a \in Addresses : HartStore(a)
    \/ \E c \in 0..1 : HartExit(c)

Spec == Init /\ [][Next]_vars

\* The resets of the channels the addresses need are released, the clock runs and the
\* design makes its accesses.
Fairness ==
    /\ \A a \in Addresses : WF_vars(memory_init(ChannelOf[a]))
    /\ WF_vars(tsi_tick)
    /\ WF_vars(Serve)

FairSpec == Spec /\ Fairness
-----------------------------------------------------------------------------
(* Properties.                                                              *)

\* The types of the state of host and memory.
TypeOK ==
    /\ DOMAIN backing \subseteq {<<chip_id[c], base>> : c \in Channels, base \in 0..(2^addr_bits - 1)}
    /\ \A k \in DOMAIN backing : \A o \in DOMAIN backing[k] : backing[k][o] \in -3..3
    /\ fault \in {"none", "strayed", "aborted"}
    /\ Len(in_reg) <= 1 /\ Len(serving) <= 1 /\ Len(out_data) <= 1
    /\ exit \in {0, 1, 3} /\ code \in -1..1

\* Every word of the host reaches the design once and in order, through a register
\* that shows it a clock late, and although the host runs ahead of the design.
WordsOnce ==
    IsPrefix(script, done \o serving \o in_data \o plan)

\* What a tick relies on: the types, and the order of the words.
Inv == TypeOK /\ WordsOnce

\* With +cflush_addr, an access of the host finds every cache block it touches
\* flushed, also when it starts or ends inside a block.
AccessesFlushed ==
    cflush /\ serving # <<>> /\ serving[1].op \in {"read", "write"} =>
        {a \div cblock_bytes : a \in Chunk(serving[1])} \subseteq flushed

\* Does an init write replace what the program holds there?
Replaced(a) ==
    \E i \in DOMAIN script : script[i].op = "write" /\ script[i].val = Datum /\ a \in Chunk(script[i])

\* When hart 0 is awake, the program is in memory wherever the hart can fetch from,
\* but for init writes and the exit code, and all init accesses have been made, whether
\* the TSI or memory_init loads the program, in whatever order the resets are released,
\* and whatever the bases of the channels - unless a copy of memory_init has left its
\* memory (line 69 of SimDRAM.cc).
WokenReady ==
    woken /\ fault = "none" =>
        /\ \A i \in DOMAIN Program : \A a \in Chunk(Program[i]) :
              Up({a}) /\ ~Replaced(a) /\ a # Tohost => Loaded(a) = Text
        /\ Len(done) = Len(script)

\* What the memory of a channel should hold: the last stores to the addresses it serves,
\* and elsewhere what was loaded into it.
Contents(c) ==
    [o \in Offsets(c) |->
        LET a == Base(c) + o
        IN IF a \in Addresses /\ Key(ChannelOf[a]) = Key(c) THEN written[a] ELSE FromFile(a)]

\* A channel that comes up later joins the memory its chip already has at that base, with
\* all that was stored there through any channel of it - so memory striped over channels of
\* one base is one memory, whatever lines 16-17 of SimDRAM.cc say - and a memory of another
\* chip or base holds its own stores and the bytes loaded into it, and no others.  A copy
\* out of bounds and the assertion on the size are what ends this.
StoresKept ==
    fault = "none" => \A c \in Channels : initialized[c] => backing[Key(c)] = Contents(c)

\* The end of the program is noticed, and the simulation reports the program's exit
\* code, exit code 0 included, unless memory_init has copied out of bounds or aborted.
ExitReported == \A c \in 0..1 : code = c ~> (exit = (2 * c) + 1 \/ fault # "none")
=============================================================================
