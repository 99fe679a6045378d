------------------------- MODULE MagicMemory_proofs -------------------------
(***************************************************************************)
(* The magic memory keeps its types and agrees with the design on what is    *)
(* under way, stores every byte where AXI says and keeps the promises of     *)
(* AxiMemory, for any width of the bus, size of the memory and length of the *)
(* bursts.                                                                   *)
(***************************************************************************)
EXTENDS MagicMemory, TLAPS

(* Words and lanes.                                                         *)

\* An address is a word and a lane.
LEMMA Division ==
    ASSUME NEW a \in Nat
    PROVE  /\ a \div word_size \in Nat
           /\ a % word_size \in Lanes
           /\ a = word_size * (a \div word_size) + (a % word_size)
  BY MagicAssumption DEF Lanes

\* And it is so in one way.
LEMMA LaneUnique ==
    ASSUME NEW k \in Nat, NEW l \in Lanes
    PROVE  /\ (word_size * k + l) \div word_size = k
           /\ (word_size * k + l) % word_size = l
  BY MagicAssumption DEF Lanes

\* Every lane of a word of the memory is an address.
LEMMA InMemory ==
    ASSUME NEW k \in 0..(NumWords - 1), NEW l \in Lanes
    PROVE  word_size * k + l \in Addresses
  BY MagicAssumption DEF Lanes, Addresses

\* A multiple of the size below the width leaves room for a beat.
LEMMA Multiples ==
    ASSUME NEW s \in Nat \ {0}, NEW d \in Int, NEW n \in Int, s * d < s * n
    PROVE  s * d + s <= s * n
  <1>1. d + 1 <= n
    OBVIOUS
  <1>2. s * (d + 1) <= s * n
    BY <1>1
  <1>3. QED
    BY <1>2

\* Products distribute over differences.
LEMMA Distribution ==
    ASSUME NEW s \in Int, NEW a \in Int, NEW b \in Int
    PROVE  s * (a - b) = s * a - s * b
  OBVIOUS

LEMMA NextMultiple ==
    ASSUME NEW s \in Int, NEW d \in Int
    PROVE  s * (d + 1) = s * d + s
  OBVIOUS

\* An aligned beat does not leave its word.
LEMMA BeatInWord ==
    ASSUME NEW a \in Nat, NEW s \in Sizes, a % s = 0
    PROVE  (a % word_size) + s <= word_size
  <1> DEFINE p == a \div s
             n == word_size \div s
             k == a \div word_size
             l == a % word_size
  <1>1. s \in Nat \ {0} /\ word_size \in Nat \ {0} /\ word_size % s = 0
    BY MagicAssumption
  <1>2. p \in Nat /\ a = s * p
    BY <1>1
  <1>3. n \in Nat /\ word_size = s * n
    BY <1>1
  <1>4. k \in Nat /\ l \in Nat /\ l < word_size /\ a = word_size * k + l
    BY <1>1
  <1>5. p - n * k \in Int /\ l = s * (p - n * k)
    <2>1. word_size * k = s * (n * k)
      BY <1>1, <1>3, <1>4
    <2>2. n * k \in Nat
      BY <1>3, <1>4
    <2>3. s * p = s * (n * k) + l
      BY <1>2, <1>4, <2>1
    <2>4. s * (p - n * k) = s * p - s * (n * k)
      <3> HIDE DEF p, n, k, l
      <3>1. s \in Int /\ p \in Int /\ n * k \in Int
        BY <1>1, <1>2, <2>2
      <3>2. QED
        BY <3>1, Distribution
    <2>5. s * p \in Int /\ s * (n * k) \in Int
      BY <1>1, <1>2, <2>2
    <2>6. QED
      BY <1>2, <1>4, <2>2, <2>3, <2>4, <2>5
  <1>6. l + s <= word_size
    <2> HIDE DEF p, n, k, l
    <2>1. s * (p - n * k) + s <= s * n
      <3>1. s * (p - n * k) < s * n
        BY <1>3, <1>4, <1>5
      <3>2. QED
        BY <1>1, <1>3, <1>5, <3>1, Multiples
    <2>2. QED
      BY <1>3, <1>5, <2>1
  <1>7. QED
    BY <1>6
-----------------------------------------------------------------------------
(* Bursts.                                                                  *)

LEMMA BurstParts ==
    ASSUME NEW q \in Bursts
    PROVE  /\ q \in [id : Ids, addr : Addresses, size : Sizes, left : 1..MaxLen]
           /\ q.id \in Ids /\ q.addr \in Nat /\ q.addr \in Addresses
           /\ q.size \in Sizes /\ q.size \in Nat \ {0} /\ q.size <= word_size
           /\ q.left \in 1..MaxLen
           /\ q.addr % q.size = 0
           /\ q.left > 1 => q.size = word_size
           /\ (q.addr \div word_size) + q.left <= NumWords
           /\ q # Idle
  <1>1. /\ q \in [id : Ids, addr : Addresses, size : Sizes, left : 1..MaxLen]
        /\ q.addr % q.size = 0
        /\ q.left > 1 => q.size = word_size
        /\ (q.addr \div word_size) + q.left <= NumWords
    BY DEF Bursts
  <1>2. /\ q.id \in Ids /\ q.addr \in Addresses /\ q.size \in Sizes /\ q.left \in 1..MaxLen
    BY <1>1
  <1>3. q.addr \in Nat
    BY <1>2, MagicAssumption DEF Addresses
  <1>4. q.size \in 1..word_size
    BY <1>2, MagicAssumption
  <1>5. q \in [id : Ids, addr : Nat, size : Sizes, left : Nat]
    BY <1>1, <1>2, <1>3, MagicAssumption
  <1>6. QED
    BY <1>1, <1>2, <1>3, <1>4, <1>5, MagicAssumption, IdleAssumption

\* A beat of a read burst is in the memory.
LEMMA ReadInMemory ==
    ASSUME NEW q \in Bursts, NEW k \in 1..q.left, NEW l \in Lanes
    PROVE  ((q.addr \div word_size) * word_size) + ((k - 1) * word_size) + l \in Addresses
  <1> DEFINE d == q.addr \div word_size
  <1>1. d \in Nat /\ d + q.left <= NumWords /\ q.left \in Nat
    BY BurstParts, Division
  <1>2. d + (k - 1) \in 0..(NumWords - 1)
    BY <1>1, MagicAssumption
  <1>3. (d * word_size) + ((k - 1) * word_size) = word_size * (d + (k - 1))
    BY <1>1, MagicAssumption
  <1>4. word_size * (d + (k - 1)) + l \in Addresses
    BY <1>2, InMemory
  <1>5. QED
    BY <1>3, <1>4

\* After a beat that is not the last the rest is a burst, one word on.
LEMMA RestIsBurst ==
    ASSUME NEW q \in Bursts, q.left > 1
    PROVE  [q EXCEPT !.addr = @ + q.size, !.left = @ - 1] \in Bursts
  <1> DEFINE d == q.addr \div word_size
  <1>1. /\ q.size = word_size /\ q.addr \in Nat /\ q.addr % word_size = 0
        /\ d + q.left <= NumWords /\ q.left \in Nat /\ q.left <= MaxLen
    BY BurstParts, MagicAssumption
  <1>2. d \in Nat /\ q.addr = word_size * d /\ word_size \in Nat /\ NumWords \in Nat
    <2>1. d \in Nat /\ q.addr = word_size * d + 0
      BY <1>1, Division
    <2>2. word_size * d \in Nat
      BY <2>1, MagicAssumption
    <2>3. QED
      BY <2>1, <2>2, MagicAssumption
  <1> HIDE DEF d
  <1>3. q.addr + q.size = word_size * (d + 1) + 0
    <2>1. word_size * (d + 1) = word_size * d + word_size
      BY <1>2, NextMultiple
    <2>2. word_size * d \in Nat
      BY <1>1, <1>2
    <2>3. QED
      BY <1>1, <1>2, <2>1, <2>2
  <1>4. 0 \in Lanes
    BY MagicAssumption DEF Lanes
  <1>5. (q.addr + q.size) \div word_size = d + 1 /\ (q.addr + q.size) % word_size = 0
    <2>1. d + 1 \in Nat
      BY <1>2
    <2>2. QED
      BY <1>3, <1>4, <2>1, LaneUnique
  <1>6. q.addr + q.size \in Addresses
    <2>1. d + 1 \in 0..(NumWords - 1)
      BY <1>1, <1>2
    <2>2. QED
      BY <1>3, <1>4, <2>1, InMemory
  <1> DEFINE rest == [q EXCEPT !.addr = @ + q.size, !.left = @ - 1]
  <1>7. q \in [id : Ids, addr : Addresses, size : Sizes, left : 1..MaxLen]
    BY BurstParts
  <1>8. /\ rest \in [id : Ids, addr : Addresses, size : Sizes, left : 1..MaxLen]
        /\ rest.addr = q.addr + q.size /\ rest.size = q.size /\ rest.left = q.left - 1
    <2>1. q.left - 1 \in 1..MaxLen
      BY <1>1, MagicAssumption
    <2>2. QED
      BY <1>6, <1>7, <2>1
  <1>9. /\ rest.addr % rest.size = 0 /\ rest.size = word_size
        /\ (rest.addr \div word_size) + rest.left <= NumWords
    <2>1. (d + 1) + (q.left - 1) <= NumWords
      BY <1>1, <1>2
    <2>2. QED
      BY <1>1, <1>5, <1>8, <2>1
  <1>10. QED
    BY <1>8, <1>9 DEF Bursts

\* The beat's mask and lanes name the bytes AXI says it carries.
LEMMA BytesPlaced ==
    ASSUME store \in Bursts, NEW strb \in SUBSET Lanes, NEW b \in Addresses,
           NEW base, base = (store.addr \div word_size) * word_size
    PROVE  /\ b - base \in Mask(strb) <=> Carries(strb, b)
           /\ Carries(strb, b) => b - base = b % word_size
           /\ b - base \in Mask(strb) => b - base \in Lanes
  <1> DEFINE a    == store.addr
             d    == a \div word_size
             lane == a % word_size
             size == store.size
  <1>1. a \in Nat /\ size \in Nat \ {0} /\ lane + size <= word_size
    <2>1. a \in Nat /\ size \in Sizes /\ size \in Nat \ {0} /\ a % size = 0
      BY BurstParts
    <2> HIDE DEF a, size
    <2>2. lane + size <= word_size
      BY <2>1, BeatInWord, Zenon
    <2>3. QED
      BY <2>1, <2>2
  <1>2. d \in Nat /\ lane \in Lanes /\ base \in Nat /\ base = word_size * d /\ a = base + lane
    <2>1. d \in Nat /\ lane \in Lanes /\ a = word_size * d + lane
      BY <1>1, Division
    <2> HIDE DEF d, lane
    <2>2. base = word_size * d /\ base \in Nat
      <3>1. base = d * word_size
        BY DEF d, a
      <3>2. QED
        BY <2>1, <3>1, MagicAssumption
    <2>3. QED
      BY <2>1, <2>2
  <1>3. b \in Nat /\ word_size \in Nat \ {0} /\ lane \in Nat
    BY <1>2, MagicAssumption DEF Addresses, Lanes
  <1> HIDE DEF a, d, lane, size
  <1>4. b - base \in lane..(lane + size - 1) <=> b \in a..(a + size - 1)
    BY <1>1, <1>2, <1>3
  <1>5. b - base \in lane..(lane + size - 1) => b - base \in Lanes
    BY <1>1, <1>2, <1>3 DEF Lanes
  <1>6. b - base \in Lanes => b % word_size = b - base
    <2>1. b = word_size * d + (b - base)
      BY <1>2, <1>3
    <2>2. QED
      BY <1>2, <2>1, LaneUnique
  <1>7. Mask(strb) = strb \cap lane..(lane + size - 1)
    BY DEF Mask, lane, a, size
  <1>8. Carries(strb, b) <=> b \in a..(a + size - 1) /\ b % word_size \in strb
    BY DEF Carries, a, size
  <1>9. QED
    BY <1>4, <1>5, <1>6, <1>7, <1>8
-----------------------------------------------------------------------------
(* The invariant.                                                           *)

Responses == [id : Ids, data : Beats, last : BOOLEAN]

LEMMA InvInit == Init => Inv
  <1> SUFFICES ASSUME Init
               PROVE  Inv
    OBVIOUS
  <1>1. TypeOK
    <2>1. rresp \in Seq([id : Ids, data : Beats, last : BOOLEAN]) /\ bresp \in Seq(Ids)
      BY DEF Init
    <2>2. phase \in 0..6 /\ reads \in 0..MaxReads /\ writes \in 0..MaxWrites
      BY MagicAssumption DEF Init
    <2>3. data \in [Addresses -> Bytes] /\ written = data /\ up = FALSE /\ store = Idle /\ load = Idle
          /\ due \in [beats : Int, left : Int, acks : Int]
      BY DEF Init
    <2>4. QED
      BY <2>1, <2>2, <2>3 DEF TypeOK
  <1>2. PortKept
    <2>1. phase = 0 /\ load = Idle /\ ~LastBeatStored
      BY DEF Init, LastBeatStored
    <2>2. ready.aw = FALSE /\ ready.w = FALSE
      BY Zenon DEF Init, InReset
    <2>3. 0 \notin 1..5 /\ 0 \notin 1..4 /\ 0 \notin 1..3
      OBVIOUS
    <2>4. QED
      BY <2>1, <2>2, <2>3, Zenon DEF PortKept
  <1>3. BytesAsWritten
    BY DEF Init, BytesAsWritten
  <1>4. SidesAgree /\ RegistersKept
    <2>1. /\ store = Idle /\ load = Idle /\ rresp = <<>> /\ bresp = <<>> /\ up = FALSE
          /\ due = [beats |-> 0, left |-> 0, acks |-> 0] /\ port = InReset /\ ready = InReset
          /\ ~LastBeatStored
      BY DEF Init, LastBeatStored
    <2>2. InReset.r = Idle /\ InReset.b = Idle
      BY DEF InReset
    <2>3. QED
      BY <2>1, <2>2 DEF SidesAgree, RegistersKept
  <1>5. QED
    BY <1>1, <1>2, <1>3, <1>4 DEF Inv

\* Out of the first tick both sides decide by the same values, so what one does the
\* other does: the steps of Next are steps of both.
LEMMA OnePort ==
    ASSUME Inv, phase # 0
    PROVE  /\ up => port = ready
           /\ ready.b # Idle \/ port.b # Idle => up
           /\ ready.r # Idle \/ port.r # Idle => up
           /\ due.left > 0 => up /\ store # Idle
  <1>1. InReset.r = Idle /\ InReset.b = Idle
    BY DEF InReset
  <1>2. QED
    BY <1>1 DEF Inv, RegistersKept, SidesAgree

LEMMA ReadAccepted ==
    ASSUME Inv, NEW q \in Bursts, AcceptRead(q)
    PROVE  /\ phase \in 1..1 /\ phase' = 2 /\ load = Idle /\ ~LastBeatStored /\ up
           /\ reads < MaxReads /\ reads' = reads + 1 /\ load' = q
           /\ due' = [due EXCEPT !.beats = @ + q.left]
           /\ UNCHANGED <<data, store, rresp, bresp, port, ready, up, written, writes>>
  BY OnePort DEF AcceptRead, Serve

LEMMA WriteAccepted ==
    ASSUME Inv, NEW q \in Bursts, AcceptWrite(q)
    PROVE  /\ phase \in 1..2 /\ phase' = 3 /\ load = Idle /\ store = Idle /\ up
           /\ writes < MaxWrites /\ writes' = writes + 1 /\ store' = q
           /\ due' = [due EXCEPT !.left = @ + q.left]
           /\ UNCHANGED <<data, load, rresp, bresp, port, ready, up, written, reads>>
  BY OnePort DEF AcceptWrite, Serve, Inv, PortKept

LEMMA BeatSent ==
    ASSUME Inv, NEW v \in Beats, NEW strb \in SUBSET Lanes, WriteBeat(v, strb)
    PROVE  /\ phase \in 1..3 /\ phase' = 4 /\ load = Idle /\ ~LastBeatStored /\ store # Idle /\ up
           /\ Stores(v, strb)
           /\ due' = [due EXCEPT !.left = @ - 1, !.acks = IF due.left = 1 THEN @ + 1 ELSE @]
           /\ UNCHANGED <<load, rresp, bresp, port, ready, up, reads, writes>>
  BY OnePort DEF WriteBeat, Serve

LEMMA AckTaken ==
    ASSUME Inv, TakeAck
    PROVE  /\ phase \in 1..4 /\ phase' = 5 /\ load = Idle /\ ~LastBeatStored /\ up
           /\ bresp # <<>> /\ bresp' = Tail(bresp)
           /\ due' = [due EXCEPT !.acks = @ - 1]
           /\ UNCHANGED <<data, store, load, rresp, port, ready, up, written, reads, writes>>
  BY OnePort DEF TakeAck, Serve, Inv, PortKept

LEMMA BeatTaken ==
    ASSUME Inv, TakeBeat
    PROVE  /\ phase \in 1..5 /\ phase' = 6 /\ load = Idle /\ ~LastBeatStored /\ up
           /\ rresp # <<>> /\ rresp' = Tail(rresp)
           /\ due' = [due EXCEPT !.beats = @ - 1]
           /\ UNCHANGED <<data, store, load, bresp, port, ready, up, written, reads, writes>>
  BY OnePort DEF TakeBeat, Serve, Inv, PortKept

\* The port is sampled, or copied to the registers.
LEMMA ClockStep ==
    ASSUME Inv, Tick \/ EndTick
    PROVE  Inv'
  <1>1. CASE Tick
    <2>1. TypeOK' /\ BytesAsWritten'
      BY <1>1 DEF Inv, TypeOK, BytesAsWritten, Tick
    <2>2. PortKept'
      <3>1. ready'.aw = (store = Idle) /\ ready'.w = (store # Idle)
        BY <1>1, Zenon DEF Tick, Port
      <3>2. ready'.b = First(bresp) /\ ready'.r = First(rresp)
        BY <1>1, Zenon DEF Tick, Port
      <3>3. phase = 0 /\ phase' = 1 /\ UNCHANGED <<store, load, rresp, bresp>>
        BY <1>1 DEF Tick
      <3>4. ready'.b # Idle => bresp' # <<>>
        BY <3>2, <3>3 DEF First
      <3>5. ready'.r # Idle => rresp' # <<>>
        BY <3>2, <3>3 DEF First
      <3>6. ~LastBeatStored'
        BY <3>3 DEF Inv, PortKept, LastBeatStored
      <3>7. ~(ready'.aw /\ ready'.w) /\ (ready'.w => store' # Idle) /\ (ready'.aw => store' = Idle)
        BY <3>1, <3>3
      <3>8. QED
        BY <3>3, <3>4, <3>5, <3>6, <3>7 DEF Inv, PortKept
    <2>3. SidesAgree'
      BY <1>1 DEF Inv, SidesAgree, Tick, LastBeatStored
    <2>4. RegistersKept'
      <3>1. ready' = Port /\ phase = 0 /\ phase' = 1 /\ UNCHANGED <<port, store, load, rresp, bresp, up>>
        BY <1>1 DEF Tick
      <3>2. Port.r = First(rresp) /\ Port.b = First(bresp)
        BY DEF Port
      <3>3. QED
        BY <3>1, <3>2 DEF Inv, RegistersKept, First
    <2>5. QED
      BY <2>1, <2>2, <2>3, <2>4 DEF Inv
  <1>2. CASE EndTick
    <2>1. TypeOK' /\ BytesAsWritten'
      BY <1>2 DEF Inv, TypeOK, BytesAsWritten, EndTick
    <2>2. RegistersKept'
      BY <1>2 DEF RegistersKept, EndTick, Port
    <2>3. PortKept'
      BY <1>2 DEF Inv, PortKept, EndTick, InReset, LastBeatStored
    <2>4. SidesAgree'
      <3>1. /\ port' = Port /\ load = Idle /\ phase' = 0
            /\ UNCHANGED <<store, load, rresp, bresp, due>> /\ (LastBeatStored' <=> LastBeatStored)
        BY <1>2 DEF EndTick, LastBeatStored
      <3>2. port'.r = First(rresp) /\ port'.b = First(bresp)
        BY <3>1 DEF Port
      <3>3. QED
        BY <3>1, <3>2 DEF Inv, SidesAgree, First
    <2>5. QED
      BY <2>1, <2>2, <2>3, <2>4 DEF Inv
  <1>3. QED
    BY <1>1, <1>2

\* A beat sent changes two of the design's counts.
LEMMA DueSent ==
    ASSUME NEW d \in [beats : Int, left : Int, acks : Int], NEW l \in Int, NEW a \in Int
    PROVE  /\ [d EXCEPT !.left = l, !.acks = a] \in [beats : Int, left : Int, acks : Int]
           /\ [d EXCEPT !.left = l, !.acks = a].beats = d.beats
           /\ [d EXCEPT !.left = l, !.acks = a].left = l
           /\ [d EXCEPT !.left = l, !.acks = a].acks = a
  OBVIOUS

\* A burst begins; nothing of it is done yet.
LEMMA AcceptStep ==
    ASSUME Inv, NEW q \in Bursts, AcceptRead(q) \/ AcceptWrite(q)
    PROVE  Inv'
  <1>1. q.left \in 1..MaxLen /\ q.left \in Nat \ {0} /\ q # Idle
    BY BurstParts, MagicAssumption
  <1>2. due \in [beats : Int, left : Int, acks : Int]
    BY DEF Inv, TypeOK
  <1>3. CASE AcceptRead(q)
    <2>1. /\ phase \in 1..1 /\ phase' = 2 /\ load = Idle /\ ~LastBeatStored /\ up
          /\ reads < MaxReads /\ reads' = reads + 1 /\ load' = q
          /\ due' = [due EXCEPT !.beats = @ + q.left]
          /\ UNCHANGED <<data, store, rresp, bresp, port, ready, up, written, writes>>
      BY <1>3, ReadAccepted
    <2>2. due' \in [beats : Int, left : Int, acks : Int] /\ (LastBeatStored' <=> LastBeatStored)
      BY <1>1, <1>2, <2>1 DEF LastBeatStored
    <2>3. TypeOK'
      <3>1. TypeOK /\ load' \in Bursts
        BY <2>1 DEF Inv
      <3>2. phase' \in 0..6
        BY <2>1
      <3>3. reads' \in 0..MaxReads
        <4>1. reads \in 0..MaxReads /\ MaxReads \in Nat
          BY <3>1, MagicAssumption, Zenon DEF TypeOK
        <4>2. reads < MaxReads /\ reads' = reads + 1
          BY <2>1
        <4>3. QED
          BY <4>1, <4>2
      <3>4. QED
        BY <2>1, <2>2, <3>1, <3>2, <3>3, Zenon DEF TypeOK
    <2>4. PortKept' /\ BytesAsWritten' /\ RegistersKept'
      BY <2>1, <2>2 DEF Inv, PortKept, BytesAsWritten, RegistersKept
    <2>5. SidesAgree'
      <3>1. due'.beats = due.beats + q.left /\ due'.left = due.left /\ due'.acks = due.acks
        BY <1>2, <2>1
      <3>2. Len(rresp) \in Nat
        BY DEF Inv, TypeOK
      <3>3. QED
        BY <1>1, <2>1, <2>2, <3>1, <3>2 DEF Inv, SidesAgree
    <2>6. QED
      BY <2>3, <2>4, <2>5 DEF Inv
  <1>4. CASE AcceptWrite(q)
    <2>1. /\ phase \in 1..2 /\ phase' = 3 /\ load = Idle /\ store = Idle /\ up
          /\ writes < MaxWrites /\ writes' = writes + 1 /\ store' = q
          /\ due' = [due EXCEPT !.left = @ + q.left]
          /\ UNCHANGED <<data, load, rresp, bresp, port, ready, up, written, reads>>
      BY <1>4, WriteAccepted
    <2>2. q \in [id : Ids, addr : Nat, size : Sizes, left : 0..MaxLen]
      <3>1. q \in [id : Ids, addr : Addresses, size : Sizes, left : 1..MaxLen] /\ q.addr \in Nat
        BY BurstParts
      <3>2. QED
        BY <3>1, <1>1
    <2>3. due' \in [beats : Int, left : Int, acks : Int] /\ ~LastBeatStored /\ ~LastBeatStored'
      <3>1. due' \in [beats : Int, left : Int, acks : Int]
        BY <1>1, <1>2, <2>1
      <3>2. ~LastBeatStored
        BY <2>1 DEF LastBeatStored
      <3>3. ~LastBeatStored'
        <4>1. store' = q
          BY <2>1
        <4>2. q.left # 0
          BY <1>1
        <4>3. QED
          BY <4>1, <4>2, Zenon DEF LastBeatStored
      <3>4. QED
        BY <3>1, <3>2, <3>3
    <2>4. TypeOK'
      <3>1. TypeOK /\ store' \in [id : Ids, addr : Nat, size : Sizes, left : 0..MaxLen] /\ store' \in Bursts
        BY <2>1, <2>2 DEF Inv
      <3>2. phase' \in 0..6
        BY <2>1
      <3>3. writes' \in 0..MaxWrites
        <4>1. writes \in 0..MaxWrites /\ MaxWrites \in Nat
          BY <3>1, MagicAssumption, Zenon DEF TypeOK
        <4>2. writes < MaxWrites /\ writes' = writes + 1
          BY <2>1
        <4>3. QED
          BY <4>1, <4>2
      <3>4. QED
        BY <2>1, <2>3, <3>1, <3>2, <3>3, Zenon DEF TypeOK
    <2>5. PortKept' /\ BytesAsWritten' /\ RegistersKept'
      BY <1>1, <2>1, <2>3 DEF Inv, PortKept, BytesAsWritten, RegistersKept
    <2>6. SidesAgree'
      <3>1. due'.beats = due.beats /\ due'.left = due.left + q.left /\ due'.acks = due.acks
        BY <1>2, <2>1
      <3>2. QED
        BY <1>1, <2>1, <2>3, <3>1 DEF Inv, SidesAgree
    <2>7. QED
      BY <2>4, <2>5, <2>6 DEF Inv
  <1>5. QED
    BY <1>3, <1>4

\* The beats of a read come from the memory.
LEMMA ReadStep ==
    ASSUME Inv, Read
    PROVE  Inv'
  <1> DEFINE start == (load.addr \div word_size) * word_size
             beats == [k \in 1..load.left |->
                         [id |-> load.id, last |-> k = load.left,
                          data |-> [l \in Lanes |-> data[start + ((k - 1) * word_size) + l]]]]
  <1>1. load \in Bursts /\ load # Idle /\ load.id \in Ids /\ load.left \in Nat
    BY BurstParts DEF Inv, TypeOK, Read
  <1>2. rresp' = rresp \o beats /\ load' = Idle
        /\ UNCHANGED <<data, store, bresp, port, ready, due, phase, up, written, reads, writes>>
    BY DEF Read
  <1>3. beats \in Seq(Responses)
    <2>1. ASSUME NEW k \in 1..load.left, NEW l \in Lanes
          PROVE  data[start + ((k - 1) * word_size) + l] \in Bytes
      BY <1>1, <2>1, ReadInMemory DEF Inv, TypeOK
    <2>2. \A k \in 1..load.left : [l \in Lanes |-> data[start + ((k - 1) * word_size) + l]] \in Beats
      BY <2>1 DEF Beats
    <2> HIDE DEF start
    <2>3. \A k \in 1..load.left :
            [id |-> load.id, last |-> k = load.left,
             data |-> [l \in Lanes |-> data[start + ((k - 1) * word_size) + l]]] \in Responses
      BY <1>1, <2>2 DEF Responses
    <2>4. QED
      BY <1>1, <2>3
  <1> HIDE DEF beats
  <1>4. rresp \in Seq(Responses)
    BY DEF Inv, TypeOK, Responses
  <1>5. /\ rresp' \in Seq(Responses) /\ Len(rresp') = Len(rresp) + load.left /\ Len(rresp) \in Nat
        /\ rresp # <<>> => rresp' # <<>> /\ Head(rresp') = Head(rresp)
    <2>1. Len(beats) = load.left
      BY <1>1 DEF beats
    <2>2. rresp' = rresp \o beats
      BY <1>2
    <2>3. rresp' \in Seq(Responses)
      BY <1>3, <1>4, <2>2
    <2>4. Len(rresp') = Len(rresp) + load.left /\ Len(rresp) \in Nat
      BY <1>3, <1>4, <2>1, <2>2
    <2>5. rresp # <<>> => rresp' # <<>> /\ Head(rresp') = Head(rresp)
      BY <1>3, <1>4, <2>2
    <2>6. QED
      BY <2>3, <2>4, <2>5
  <1>6. TypeOK'
    BY <1>2, <1>5 DEF Inv, TypeOK, Responses
  <1>7. LastBeatStored' <=> LastBeatStored
    BY <1>2 DEF LastBeatStored
  <1>8. PortKept' /\ BytesAsWritten' /\ RegistersKept'
    BY <1>1, <1>2, <1>5, <1>7 DEF Inv, PortKept, BytesAsWritten, RegistersKept
  <1>9. SidesAgree'
    BY <1>1, <1>2, <1>5, <1>7 DEF Inv, SidesAgree
  <1>10. QED
    BY <1>6, <1>8, <1>9 DEF Inv

\* The acknowledgement of a burst, and what the design takes.
LEMMA ResponseStep ==
    ASSUME Inv, EndWrite \/ TakeAck \/ TakeBeat
    PROVE  Inv'
  <1> /\ due \in [beats : Int, left : Int, acks : Int] /\ bresp \in Seq(Ids) /\ rresp \in Seq(Responses)
    BY DEF Inv, TypeOK, Responses
  <1>1. CASE EndWrite
    <2>1. /\ store.id \in Ids /\ store # Idle /\ phase \in 4..6 /\ LastBeatStored /\ ~LastBeatStored'
          /\ store.left = 0
      BY <1>1 DEF Inv, TypeOK, PortKept, EndWrite, LastBeatStored
    <2>2. bresp' = Append(bresp, store.id)
      BY <1>1 DEF EndWrite
    <2>3. /\ bresp' \in Seq(Ids) /\ bresp' # <<>> /\ Len(bresp') = Len(bresp) + 1 /\ Len(bresp) \in Nat
          /\ bresp # <<>> => Head(bresp') = Head(bresp)
      BY <2>1, <2>2
    <2>4. TypeOK'
      BY <1>1, <2>3 DEF Inv, TypeOK, EndWrite
    <2>5. PortKept' /\ BytesAsWritten' /\ RegistersKept'
      BY <1>1, <2>1, <2>3 DEF Inv, PortKept, BytesAsWritten, RegistersKept, EndWrite
    <2>6. SidesAgree'
      BY <1>1, <2>1, <2>3 DEF Inv, SidesAgree, EndWrite
    <2>7. QED
      BY <2>4, <2>5, <2>6 DEF Inv
  <1>2. CASE TakeAck
    <2>1. /\ phase \in 1..4 /\ phase' = 5 /\ load = Idle /\ ~LastBeatStored /\ up
          /\ bresp # <<>> /\ bresp' = Tail(bresp)
          /\ due' = [due EXCEPT !.acks = @ - 1]
          /\ UNCHANGED <<data, store, load, rresp, port, ready, up, written, reads, writes>>
      BY <1>2, AckTaken
    <2>2. bresp' \in Seq(Ids) /\ Len(bresp') = Len(bresp) - 1 /\ Len(bresp) \in Nat
      BY <2>1
    <2>3. /\ due' \in [beats : Int, left : Int, acks : Int] /\ due'.acks = due.acks - 1
          /\ due'.beats = due.beats /\ due'.left = due.left /\ (LastBeatStored' <=> LastBeatStored)
      BY <2>1 DEF LastBeatStored
    <2>4. TypeOK'
      <3>1. phase' \in 0..6
        BY <2>1
      <3>2. QED
        BY <2>1, <2>2, <2>3, <3>1, Zenon DEF Inv, TypeOK
    <2>5. PortKept' /\ BytesAsWritten' /\ RegistersKept'
      BY <2>1, <2>3 DEF Inv, PortKept, BytesAsWritten, RegistersKept
    <2>6. SidesAgree'
      <3>1. due'.acks = Len(bresp') + (IF LastBeatStored' THEN 1 ELSE 0)
        <4>1. due.acks = Len(bresp) + (IF LastBeatStored THEN 1 ELSE 0)
          BY Zenon DEF Inv, SidesAgree
        <4>2. due.acks = Len(bresp) /\ ~LastBeatStored'
          BY <2>1, <2>2, <2>3, <4>1
        <4>3. due'.acks = Len(bresp')
          BY <2>2, <2>3, <4>2
        <4>4. QED
          BY <2>2, <4>2, <4>3
      <3>2. phase' = 5
        BY <2>1
      <3>3. QED
        BY <2>1, <2>3, <3>1, <3>2 DEF Inv, SidesAgree
    <2>7. QED
      BY <2>4, <2>5, <2>6 DEF Inv
  <1>3. CASE TakeBeat
    <2>1. /\ phase \in 1..5 /\ phase' = 6 /\ load = Idle /\ ~LastBeatStored /\ up
          /\ rresp # <<>> /\ rresp' = Tail(rresp)
          /\ due' = [due EXCEPT !.beats = @ - 1]
          /\ UNCHANGED <<data, store, load, bresp, port, ready, up, written, reads, writes>>
      BY <1>3, BeatTaken
    <2>2. rresp' \in Seq(Responses) /\ Len(rresp') = Len(rresp) - 1 /\ Len(rresp) \in Nat
      BY <2>1
    <2>3. /\ due' \in [beats : Int, left : Int, acks : Int] /\ due'.beats = due.beats - 1
          /\ due'.acks = due.acks /\ due'.left = due.left /\ (LastBeatStored' <=> LastBeatStored)
      BY <2>1 DEF LastBeatStored
    <2>4. TypeOK'
      <3>1. phase' \in 0..6
        BY <2>1
      <3>2. QED
        BY <2>1, <2>2, <2>3, <3>1, Zenon DEF Inv, TypeOK, Responses
    <2>5. PortKept' /\ BytesAsWritten' /\ RegistersKept'
      BY <2>1, <2>3 DEF Inv, PortKept, BytesAsWritten, RegistersKept
    <2>6. SidesAgree'
      BY <2>1, <2>2, <2>3 DEF Inv, SidesAgree
    <2>7. QED
      BY <2>4, <2>5, <2>6 DEF Inv
  <1>4. QED
    BY <1>1, <1>2, <1>3

\* A beat lands where AXI says, and the rest of its burst stays in the memory.
LEMMA BeatStep ==
    ASSUME Inv, NEW v \in Beats, NEW strb \in SUBSET Lanes, WriteBeat(v, strb)
    PROVE  Inv'
  <1> DEFINE base == (store.addr \div word_size) * word_size
  <1>1. /\ store # Idle /\ phase \in 1..3 /\ phase' = 4 /\ ~LastBeatStored /\ load = Idle /\ up
        /\ Stores(v, strb)
        /\ due' = [due EXCEPT !.left = @ - 1, !.acks = IF due.left = 1 THEN @ + 1 ELSE @]
        /\ UNCHANGED <<load, rresp, bresp, port, ready, up, reads, writes>>
    BY BeatSent
  <1>2. store \in Bursts
    BY <1>1 DEF Inv, TypeOK, LastBeatStored
  <1>3. /\ data' = [b \in Addresses |-> IF b - base \in Mask(strb) THEN v[b - base] ELSE data[b]]
        /\ written' = [b \in Addresses |-> IF Carries(strb, b) THEN v[b % word_size] ELSE written[b]]
        /\ store' = [store EXCEPT !.addr = @ + store.size, !.left = @ - 1]
    BY <1>1 DEF Stores
  <1>4. ASSUME NEW b \in Addresses
        PROVE  /\ b - base \in Mask(strb) <=> Carries(strb, b)
               /\ Carries(strb, b) => b - base = b % word_size
               /\ b - base \in Mask(strb) => b - base \in Lanes
    BY <1>2, BytesPlaced
  <1> HIDE DEF base
  <1>5. data' \in [Addresses -> Bytes] /\ data' = written'
    <2>1. data \in [Addresses -> Bytes] /\ data = written
      BY DEF Inv, TypeOK, BytesAsWritten
    <2>2. \A b \in Addresses :
            /\ (IF b - base \in Mask(strb) THEN v[b - base] ELSE data[b]) \in Bytes
            /\ (IF b - base \in Mask(strb) THEN v[b - base] ELSE data[b])
                 = IF Carries(strb, b) THEN v[b % word_size] ELSE written[b]
      BY <1>4, <2>1 DEF Beats
    <2>3. QED
      BY <1>3, <2>2
  <1>6. /\ store' \in [id : Ids, addr : Nat, size : Sizes, left : 0..MaxLen]
        /\ store'.left > 0 => store' \in Bursts
    <2>1. store \in [id : Ids, addr : Nat, size : Sizes, left : 0..MaxLen]
      BY <1>1 DEF Inv, TypeOK
    <2>2. store.size \in Nat /\ store.left \in 1..MaxLen
      BY <1>2, BurstParts
    <2>3. store.addr + store.size \in Nat /\ store.left - 1 \in 0..MaxLen
      BY <2>1, <2>2, MagicAssumption
    <2>4. /\ store' \in [id : Ids, addr : Nat, size : Sizes, left : 0..MaxLen]
          /\ store'.left = store.left - 1
      BY <1>3, <2>1, <2>3
    <2>5. store'.left > 0 => store' \in Bursts
      <3>1. store'.left > 0 => store.left > 1
        BY <2>2, <2>4, MagicAssumption
      <3>2. QED
        BY <1>2, <1>3, <3>1, RestIsBurst
    <2>6. QED
      BY <2>4, <2>5
  <1>7. /\ due' \in [beats : Int, left : Int, acks : Int] /\ due'.beats = due.beats
        /\ due'.left = due.left - 1 /\ due'.acks = IF due.left = 1 THEN due.acks + 1 ELSE due.acks
    <2> DEFINE acks == IF due.left = 1 THEN due.acks + 1 ELSE due.acks
    <2>1. due \in [beats : Int, left : Int, acks : Int]
      BY Zenon DEF Inv, TypeOK
    <2>2. due' = [due EXCEPT !.left = due.left - 1, !.acks = acks]
      BY <1>1
    <2>3. acks \in Int
      BY <2>1
    <2> HIDE DEF acks
    <2>4. /\ due' \in [beats : Int, left : Int, acks : Int]
          /\ due'.beats = due.beats /\ due'.left = due.left - 1 /\ due'.acks = acks
      <3>1. due.left - 1 \in Int
        BY <2>1
      <3>2. QED
        BY <2>1, <2>2, <2>3, <3>1, DueSent, Zenon
    <2>5. QED
      BY <2>4 DEF acks
  <1>8. TypeOK'
    <2>1. written' \in [Addresses -> Bytes] /\ due' \in [beats : Int, left : Int, acks : Int]
      BY <1>5, <1>7
    <2>2. phase' \in 0..6
      BY <1>1
    <2>3. QED
      BY <1>1, <1>5, <1>6, <2>1, <2>2, Zenon DEF Inv, TypeOK
  <1>9. store' # Idle /\ store'.left = store.left - 1 /\ store.left \in Nat \ {0}
    <2>1. store \in [id : Ids, addr : Nat, size : Sizes, left : Nat] /\ store.left \in Nat \ {0}
      <3>1. store.left \in 1..MaxLen /\ store.addr \in Nat /\ store \in [id : Ids, addr : Addresses, size : Sizes, left : 1..MaxLen]
        BY <1>2, BurstParts
      <3>2. QED
        BY <3>1, MagicAssumption
    <2>2. store' \in [id : Ids, addr : Nat, size : Sizes, left : Nat]
      BY <1>6, MagicAssumption
    <2>3. store'.left = store.left - 1
      BY <1>3, <2>1
    <2>4. QED
      BY <2>1, <2>2, <2>3, IdleAssumption
  <1>10. PortKept' /\ BytesAsWritten' /\ RegistersKept'
    BY <1>1, <1>3, <1>5, <1>9 DEF Inv, PortKept, BytesAsWritten, RegistersKept, LastBeatStored
  <1>11. SidesAgree'
    <2>1. Len(bresp) \in Nat /\ (LastBeatStored' <=> store.left = 1)
      BY <1>9 DEF Inv, TypeOK, LastBeatStored
    <2>2. due.left = store.left
      BY <1>1 DEF Inv, SidesAgree
    <2>3. QED
      BY <1>1, <1>7, <1>9, <2>1, <2>2 DEF Inv, SidesAgree
  <1>12. QED
    BY <1>8, <1>10, <1>11 DEF Inv

LEMMA InvNext == Inv /\ [Next]_vars => Inv'
  <1>1. ASSUME Inv, UNCHANGED vars
        PROVE  Inv'
    BY <1>1 DEF Inv, TypeOK, PortKept, BytesAsWritten, RegistersKept, SidesAgree, Port, LastBeatStored, vars
  <1>2. QED
    BY <1>1, ClockStep, AcceptStep, ReadStep, BeatStep, ResponseStep DEF Next

LEMMA Invariance == Spec => []Inv
  BY InvInit, InvNext, PTL DEF Spec

\* The memory's state keeps its types, and a burst under way stays inside the
\* memory: the asserts of mm_t::write and read cannot fail for bursts of AXI.
THEOREM MagicTypeCorrect == Spec => []TypeOK
  <1>1. Inv => TypeOK
    BY DEF Inv
  <1>2. QED
    BY <1>1, Invariance, PTL

\* The array is what the design wrote, byte by byte: mm_t::write's masks and lanes
\* against the rules of AXI, for every bus width, beat size and strobe.
THEOREM BytesAlwaysAsWritten == Spec => []BytesAsWritten
  <1>1. Inv => BytesAsWritten
    BY DEF Inv
  <1>2. QED
    BY <1>1, Invariance, PTL

\* The design, which counts by the registers of SimDRAM.v, and the memory, which counts
\* by its queues, never disagree on the beats and acknowledgements to come or on the beats
\* to be sent: no handshake is seen by one side only, and w_last is where it is asserted.
THEOREM SidesAlwaysAgree == Spec => []SidesAgree
  <1>1. Inv => SidesAgree
    BY DEF Inv
  <1>2. QED
    BY <1>1, Invariance, PTL
-----------------------------------------------------------------------------
(* The refinement.                                                          *)

BurstRecord(q) == [id |-> q.id, addr |-> q.addr \div word_size, left |-> q.left]

\* A burst under way is a burst of AxiMemory.
LEMMA StoringBurst ==
    ASSUME store \in Bursts
    PROVE  /\ store # Idle /\ ~LastBeatStored
           /\ Storing = BurstRecord(store) /\ Storing # Idle
           /\ store.addr \div word_size \in 0..(NumWords - 1)
  <1>1. store # Idle
    BY BurstParts
  <1>2. store.id \in Ids /\ store.addr \in Nat /\ store.left \in 1..MaxLen
        /\ (store.addr \div word_size) + store.left <= NumWords
    BY BurstParts
  <1>3. store.left \in Nat \ {0}
    BY <1>2, MagicAssumption
  <1>4. store.addr \div word_size \in Nat
    BY <1>2, Division
  <1>5. BurstRecord(store) \in [id : Ids, addr : Nat, left : Nat]
    BY <1>2, <1>3, <1>4 DEF BurstRecord
  <1>6. ~LastBeatStored
    BY <1>3 DEF LastBeatStored
  <1>7. Storing = BurstRecord(store)
    BY <1>1, <1>6 DEF Storing, BurstRecord
  <1>8. store.addr \div word_size \in 0..(NumWords - 1)
    BY <1>2, <1>3, <1>4, MagicAssumption
  <1>9. QED
    BY <1>1, <1>5, <1>6, <1>7, <1>8, IdleAssumption

LEMMA InitRefines == Init => Axi!Init
  <1> SUFFICES ASSUME Init
               PROVE  Axi!Init
    OBVIOUS
  <1>1. Memory \in [0..(NumWords - 1) -> Beats]
    <2>1. ASSUME NEW w \in 0..(NumWords - 1), NEW l \in Lanes
          PROVE  data[(w * word_size) + l] \in Bytes
      <3>1. w * word_size = word_size * w
        BY <2>1, MagicAssumption
      <3>2. (w * word_size) + l \in Addresses
        BY <3>1, InMemory
      <3>3. QED
        BY <3>2 DEF Init
    <2>2. QED
      BY <2>1 DEF Memory, Word, Beats
  <1>2. store = Idle /\ load = Idle /\ ~LastBeatStored /\ rresp = <<>> /\ bresp = <<>>
    BY DEF Init, LastBeatStored
  <1>3. Waiting = [id \in Ids |-> <<>>]
    BY <1>2 DEF Waiting
  <1>4. Storing = Idle /\ Unacked = [id \in Ids |-> 0]
    BY <1>2 DEF Storing, Unacked
  <1>5. QED
    BY <1>1, <1>2, <1>3, <1>4 DEF Axi!Init

\* A burst begins.
LEMMA AcceptRefines ==
    ASSUME Inv, NEW q \in Bursts, AcceptRead(q) \/ AcceptWrite(q)
    PROVE  Axi!Next
  <1> DEFINE d == q.addr \div word_size
  <1>1. /\ q # Idle /\ q.id \in Ids /\ q.left \in 1..MaxLen /\ q.left \in Nat \ {0}
        /\ d \in 0..(NumWords - 1)
    <2>1. q.id \in Ids /\ q.addr \in Nat /\ q.left \in 1..MaxLen
          /\ (q.addr \div word_size) + q.left <= NumWords
      BY BurstParts
    <2>2. d \in Nat
      BY <2>1, Division
    <2>3. QED
      BY <2>1, <2>2, BurstParts, MagicAssumption
  <1> HIDE DEF d
  <1>2. CASE AcceptRead(q)
    <2>1. load = Idle /\ load' = q /\ UNCHANGED <<data, store, rresp, bresp>>
      BY <1>2, ReadAccepted
    <2>2. UNCHANGED <<Memory, Storing, Unacked>>
      BY <2>1 DEF Memory, Word, Storing, Unacked, LastBeatStored
    <2>3. Waiting' = [Waiting EXCEPT ![q.id] = Append(@, [id |-> q.id, addr |-> d, len |-> q.left])]
      <3>1. Waiting = [id \in Ids |-> <<>>]
        BY <2>1 DEF Waiting
      <3>2. Waiting' = [id \in Ids |-> IF q.id = id THEN <<[id |-> id, addr |-> d, len |-> q.left]>> ELSE <<>>]
        BY <1>1, <2>1 DEF Waiting, d
      <3>3. Append(<<>>, [id |-> q.id, addr |-> d, len |-> q.left]) = <<[id |-> q.id, addr |-> d, len |-> q.left]>>
        OBVIOUS
      <3>4. QED
        BY <1>1, <3>1, <3>2, <3>3
    <2>4. Axi!AcceptRead(q.id, d, q.left)
      BY <2>1, <2>2, <2>3 DEF Axi!AcceptRead
    <2>5. QED
      BY <1>1, <2>4 DEF Axi!Next
  <1>3. CASE AcceptWrite(q)
    <2>1. /\ store = Idle /\ ~LastBeatStored /\ store' = q
          /\ UNCHANGED <<data, load, rresp, bresp>>
      BY <1>3, WriteAccepted DEF LastBeatStored
    <2>2. UNCHANGED <<Memory, Waiting>>
      BY <2>1 DEF Memory, Word, Waiting
    <2>3. Storing = Idle
      BY <2>1 DEF Storing
    <2>4. ~LastBeatStored' /\ Storing' = [id |-> q.id, addr |-> d, left |-> q.left]
      BY <1>1, <2>1 DEF LastBeatStored, Storing, d
    <2>5. Unacked' = Unacked
      BY <2>1, <2>4 DEF Unacked
    <2>6. Axi!AcceptWrite(q.id, d, q.left)
      BY <2>1, <2>2, <2>3, <2>4, <2>5 DEF Axi!AcceptWrite
    <2>7. QED
      BY <1>1, <2>6 DEF Axi!Next
  <1>4. QED
    BY <1>2, <1>3

\* A read is answered with the words of the memory.
LEMMA ReadRefines ==
    ASSUME Inv, Read
    PROVE  Axi!Next
  <1> DEFINE d     == load.addr \div word_size
             req   == [id |-> load.id, addr |-> d, len |-> load.left]
             start == d * word_size
  <1>1. load \in Bursts /\ load # Idle
    BY DEF Inv, TypeOK, Read
  <1>2. load.id \in Ids /\ load.left \in 1..MaxLen /\ d \in Nat /\ d + load.left <= NumWords
    BY <1>1, BurstParts, Division
  <1>3. /\ rresp' = rresp \o [k \in 1..load.left |->
                       [id |-> load.id, last |-> k = load.left,
                        data |-> [l \in Lanes |-> data[start + ((k - 1) * word_size) + l]]]]
        /\ load' = Idle
        /\ UNCHANGED <<data, store, bresp>>
    BY DEF Read
  <1>4. ASSUME NEW k \in 1..load.left
        PROVE  Memory[d + k - 1] = [l \in Lanes |-> data[start + ((k - 1) * word_size) + l]]
    <2>1. load.left \in Nat /\ k \in Nat /\ k - 1 \in Nat /\ k <= load.left
      BY <1>2, MagicAssumption
    <2>2. d + k - 1 \in 0..(NumWords - 1)
      BY <1>2, <2>1, MagicAssumption
    <2>3. (d + k - 1) * word_size = start + ((k - 1) * word_size)
      <3>1. word_size \in Int /\ k - 1 \in Int
        BY <2>1, MagicAssumption
      <3> HIDE DEF d
      <3>2. (d + k - 1) * word_size = (d * word_size) + ((k - 1) * word_size)
        BY <1>2, <2>1, <3>1
      <3>3. QED
        BY <3>2
    <2>4. Memory[d + k - 1] = [l \in Lanes |-> data[((d + k - 1) * word_size) + l]]
      BY <2>2 DEF Memory, Word
    <2>5. QED
      BY <2>3, <2>4
  <1> HIDE DEF start, d
  <1>5. [k \in 1..load.left |->
           [id |-> load.id, last |-> k = load.left,
            data |-> [l \in Lanes |-> data[start + ((k - 1) * word_size) + l]]]]
        = [k \in 1..load.left |-> [id |-> load.id, data |-> Memory[d + k - 1], last |-> k = load.left]]
    BY <1>4
  <1>6. Waiting[load.id] = <<req>>
    BY <1>1, <1>2 DEF Waiting, d
  <1>7. Waiting' = [Waiting EXCEPT ![load.id] = Tail(@)]
    <2>1. Waiting = [id \in Ids |-> IF load.id = id THEN <<[id |-> id, addr |-> d, len |-> load.left]>> ELSE <<>>]
      BY <1>1 DEF Waiting, d
    <2>2. Waiting' = [id \in Ids |-> <<>>]
      BY <1>3 DEF Waiting
    <2>3. Tail(<<req>>) = <<>>
      OBVIOUS
    <2>4. QED
      BY <1>2, <1>6, <2>1, <2>2, <2>3
  <1>8. UNCHANGED <<Memory, Storing, Unacked>>
    BY <1>3 DEF Memory, Word, Storing, Unacked, LastBeatStored
  <1>9. Axi!AnswerRead(load.id)
    <2>1. Waiting[load.id] # <<>> /\ Head(Waiting[load.id]) = req
      BY <1>6
    <2>2. req.addr = d /\ req.len = load.left
      OBVIOUS
    <2> HIDE DEF req
    <2>3. QED
      BY <1>3, <1>5, <1>7, <1>8, <2>1, <2>2 DEF Axi!AnswerRead
  <1>10. QED
    BY <1>2, <1>9 DEF Axi!Next

\* The next beat of a burst is for the next word.
LEMMA NextWord ==
    ASSUME NEW q \in Bursts, q.left > 1
    PROVE  (q.addr + q.size) \div word_size = (q.addr \div word_size) + 1
  <1> DEFINE d == q.addr \div word_size
  <1>1. q.size = word_size /\ q.addr \in Nat /\ q.addr % word_size = 0
    BY BurstParts, MagicAssumption
  <1>2. d \in Nat /\ q.addr = word_size * d + 0 /\ word_size \in Nat
    BY <1>1, Division, MagicAssumption
  <1> HIDE DEF d
  <1>3. q.addr + q.size = word_size * (d + 1) + 0
    <2>1. word_size * (d + 1) = word_size * d + word_size
      BY <1>2, NextMultiple
    <2>2. word_size * d \in Nat
      BY <1>2
    <2>3. QED
      BY <1>1, <1>2, <2>1, <2>2
  <1>4. 0 \in Lanes /\ d + 1 \in Nat
    BY <1>2, MagicAssumption DEF Lanes
  <1>5. QED
    BY <1>3, <1>4, LaneUnique DEF d

\* A beat changes the word it is for and no other.
LEMMA OneWordStored ==
    ASSUME Inv, store \in Bursts,
           NEW v \in Beats, NEW strb \in SUBSET Lanes, WriteBeat(v, strb)
    PROVE  \E beat \in Beats : Memory' = [Memory EXCEPT ![store.addr \div word_size] = beat]
  <1> DEFINE d    == store.addr \div word_size
             base == d * word_size
  <1>1. data' = [b \in Addresses |-> IF b - base \in Mask(strb) THEN v[b - base] ELSE data[b]]
    BY BeatSent DEF Stores
  <1>2. d \in 0..(NumWords - 1) /\ d \in Nat
    BY StoringBurst, MagicAssumption
  <1>3. ASSUME NEW b \in Addresses
        PROVE  b - base \in Mask(strb) => b - base \in Lanes
    BY BytesPlaced
  <1>4. data' \in [Addresses -> Bytes]
    BY BeatStep DEF Inv, TypeOK
  <1> HIDE DEF d
  <1>5. base = word_size * d /\ base \in Nat
    BY <1>2, MagicAssumption
  <1> HIDE DEF base
  <1>6. ASSUME NEW w \in 0..(NumWords - 1), NEW l \in Lanes
        PROVE  (w * word_size) + l = word_size * w + l /\ (w * word_size) + l \in Addresses
    <2>1. w * word_size = word_size * w
      BY <1>6, MagicAssumption
    <2>2. QED
      BY <2>1, InMemory
  <1> DEFINE beat == [l \in Lanes |-> data'[(d * word_size) + l]]
  <1>7. beat \in Beats
    BY <1>2, <1>4, <1>6 DEF Beats
  <1>8. ASSUME NEW w \in 0..(NumWords - 1), w # d, NEW l \in Lanes
        PROVE  data'[(w * word_size) + l] = data[(w * word_size) + l]
    <2> DEFINE b == (w * word_size) + l
    <2>1. b \in Addresses /\ b = word_size * w + l /\ b \in Int
      BY <1>6, <1>8 DEF Addresses
    <2> HIDE DEF b
    <2>2. b \div word_size = w
      BY <2>1, <1>8, LaneUnique
    <2>3. b - base \notin Lanes
      <3>1. SUFFICES ASSUME b - base \in Lanes
                     PROVE  FALSE
        OBVIOUS
      <3>2. b = word_size * d + (b - base)
        BY <1>5, <2>1
      <3>3. (word_size * d + (b - base)) \div word_size = d
        BY <1>2, <3>1, LaneUnique
      <3>4. QED
        BY <1>8, <2>2, <3>2, <3>3
    <2>4. b - base \notin Mask(strb)
      BY <1>3, <2>1, <2>3
    <2>5. data'[b] = data[b]
      BY <1>1, <2>1, <2>4
    <2>6. QED
      BY <2>5 DEF b
  <1>9. Memory' = [w \in 0..(NumWords - 1) |-> [l \in Lanes |-> data'[(w * word_size) + l]]]
    BY DEF Memory, Word
  <1>10. Memory = [w \in 0..(NumWords - 1) |-> [l \in Lanes |-> data[(w * word_size) + l]]]
    BY DEF Memory, Word
  <1>11. Memory' = [Memory EXCEPT ![d] = beat]
    <2>1. \A w \in 0..(NumWords - 1) :
            [l \in Lanes |-> data'[(w * word_size) + l]]
              = IF w = d THEN beat ELSE [l \in Lanes |-> data[(w * word_size) + l]]
      BY <1>8
    <2>2. QED
      BY <1>2, <1>9, <1>10, <2>1
  <1>12. QED
    BY <1>7, <1>11 DEF d

\* A beat of a write is stored, and the last one leaves the burst to be acknowledged.
LEMMA BeatRefines ==
    ASSUME Inv, NEW v \in Beats, NEW strb \in SUBSET Lanes, WriteBeat(v, strb)
    PROVE  Axi!Next
  <1> DEFINE d == store.addr \div word_size
  <1>1. store \in Bursts
    BY BeatSent DEF Inv, TypeOK, LastBeatStored
  <1>2. /\ store # Idle /\ ~LastBeatStored /\ Storing # Idle
        /\ Storing = [id |-> store.id, addr |-> d, left |-> store.left]
    BY <1>1, StoringBurst DEF BurstRecord
  <1>3. PICK beat \in Beats : Memory' = [Memory EXCEPT ![d] = beat]
    BY <1>1, OneWordStored
  <1>4. /\ store.id \in Ids /\ store.left \in 1..MaxLen /\ store.addr \in Nat
        /\ store.size \in Nat \ {0}
    BY <1>1, BurstParts
  <1>5. /\ store'.id = store.id /\ store'.addr = store.addr + store.size
        /\ store'.left = store.left - 1 /\ store'.size = store.size
        /\ store' \in [id : Ids, addr : Nat, size : Sizes, left : Nat] /\ store' # Idle
    <2>1. store' = [store EXCEPT !.addr = @ + store.size, !.left = @ - 1]
      BY BeatSent DEF Stores
    <2>2. store \in [id : Ids, addr : Addresses, size : Sizes, left : 1..MaxLen]
      BY <1>1, BurstParts
    <2>3. store.addr + store.size \in Nat /\ store.left - 1 \in Nat
      BY <1>4, MagicAssumption
    <2>4. store' \in [id : Ids, addr : Nat, size : Sizes, left : Nat]
      BY <2>1, <2>2, <2>3
    <2>5. QED
      BY <2>1, <2>2, <2>4, IdleAssumption
  <1>6. UNCHANGED <<load, rresp, bresp>>
    BY BeatSent
  <1>7. UNCHANGED Waiting
    BY <1>6 DEF Waiting
  <1>8. Unacked = [id \in Ids |-> 0]
    BY <1>2 DEF Unacked
  <1>9. Storing.addr = d /\ Storing.left = store.left /\ Storing.id = store.id
    BY <1>2
  <1>10. CASE store.left = 1
    <2>2. LastBeatStored'
      BY <1>5, <1>10 DEF LastBeatStored
    <2>3. Storing' = Idle
      BY <2>2 DEF Storing
    <2>4. Unacked' = [Unacked EXCEPT ![store.id] = @ + 1]
      <3>1. Unacked' = [id \in Ids |-> IF store.id = id THEN 1 ELSE 0]
        BY <1>5, <2>2 DEF Unacked
      <3>2. QED
        BY <1>4, <1>8, <3>1
    <2>5. Axi!WriteBeat(beat)
      BY <1>2, <1>3, <1>6, <1>7, <1>9, <1>10, <2>3, <2>4 DEF Axi!WriteBeat
    <2>6. QED
      BY <2>5 DEF Axi!Next
  <1>11. CASE store.left # 1
    <2>1. store.left > 1 /\ store.left \in Nat
      BY <1>4, <1>11, MagicAssumption
    <2>2. store' \in Bursts
      BY <1>1, <2>1, BeatSent, RestIsBurst DEF Stores
    <2>3. store'.addr \div word_size = d + 1
      BY <1>1, <1>5, <2>1, NextWord
    <2>4. store' # Idle /\ ~LastBeatStored'
      BY <1>5, <2>1 DEF LastBeatStored
    <2>5. Storing' = [id |-> store.id, addr |-> d + 1, left |-> store.left - 1]
      <3>1. Storing' = [id |-> store'.id, addr |-> store'.addr \div word_size, left |-> store'.left]
        BY <2>4 DEF Storing
      <3>2. QED
        BY <1>5, <2>3, <3>1
    <2>6. Storing' = [Storing EXCEPT !.addr = @ + 1, !.left = @ - 1]
      <3> DEFINE next == [Storing EXCEPT !.addr = @ + 1, !.left = @ - 1]
      <3>1. d \in Nat /\ d + 1 \in Nat /\ store.left - 1 \in Nat
        BY <1>4, <2>1, Division
      <3>2. Storing \in [id : Ids, addr : Nat, left : Nat]
        BY <1>2, <1>4, <2>1, <3>1
      <3>3. /\ next \in [id : Ids, addr : Nat, left : Nat]
            /\ next.id = store.id /\ next.addr = d + 1 /\ next.left = store.left - 1
        <4> HIDE DEF d
        <4>1. QED
          BY <1>9, <3>1, <3>2
      <3>4. /\ Storing' \in [id : Ids, addr : Nat, left : Nat]
            /\ Storing'.id = store.id /\ Storing'.addr = d + 1 /\ Storing'.left = store.left - 1
        <4> HIDE DEF d
        <4>1. QED
          BY <1>4, <2>5, <3>1
      <3> HIDE DEF next, d
      <3>5. Storing' = next
        BY <3>3, <3>4
      <3>6. QED
        BY <3>5 DEF next
    <2>7. UNCHANGED Unacked
      BY <1>8, <2>4 DEF Unacked
    <2>8. Axi!WriteBeat(beat)
      BY <1>2, <1>3, <1>6, <1>7, <1>9, <1>11, <2>6, <2>7 DEF Axi!WriteBeat
    <2>9. QED
      BY <2>8 DEF Axi!Next
  <1>12. QED
    BY <1>10, <1>11

\* The acknowledgement, and what the design takes.
LEMMA ResponseRefines ==
    ASSUME Inv, EndWrite \/ TakeAck \/ TakeBeat
    PROVE  Axi!Next
  <1>1. CASE EndWrite
    <2>1. /\ store.id \in Ids /\ LastBeatStored /\ store' = Idle
          /\ bresp' = Append(bresp, store.id) /\ UNCHANGED <<data, load, rresp>>
      BY <1>1 DEF Inv, TypeOK, EndWrite, LastBeatStored
    <2>2. ~LastBeatStored'
      BY <2>1 DEF LastBeatStored
    <2>3. UNCHANGED <<Memory, Waiting, Storing>>
      BY <2>1 DEF Memory, Word, Waiting, Storing
    <2>4. Unacked = [id \in Ids |-> IF store.id = id THEN 1 ELSE 0]
      BY <2>1 DEF Unacked
    <2>5. Unacked' = [id \in Ids |-> 0]
      BY <2>2 DEF Unacked
    <2>6. Axi!Acknowledge(store.id)
      <3>1. Unacked[store.id] = 1 /\ Unacked' = [Unacked EXCEPT ![store.id] = @ - 1]
        BY <2>1, <2>4, <2>5
      <3>2. QED
        BY <2>1, <2>3, <3>1 DEF Axi!Acknowledge
    <2>7. QED
      BY <2>1, <2>6 DEF Axi!Next
  <1>2. CASE TakeAck
    <2>1. bresp # <<>> /\ bresp' = Tail(bresp) /\ UNCHANGED <<data, store, load, rresp>>
      BY <1>2, AckTaken
    <2>2. UNCHANGED <<Memory, Waiting, Storing, Unacked>>
      BY <2>1 DEF Memory, Word, Waiting, Storing, Unacked, LastBeatStored
    <2>3. QED
      BY <2>1, <2>2 DEF Axi!TakeAck, Axi!Next
  <1>3. CASE TakeBeat
    <2>1. rresp # <<>> /\ rresp' = Tail(rresp) /\ UNCHANGED <<data, store, load, bresp>>
      BY <1>3, BeatTaken
    <2>2. UNCHANGED <<Memory, Waiting, Storing, Unacked>>
      BY <2>1 DEF Memory, Word, Waiting, Storing, Unacked, LastBeatStored
    <2>3. QED
      BY <2>1, <2>2 DEF Axi!TakeBeat, Axi!Next
  <1>4. QED
    BY <1>1, <1>2, <1>3

LEMMA StepRefines ==
    ASSUME Inv, [Next]_vars
    PROVE  [Axi!Next]_(Axi!axi)
  <1>1. CASE Tick \/ EndTick \/ UNCHANGED vars
    <2>1. UNCHANGED <<data, store, load, rresp, bresp>>
      BY <1>1 DEF Tick, EndTick, vars
    <2>2. UNCHANGED <<Memory, Waiting, Storing, Unacked>>
      BY <2>1 DEF Memory, Word, Waiting, Storing, Unacked, LastBeatStored
    <2>3. QED
      BY <2>1, <2>2 DEF Axi!axi
  <1>2. QED
    BY <1>1, AcceptRefines, ReadRefines, BeatRefines, ResponseRefines DEF Next

\* The design may treat the memory without +dramsim as one that reads a burst at one
\* instant, answers reads in order and acknowledges a write once it is in memory,
\* although mm_magic_t::tick stores and reads byte by byte and defers the answers.
THEOREM MagicRefinement == Spec => ImplementsAxiMemory
  <1>1. Init /\ [][Next]_vars /\ []Inv => Axi!Init /\ [][Axi!Next]_(Axi!axi)
    BY InitRefines, StepRefines, PTL
  <1>2. QED
    BY <1>1, Invariance, PTL DEF Spec, ImplementsAxiMemory, Axi!Spec
=============================================================================
