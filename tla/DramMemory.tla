----------------------------- MODULE DramMemory -----------------------------
(***************************************************************************)
(* gen-collateral/mm_dramsim2.cc: the memory behind the design's AXI port   *)
(* in the smoke simulation (+dramsim), one call of tick() per clock.        *)
(*                                                                          *)
(* A tick samples what the port can accept, hands one queued read to the    *)
(* DRAM timing model, serves the port's channels in the order of the code,  *)
(* and lets the timing model complete transactions through callbacks.  The  *)
(* phase is the position in the tick; a channel may only be served before   *)
(* the later ones.  The timing model itself (DRAMSim2) is external: it      *)
(* accepts while it has room and completes what it was given in any order.  *)
(* Data is not in it: reads and writes go to the backing array.             *)
(*                                                                          *)
(* Left out: bytes and strobes (an address is a word, every beat a full     *)
(* one), the cycle counter, and the reset branch: SimDRAM.v does not call   *)
(* the memory while reset is asserted.                                      *)
(***************************************************************************)
EXTENDS Naturals, Sequences, FiniteSetsExt, SequencesExt

CONSTANTS
    Ids,        \* AXI ids
    Words,      \* word addresses, from 0
    Values,     \* what a word can hold
    Loaded,     \* the contents the array may have before the first tick
    MaxLen,     \* longest burst
    Depth,      \* transactions the timing model accepts
    MaxReads,   \* bound on the reads of a behaviour
    MaxWrites,  \* bound on its writes
    MaxRequests, \* bound on both together
    Idle        \* no burst is being stored

ASSUME DramAssumption ==
    /\ IsFiniteSet(Words)
    /\ Words = 0..(Cardinality(Words) - 1)
    /\ Loaded \subseteq [Words -> Values]
    /\ MaxLen \in Nat \ {0} /\ Depth \in Nat \ {0}
    /\ MaxReads \in Nat /\ MaxWrites \in Nat

\* A write transaction is filed under the address after its last beat.
Addresses == 0..Cardinality(Words)

\* A burst does not run past the memory (the asserts of mm_t::read and write).
Fits(addr, len) == addr + len <= Cardinality(Words)

Requests == {req \in [id : Ids, addr : Words, len : 1..MaxLen] : Fits(req.addr, req.len)}

VARIABLES
    mem,           \* the backing array
    rreq_queue,    \* reads accepted and not handed to the timing model
    read_id_busy,  \* per id: is one of its reads in the timing model?
    rreq,          \* per address: the reads in the timing model
    wreq,          \* per address: the ids of the writes in the timing model
    store,         \* the burst being stored [id, addr, left], or Idle
    rresp,         \* beats for the design
    bresp,         \* acknowledgements for the design
    dram,          \* the timing model: how many transactions of each kind and address
    phase,         \* position in the tick, 0 between ticks
    ready,         \* what the port could accept when the tick began
    reads,         \* reads so far (bound)
    writes         \* writes so far (bound)

queues == <<rreq_queue, read_id_busy, rreq, wreq>>
port   == <<rresp, bresp>>
vars   == <<mem, queues, store, port, dram, phase, ready, reads, writes>>

Outstanding == SumFunction(dram)

willAcceptTransaction == Outstanding < Depth

NothingReady == [ar |-> FALSE, aw |-> FALSE, w |-> FALSE, r |-> FALSE, b |-> FALSE]

Init ==
    /\ mem \in Loaded
    /\ rreq_queue = <<>>
    /\ read_id_busy = [id \in Ids |-> FALSE]
    /\ rreq = [a \in Addresses |-> <<>>]
    /\ wreq = [a \in Addresses |-> <<>>]
    /\ store = Idle
    /\ rresp = <<>>
    /\ bresp = <<>>
    /\ dram = [t \in {"read", "write"} \X Addresses |-> 0]
    /\ phase = 0
    /\ ready = NothingReady
    /\ reads = 0
    /\ writes = 0

\* Channels are served in the order 1 to 5, then the callbacks.
Serve(n) ==
    /\ phase \in 1..n
    /\ phase' = n + 1
-----------------------------------------------------------------------------
(* The start of a tick.                                                     *)

\* Fault: the head of the queue is issued, busy or not.
AnyId == {i \in DOMAIN rreq_queue : i = 1}

\* The queued reads whose id has none in the timing model.
Issuable == {i \in DOMAIN rreq_queue : ~read_id_busy[rreq_queue[i].id]}

PortReady ==
    [ar |-> willAcceptTransaction, aw |-> willAcceptTransaction /\ store = Idle,
     w |-> store # Idle, r |-> rresp # <<>>, b |-> bresp # <<>>]

\* What fires is decided first; then one read goes to the timing model, if there is room.
Tick ==
    /\ phase = 0
    /\ phase' = 1
    /\ ready' = PortReady
    /\ IF willAcceptTransaction /\ Issuable # {}
       THEN LET i == Min(Issuable)
                req == rreq_queue[i]
            IN /\ read_id_busy' = [read_id_busy EXCEPT ![req.id] = TRUE]
               /\ rreq' = [rreq EXCEPT ![req.addr] = Append(@, req)]
               /\ dram' = [dram EXCEPT ![<<"read", req.addr>>] = @ + 1]
               /\ rreq_queue' = RemoveAt(rreq_queue, i)
       ELSE UNCHANGED <<read_id_busy, rreq, dram, rreq_queue>>
    /\ UNCHANGED <<mem, wreq, store, port, reads, writes>>
-----------------------------------------------------------------------------
(* The channels.                                                            *)

AcceptRead(id, addr, len) ==
    /\ Serve(1)
    /\ ready.ar
    /\ reads < MaxReads /\ reads + writes < MaxRequests /\ Fits(addr, len)
    /\ reads' = reads + 1
    /\ rreq_queue' = Append(rreq_queue, [id |-> id, addr |-> addr, len |-> len])
    /\ UNCHANGED <<mem, read_id_busy, rreq, wreq, store, port, dram, ready, writes>>

AcceptWrite(id, addr, len) ==
    /\ Serve(2)
    /\ ready.aw
    /\ writes < MaxWrites /\ reads + writes < MaxRequests /\ Fits(addr, len)
    /\ writes' = writes + 1
    /\ store' = [id |-> id, addr |-> addr, left |-> len]
    /\ UNCHANGED <<mem, queues, port, dram, ready, reads>>

\* Fault: the transaction is filed under the burst's last word, not after it.
WriteFiledEarly(v) ==
    /\ Serve(3)
    /\ ready.w
    /\ mem' = [mem EXCEPT ![store.addr] = v]
    /\ IF store.left = 1
       THEN /\ store' = Idle
            /\ dram' = [dram EXCEPT ![<<"write", store.addr + 1>>] = @ + 1]
            /\ wreq' = [wreq EXCEPT ![store.addr] = Append(@, store.id)]
       ELSE /\ store' = [store EXCEPT !.addr = @ + 1, !.left = @ - 1]
            /\ UNCHANGED <<dram, wreq>>
    /\ UNCHANGED <<rreq_queue, read_id_busy, rreq, port, ready, reads, writes>>

\* Fault: the transaction is lost if the timing model has filled up meanwhile.
WriteLostWhenFull(v) ==
    /\ Serve(3)
    /\ ready.w
    /\ mem' = [mem EXCEPT ![store.addr] = v]
    /\ IF store.left = 1
       THEN /\ store' = Idle
            /\ dram' = [dram EXCEPT ![<<"write", store.addr + 1>>] = @ + (IF willAcceptTransaction THEN 1 ELSE 0)]
            /\ wreq' = [wreq EXCEPT ![store.addr + 1] = Append(@, store.id)]
       ELSE /\ store' = [store EXCEPT !.addr = @ + 1, !.left = @ - 1]
            /\ UNCHANGED <<dram, wreq>>
    /\ UNCHANGED <<rreq_queue, read_id_busy, rreq, port, ready, reads, writes>>

\* A beat goes to the array at once; the last one starts the transaction, whose
\* room the port checked when it accepted the address.
WriteBeat(v) ==
    /\ Serve(3)
    /\ ready.w
    /\ mem' = [mem EXCEPT ![store.addr] = v]
    /\ IF store.left = 1
       THEN /\ store' = Idle
            /\ dram' = [dram EXCEPT ![<<"write", store.addr + 1>>] = @ + 1]
            /\ wreq' = [wreq EXCEPT ![store.addr + 1] = Append(@, store.id)]
       ELSE /\ store' = [store EXCEPT !.addr = @ + 1, !.left = @ - 1]
            /\ UNCHANGED <<dram, wreq>>
    /\ UNCHANGED <<rreq_queue, read_id_busy, rreq, port, ready, reads, writes>>

TakeAck ==
    /\ Serve(4)
    /\ ready.b
    /\ bresp' = Tail(bresp)
    /\ UNCHANGED <<mem, queues, store, rresp, dram, ready, reads, writes>>

TakeBeat ==
    /\ Serve(5)
    /\ ready.r
    /\ rresp' = Tail(rresp)
    /\ UNCHANGED <<mem, queues, store, bresp, dram, ready, reads, writes>>
-----------------------------------------------------------------------------
(* mem->update() and its callbacks.                                         *)

Beats(req) ==
    [k \in 1..req.len |-> [id |-> req.id, data |-> mem[req.addr + k - 1], last |-> k = req.len]]

Complete(kind, addr) ==
    /\ phase \in 1..6
    /\ phase' = 6
    /\ dram[<<kind, addr>>] > 0
    /\ dram' = [dram EXCEPT ![<<kind, addr>>] = @ - 1]

\* Fault: the id stays busy.
ReadStaysBusy(addr) ==
    /\ Complete("read", addr)
    /\ rresp' = rresp \o Beats(Head(rreq[addr]))
    /\ rreq' = [rreq EXCEPT ![addr] = Tail(@)]
    /\ UNCHANGED <<mem, rreq_queue, read_id_busy, wreq, store, bresp, ready, reads, writes>>

read_complete(addr) ==
    /\ Complete("read", addr)
    /\ LET req == Head(rreq[addr])
       IN /\ rresp' = rresp \o Beats(req)
          /\ read_id_busy' = [read_id_busy EXCEPT ![req.id] = FALSE]
    /\ rreq' = [rreq EXCEPT ![addr] = Tail(@)]
    /\ UNCHANGED <<mem, rreq_queue, wreq, store, bresp, ready, reads, writes>>

write_complete(addr) ==
    /\ Complete("write", addr)
    /\ bresp' = Append(bresp, Head(wreq[addr]))
    /\ wreq' = [wreq EXCEPT ![addr] = Tail(@)]
    /\ UNCHANGED <<mem, rreq_queue, read_id_busy, rreq, store, rresp, ready, reads, writes>>

EndTick ==
    /\ phase > 0
    /\ phase' = 0
    /\ ready' = NothingReady
    /\ UNCHANGED <<mem, queues, store, port, dram, reads, writes>>

Next ==
    \/ Tick
    \/ \E id \in Ids, addr \in Words, len \in 1..MaxLen :
        AcceptRead(id, addr, len) \/ AcceptWrite(id, addr, len)
    \/ \E v \in Values : WriteBeat(v)
    \/ TakeAck
    \/ TakeBeat
    \/ \E addr \in Addresses : read_complete(addr) \/ write_complete(addr)
    \/ EndTick

Spec == Init /\ [][Next]_vars

\* The clock runs, the timing model completes something again and again while it
\* has transactions (it is given finitely many), and the design sends the beats of
\* its writes and takes what it is offered.
Fairness ==
    /\ WF_vars(Tick)
    /\ WF_vars(EndTick)
    /\ SF_vars(\E addr \in Addresses : read_complete(addr) \/ write_complete(addr))
    /\ SF_vars(\E v \in Values : WriteBeat(v))
    /\ SF_vars(TakeAck)
    /\ SF_vars(TakeBeat)

FairSpec == Spec /\ Fairness
-----------------------------------------------------------------------------
(* Properties.                                                              *)

\* The types of the memory's state; no burst under way runs past the memory.
TypeOK ==
    /\ mem \in [Words -> Values]
    /\ rreq_queue \in Seq(Requests)
    /\ read_id_busy \in [Ids -> BOOLEAN]
    /\ rreq \in [Addresses -> Seq(Requests)]
    /\ wreq \in [Addresses -> Seq(Ids)]
    /\ store # Idle => /\ store \in [id : Ids, addr : Words, left : 1..MaxLen]
                       /\ Fits(store.addr, store.left)
    /\ rresp \in Seq([id : Ids, data : Values, last : BOOLEAN])
    /\ bresp \in Seq(Ids)
    /\ dram \in [{"read", "write"} \X Addresses -> Nat]
    /\ phase \in 0..6
    /\ ready \in [ar : BOOLEAN, aw : BOOLEAN, w : BOOLEAN, r : BOOLEAN, b : BOOLEAN]
    /\ reads \in 0..MaxReads /\ writes \in 0..MaxWrites

\* A callback always finds its request: the timing model has as many reads and
\* writes of an address as are filed under it, although a write is filed under an
\* address that moved with its beats (the asserts of read_complete and
\* write_complete).
CallbacksFindRequests ==
    \A a \in Addresses : /\ dram[<<"read", a>>] = Len(rreq[a])
                         /\ dram[<<"write", a>>] = Len(wreq[a])

\* What the port decided at the start of the tick is still possible when the
\* channel is served.
PortKept ==
    /\ ~(ready.aw /\ ready.w)
    /\ phase \in 1..2 /\ ready.aw => store = Idle
    /\ phase \in 1..3 /\ ready.w => store # Idle
    /\ phase \in 1..4 /\ ready.b => bresp # <<>>
    /\ phase \in 1..5 /\ ready.r => rresp # <<>>

\* The reads of an id that are in the timing model.
Issued(id) ==
    {p \in UNION {{a} \X DOMAIN rreq[a] : a \in Addresses} : rreq[p[1]][p[2]].id = id}

\* read_id_busy is exactly "one read of this id is in the timing model": no id
\* ever has two there, which could come back in either order, and none is held
\* back when it has none.
BusyMeansIssued ==
    \A id \in Ids : Cardinality(Issued(id)) = IF read_id_busy[id] THEN 1 ELSE 0

\* The same in terms of the filed reads: two are of two ids, and the busy ids are theirs.
IssuedOnce ==
    /\ \A a, b \in Addresses : \A i \in DOMAIN rreq[a], j \in DOMAIN rreq[b] :
          rreq[a][i].id = rreq[b][j].id => a = b /\ i = j
    /\ \A id \in Ids : read_id_busy[id] <=> \E a \in Addresses : \E i \in DOMAIN rreq[a] : rreq[a][i].id = id

\* The inductive invariant behind CallbacksFindRequests and BusyMeansIssued.
Inv == TypeOK /\ CallbacksFindRequests /\ PortKept /\ IssuedOnce

\* What is issued, followed by the reads of an id in a queue.
ReadsOf(id, issued, queue) ==
    LET reads_of[k \in 0..Len(queue)] ==
            IF k = 0 THEN issued
            ELSE IF queue[k].id = id THEN Append(reads_of[k - 1], queue[k]) ELSE reads_of[k - 1]
    IN reads_of[Len(queue)]

IssuedReads(id) ==
    [k \in 1..Cardinality(Issued(id)) |-> LET e == CHOOSE x \in Issued(id) : TRUE IN rreq[e[1]][e[2]]]

\* The reads of an id that wait: the one in the timing model, then the queued ones.
Waiting(id) == ReadsOf(id, IssuedReads(id), rreq_queue)

\* The writes of an id that are in the timing model.
Filed(id) ==
    {p \in UNION {{a} \X DOMAIN wreq[a] : a \in Addresses} : wreq[p[1]][p[2]] = id}

Unacked(id) == Cardinality(Filed(id))

\* The design cannot tell the timing model is there: bursts are read at one
\* instant, ids are answered in order, every write is acknowledged once.
Axi == INSTANCE AxiMemory
    WITH waiting <- [id \in Ids |-> Waiting(id)], unacked <- [id \in Ids |-> Unacked(id)]

ImplementsAxiMemory == Axi!Spec

\* Every read that is accepted is answered and every write acknowledged, however
\* the ids, addresses and completions fall: the queue never waits for an id that
\* is not in the timing model, and a full model drains.
EveryReadAnswered == \A id \in Ids : Waiting(id) # <<>> ~> Waiting(id) = <<>>

EveryWriteAcknowledged == \A id \in Ids : Unacked(id) > 0 ~> Unacked(id) = 0
=============================================================================
