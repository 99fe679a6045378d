------------------------------ MODULE AxiMemory ------------------------------
(***************************************************************************)
(* What the simulated memory promises the design on its AXI port: a burst   *)
(* is read from memory at one instant between its acceptance and its first  *)
(* beat, reads of one id are answered in the order they were accepted, and  *)
(* a write is acknowledged once, after its last beat is in memory.          *)
(***************************************************************************)
EXTENDS Naturals, Sequences

CONSTANTS Ids, Words, Values, MaxLen, Idle

VARIABLES
    mem,      \* the memory, a word per address
    waiting,  \* per id: the reads accepted and not answered yet
    rresp,    \* beats on their way to the design
    store,    \* the write burst whose beats are arriving, or Idle
    unacked,  \* per id: completed writes without an acknowledgement
    bresp     \* acknowledgements on their way to the design

axi == <<mem, waiting, rresp, store, unacked, bresp>>

Init ==
    /\ mem \in [Words -> Values]
    /\ waiting = [id \in Ids |-> <<>>]
    /\ rresp = <<>>
    /\ store = Idle
    /\ unacked = [id \in Ids |-> 0]
    /\ bresp = <<>>

AcceptRead(id, addr, len) ==
    /\ waiting' = [waiting EXCEPT ![id] = Append(@, [id |-> id, addr |-> addr, len |-> len])]
    /\ UNCHANGED <<mem, rresp, store, unacked, bresp>>

AnswerRead(id) ==
    /\ waiting[id] # <<>>
    /\ LET req == Head(waiting[id])
       IN rresp' = rresp \o [k \in 1..req.len |->
                                [id |-> id, data |-> mem[req.addr + k - 1], last |-> k = req.len]]
    /\ waiting' = [waiting EXCEPT ![id] = Tail(@)]
    /\ UNCHANGED <<mem, store, unacked, bresp>>

AcceptWrite(id, addr, len) ==
    /\ store = Idle
    /\ store' = [id |-> id, addr |-> addr, left |-> len]
    /\ UNCHANGED <<mem, waiting, rresp, unacked, bresp>>

WriteBeat(v) ==
    /\ store # Idle
    /\ mem' = [mem EXCEPT ![store.addr] = v]
    /\ IF store.left = 1
       THEN /\ store' = Idle
            /\ unacked' = [unacked EXCEPT ![store.id] = @ + 1]
       ELSE /\ store' = [store EXCEPT !.addr = @ + 1, !.left = @ - 1]
            /\ UNCHANGED unacked
    /\ UNCHANGED <<waiting, rresp, bresp>>

Acknowledge(id) ==
    /\ unacked[id] > 0
    /\ unacked' = [unacked EXCEPT ![id] = @ - 1]
    /\ bresp' = Append(bresp, id)
    /\ UNCHANGED <<mem, waiting, rresp, store>>

TakeBeat ==
    /\ rresp # <<>>
    /\ rresp' = Tail(rresp)
    /\ UNCHANGED <<mem, waiting, store, unacked, bresp>>

TakeAck ==
    /\ bresp # <<>>
    /\ bresp' = Tail(bresp)
    /\ UNCHANGED <<mem, waiting, rresp, store, unacked>>

Next ==
    \/ \E id \in Ids, addr \in Words, len \in 1..MaxLen :
        AcceptRead(id, addr, len) \/ AcceptWrite(id, addr, len)
    \/ \E id \in Ids : AnswerRead(id) \/ Acknowledge(id)
    \/ \E v \in Values : WriteBeat(v)
    \/ TakeBeat
    \/ TakeAck

Spec == Init /\ [][Next]_axi
=============================================================================
