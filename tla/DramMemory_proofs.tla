-------------------------- MODULE DramMemory_proofs --------------------------
(* The memory's callbacks find their requests, an id is busy exactly while one of *)
(* its reads is in the timing model, and the memory keeps AxiMemory's promise,    *)
(* for any memory, ids and depth.                                                 *)
EXTENDS DramMemory, FiniteSetTheorems, FunctionTheorems, SequenceTheorems, WellFoundedInduction, TLAPS

LEMMA WordCount ==
    /\ Cardinality(Words) \in Nat
    /\ Words = 0..(Cardinality(Words) - 1)
    /\ Words \subseteq Addresses
    /\ \A a \in Words : a + 1 \in Addresses
<1>1. Cardinality(Words) \in Nat /\ Words = 0..(Cardinality(Words) - 1)
  BY DramAssumption, FS_CardinalityType
<1> QED
  BY <1>1 DEF Addresses

LEMMA LessIsWellFounded == IsWellFoundedOn({p \in Nat \X Nat : p[1] < p[2]}, Nat)
BY NatLessThanWellFounded, Zenon DEF OpToRel

\* Min chooses a member, and the least.
LEMMA MinIsMember ==
    ASSUME NEW S \in SUBSET Nat, S # {}
    PROVE  Min(S) \in S /\ \A i \in S : Min(S) <= i
<1> DEFINE Less == {p \in Nat \X Nat : p[1] < p[2]}
<1>1. PICK m \in S : \A i \in S : <<i, m>> \notin Less
  <2> HIDE DEF Less
  <2> QED  BY LessIsWellFounded, WFMin, Zenon DEF Less
<1>2. ASSUME NEW i \in S PROVE m <= i
  <2>1. i \in Nat /\ m \in Nat
    OBVIOUS
  <2>2. i < m => <<i, m>> \in Less
    BY <2>1
  <2> QED
    BY <1>1, <2>1, <2>2
<1> QED
  BY <1>2 DEF Min

\* What is left when one element is removed.
LEMMA RemoveAtParts ==
    ASSUME NEW S, NEW queue \in Seq(S), NEW i \in 1..Len(queue)
    PROVE  /\ RemoveAt(queue, i) \in Seq(S)
           /\ Len(RemoveAt(queue, i)) = Len(queue) - 1
           /\ \A k \in 1..(i - 1) : RemoveAt(queue, i)[k] = queue[k]
           /\ \A k \in i..(Len(queue) - 1) : RemoveAt(queue, i)[k] = queue[k + 1]
<1> DEFINE n == Len(queue)
           a == SubSeq(queue, 1, i - 1)
           b == SubSeq(queue, i + 1, n)
<1>1. n \in Nat /\ i \in Nat /\ i >= 1 /\ i <= n
  OBVIOUS
<1>2. a \in Seq(S) /\ Len(a) = i - 1 /\ \A k \in 1..(i - 1) : a[k] = queue[k]
  BY SubSeqProperties
<1>3. b \in Seq(S) /\ Len(b) = n - i /\ \A k \in 1..(n - i) : b[k] = queue[i + k]
  BY SubSeqProperties
<1> HIDE DEF a, b, n
<1>4. /\ a \o b \in Seq(S) /\ Len(a \o b) = n - 1
      /\ \A k \in 1..(n - 1) : (a \o b)[k] = IF k <= i - 1 THEN a[k] ELSE b[k - (i - 1)]
  <2>1. /\ a \o b \in Seq(S) /\ Len(a \o b) = Len(a) + Len(b)
        /\ \A k \in 1..(Len(a) + Len(b)) : (a \o b)[k] = IF k <= Len(a) THEN a[k] ELSE b[k - Len(a)]
    BY <1>2, <1>3, ConcatProperties, Zenon
  <2>2. Len(a) + Len(b) = n - 1
    BY <1>1, <1>2, <1>3
  <2> QED
    BY <1>2, <2>1, <2>2, Zenon
<1>5. RemoveAt(queue, i) = a \o b
  BY DEF RemoveAt, a, b, n
<1>6. ASSUME NEW k \in 1..(i - 1) PROVE (a \o b)[k] = queue[k]
  BY <1>1, <1>2, <1>4
<1>7. ASSUME NEW k \in i..(n - 1) PROVE (a \o b)[k] = queue[k + 1]
  <2>1. k \in 1..(n - 1) /\ ~(k <= i - 1) /\ k - (i - 1) \in 1..(n - i) /\ i + (k - (i - 1)) = k + 1
    BY <1>1
  <2> QED
    BY <1>3, <1>4, <2>1
<1> QED
  BY <1>4, <1>5, <1>6, <1>7 DEF n

\* The read that is issued is one of the queued ones.
LEMMA IssuedIsQueued ==
    ASSUME TypeOK, Issuable # {}
    PROVE  Min(Issuable) \in 1..Len(rreq_queue)
<1>1. Issuable \in SUBSET (1..Len(rreq_queue))
  BY DEF Issuable, TypeOK
<1>2. Issuable \in SUBSET Nat
  BY <1>1
<1> QED
  BY <1>1, <1>2, MinIsMember

Beat == [id : Ids, data : Values, last : BOOLEAN]

LEMMA BeatsType ==
    ASSUME TypeOK, NEW req \in Requests
    PROVE  Beats(req) \in Seq(Beat)
<1>1. req.len \in Nat /\ req.id \in Ids
  BY DramAssumption DEF Requests
<1>2. ASSUME NEW k \in 1..req.len PROVE req.addr + k - 1 \in Words
  BY <1>1, WordCount DEF Requests, Fits
<1>3. Beats(req) \in [1..req.len -> Beat]
  BY <1>1, <1>2 DEF Beats, Beat, TypeOK
<1> QED
  BY <1>1, <1>3

-----------------------------------------------------------------------------
(* One read of an id at a time.                                             *)

\* A read goes to the timing model: its id was not busy, and is now.
LEMMA IssueKeepsOnce ==
    ASSUME TypeOK, IssuedOnce, NEW req \in Requests, ~read_id_busy[req.id],
           read_id_busy' = [read_id_busy EXCEPT ![req.id] = TRUE],
           rreq' = [rreq EXCEPT ![req.addr] = Append(@, req)]
    PROVE  IssuedOnce'
<1> DEFINE to == req.addr
           n  == Len(rreq[to])
<1>1. req.id \in Ids /\ to \in Addresses /\ rreq[to] \in Seq(Requests)
  BY WordCount DEF Requests, TypeOK
<1>2. n \in Nat /\ Len(Append(rreq[to], req)) = n + 1
  BY <1>1, AppendProperties
<1>3. /\ DOMAIN rreq'[to] = (1..n) \cup {n + 1} /\ DOMAIN rreq[to] = 1..n
      /\ rreq'[to][n + 1] = req
      /\ \A i \in 1..n : rreq'[to][i] = rreq[to][i]
  BY <1>1, <1>2, AppendProperties DEF TypeOK
<1>4. \A a \in Addresses : a # to => rreq'[a] = rreq[a]
  BY DEF TypeOK
<1>5. \A a \in Addresses : \A i \in DOMAIN rreq[a] : rreq[a][i].id # req.id
  BY <1>1 DEF IssuedOnce
<1> HIDE DEF to, n
<1>6. ASSUME NEW a \in Addresses, NEW i \in DOMAIN rreq'[a]
      PROVE  \/ a = to /\ i = n + 1 /\ rreq'[a][i] = req
             \/ i \in DOMAIN rreq[a] /\ rreq'[a][i] = rreq[a][i]
  BY <1>3, <1>4
<1>7. ASSUME NEW a \in Addresses, NEW b \in Addresses,
             NEW i \in DOMAIN rreq'[a], NEW j \in DOMAIN rreq'[b], rreq'[a][i].id = rreq'[b][j].id
      PROVE  a = b /\ i = j
  BY <1>5, <1>6, <1>7 DEF IssuedOnce
<1>8. ASSUME NEW id \in Ids
      PROVE  read_id_busy'[id] <=> \E a \in Addresses : \E i \in DOMAIN rreq'[a] : rreq'[a][i].id = id
  <2>1. CASE id = req.id
    <3>1. read_id_busy'[id] = TRUE
      BY <1>1, <2>1 DEF TypeOK
    <3>2. n + 1 \in DOMAIN rreq'[to] /\ rreq'[to][n + 1].id = id
      BY <1>3, <2>1
    <3> QED
      BY <1>1, <3>1, <3>2
  <2>2. CASE id # req.id
    <3>1. read_id_busy'[id] = read_id_busy[id]
      BY <1>1, <2>2 DEF TypeOK
    <3>2. ASSUME NEW a \in Addresses
          PROVE  (\E i \in DOMAIN rreq[a] : rreq[a][i].id = id) <=> (\E i \in DOMAIN rreq'[a] : rreq'[a][i].id = id)
      <4>1. ASSUME NEW i \in DOMAIN rreq[a]
            PROVE  i \in DOMAIN rreq'[a] /\ rreq'[a][i] = rreq[a][i]
        BY <1>3, <1>4
      <4>2. ASSUME NEW i \in DOMAIN rreq'[a], rreq'[a][i].id = id
            PROVE  i \in DOMAIN rreq[a] /\ rreq'[a][i] = rreq[a][i]
        BY <1>6, <2>2, <4>2
      <4> QED
        BY <4>1, <4>2
    <3>3. read_id_busy[id] <=> \E a \in Addresses : \E i \in DOMAIN rreq[a] : rreq[a][i].id = id
      BY DEF IssuedOnce
    <3> QED
      BY <3>1, <3>2, <3>3
  <2> QED
    BY <2>1, <2>2
<1> QED
  BY <1>7, <1>8 DEF IssuedOnce

\* A read comes back: its id has no other.
LEMMA ReturnKeepsOnce ==
    ASSUME TypeOK, IssuedOnce, NEW addr \in Addresses, rreq[addr] # <<>>,
           read_id_busy' = [read_id_busy EXCEPT ![Head(rreq[addr]).id] = FALSE],
           rreq' = [rreq EXCEPT ![addr] = Tail(@)]
    PROVE  IssuedOnce'
<1> DEFINE req == Head(rreq[addr])
           n   == Len(rreq[addr])
<1>1. rreq[addr] \in Seq(Requests) /\ n \in Nat /\ n > 0
  BY DEF TypeOK
<1>2. /\ req = rreq[addr][1] /\ req \in Requests
      /\ Len(Tail(rreq[addr])) = n - 1
      /\ \A i \in 1..(n - 1) : Tail(rreq[addr])[i] = rreq[addr][i + 1]
  BY <1>1, HeadTailProperties
<1>3. /\ DOMAIN rreq'[addr] = 1..(n - 1) /\ DOMAIN rreq[addr] = 1..n
      /\ \A i \in 1..(n - 1) : rreq'[addr][i] = rreq[addr][i + 1]
  <2>1. rreq'[addr] = Tail(rreq[addr]) /\ Tail(rreq[addr]) \in Seq(Requests)
    BY <1>1, HeadTailProperties DEF TypeOK
  <2>2. DOMAIN rreq[addr] = 1..n /\ DOMAIN Tail(rreq[addr]) = 1..(n - 1)
    BY <1>1, <1>2, <2>1
  <2> HIDE DEF n
  <2> QED
    BY <1>2, <2>1, <2>2
<1>4. \A a \in Addresses : a # addr => rreq'[a] = rreq[a]
  BY DEF TypeOK
<1> HIDE DEF req, n
<1>5. ASSUME NEW a \in Addresses, NEW i \in DOMAIN rreq'[a]
      PROVE  \E k \in DOMAIN rreq[a] : /\ rreq'[a][i] = rreq[a][k]
                                       /\ a = addr => k = i + 1 /\ i \in Int /\ k # 1
                                       /\ a # addr => k = i
  <2>1. CASE a = addr
    <3>1. i \in 1..(n - 1) /\ rreq'[a][i] = rreq[a][i + 1]
      BY <1>3, <1>5, <2>1
    <3>2. i + 1 \in 1..n /\ i \in Int /\ i + 1 # 1
      BY <1>1, <3>1
    <3> QED
      BY <1>3, <2>1, <3>1, <3>2
  <2>2. CASE a # addr
    BY <1>4, <1>5, <2>2
  <2> QED
    BY <2>1, <2>2
<1>6. ASSUME NEW a \in Addresses, NEW b \in Addresses,
             NEW i \in DOMAIN rreq'[a], NEW j \in DOMAIN rreq'[b], rreq'[a][i].id = rreq'[b][j].id
      PROVE  a = b /\ i = j
  <2>1. PICK k \in DOMAIN rreq[a] : /\ rreq'[a][i] = rreq[a][k]
                                    /\ a = addr => k = i + 1 /\ i \in Int /\ k # 1
                                    /\ a # addr => k = i
    BY <1>5
  <2>2. PICK m \in DOMAIN rreq[b] : /\ rreq'[b][j] = rreq[b][m]
                                    /\ b = addr => m = j + 1 /\ j \in Int /\ m # 1
                                    /\ b # addr => m = j
    BY <1>5
  <2>3. a = b /\ k = m
    BY <1>6, <2>1, <2>2 DEF IssuedOnce
  <2> QED
    BY <2>1, <2>2, <2>3
<1>7. 1 \in DOMAIN rreq[addr] /\ rreq[addr][1].id = req.id /\ req.id \in Ids
  BY <1>1, <1>2, <1>3 DEF Requests
<1>8. ASSUME NEW id \in Ids
      PROVE  read_id_busy'[id] <=> \E a \in Addresses : \E i \in DOMAIN rreq'[a] : rreq'[a][i].id = id
  <2>1. CASE id = req.id
    <3>1. read_id_busy'[id] = FALSE
      BY <1>7, <2>1 DEF TypeOK, req
    <3>2. ASSUME NEW a \in Addresses, NEW i \in DOMAIN rreq'[a]
          PROVE  rreq'[a][i].id # id
      <4>1. PICK k \in DOMAIN rreq[a] : rreq'[a][i] = rreq[a][k] /\ (a = addr => k # 1)
        BY <1>5
      <4> QED
        BY <1>7, <2>1, <4>1 DEF IssuedOnce
    <3> QED
      BY <3>1, <3>2
  <2>2. CASE id # req.id
    <3>1. read_id_busy'[id] = read_id_busy[id]
      BY <2>2 DEF TypeOK, req
    <3>2. ASSUME NEW a \in Addresses, NEW i \in DOMAIN rreq[a], rreq[a][i].id = id
          PROVE  \E j \in DOMAIN rreq'[a] : rreq'[a][j].id = id
      <4>1. CASE a = addr
        <5>1. i \in 1..n /\ i # 1
          BY <1>3, <1>7, <2>2, <3>2, <4>1
        <5>2. i - 1 \in 1..(n - 1) /\ (i - 1) + 1 = i
          BY <1>1, <5>1
        <5> QED
          BY <1>3, <3>2, <4>1, <5>2
      <4>2. CASE a # addr
        BY <1>4, <3>2, <4>2
      <4> QED
        BY <4>1, <4>2
    <3>3. ASSUME NEW a \in Addresses, NEW i \in DOMAIN rreq'[a], rreq'[a][i].id = id
          PROVE  \E j \in DOMAIN rreq[a] : rreq[a][j].id = id
      BY <1>5, <3>3
    <3>4. read_id_busy[id] <=> \E a \in Addresses : \E i \in DOMAIN rreq[a] : rreq[a][i].id = id
      BY DEF IssuedOnce
    <3> QED
      BY <3>1, <3>2, <3>3, <3>4
  <2> QED
    BY <2>1, <2>2
<1> QED
  BY <1>6, <1>8 DEF IssuedOnce

\* The other steps leave the reads in the timing model alone.
LEMMA OthersKeepOnce ==
    ASSUME IssuedOnce, UNCHANGED <<rreq, read_id_busy>>
    PROVE  IssuedOnce'
BY DEF IssuedOnce

-----------------------------------------------------------------------------
(* The steps.                                                               *)

LEMMA InvInit == Init => Inv
<1> SUFFICES ASSUME Init PROVE Inv
  OBVIOUS
<1>1. TypeOK
  BY DramAssumption DEF Init, TypeOK, NothingReady
<1>2. CallbacksFindRequests
  BY DEF Init, CallbacksFindRequests
<1>3. PortKept
  BY DEF Init, PortKept, NothingReady
<1>4. IssuedOnce
  <2>1. \A a \in Addresses : rreq[a] = <<>> /\ DOMAIN rreq[a] = {}
    BY DEF Init
  <2> QED
    BY <2>1 DEF Init, IssuedOnce
<1> QED
  BY <1>1, <1>2, <1>3, <1>4 DEF Inv

\* The start of a tick: what the port decides, and the read that is issued.
LEMMA TickStep ==
    ASSUME Inv, Tick
    PROVE  Inv'
<1> USE DEF Inv
<1>1. /\ phase' = 1
      /\ ready' = PortReady
      /\ store' = store /\ rresp' = rresp /\ bresp' = bresp
  BY Zenon DEF Tick, port
<1>2. /\ ready' \in [ar : BOOLEAN, aw : BOOLEAN, w : BOOLEAN, r : BOOLEAN, b : BOOLEAN]
      /\ ready'.w => store # Idle
      /\ ready'.r => rresp # <<>>
      /\ ready'.b => bresp # <<>>
      /\ ready'.aw => store = Idle
  <2>1. willAcceptTransaction \in BOOLEAN
    BY DEF willAcceptTransaction
  <2> QED
    BY <1>1, <2>1 DEF PortReady
<1>3. PortKept'
  BY <1>1, <1>2 DEF PortKept
<1>4. CASE willAcceptTransaction /\ Issuable # {}
  <2> DEFINE i == Min(Issuable)
             req == rreq_queue[i]
  <2>1. i \in 1..Len(rreq_queue)
    BY <1>4, IssuedIsQueued
  <2>2. /\ req \in Requests
        /\ RemoveAt(rreq_queue, i) \in Seq(Requests)
    BY <2>1, RemoveAtParts DEF TypeOK
  <2>3. req.id \in Ids /\ req.addr \in Addresses
    BY <2>2, WordCount DEF Requests
  <2>4. /\ read_id_busy' = [read_id_busy EXCEPT ![req.id] = TRUE]
        /\ rreq' = [rreq EXCEPT ![req.addr] = Append(@, req)]
        /\ dram' = [dram EXCEPT ![<<"read", req.addr>>] = @ + 1]
        /\ rreq_queue' = RemoveAt(rreq_queue, i)
        /\ UNCHANGED <<mem, wreq, store, port, reads, writes>>
    BY <1>4 DEF Tick
  <2> HIDE DEF i, req
  <2>5. /\ dram' \in [{"read", "write"} \X Addresses -> Nat]
        /\ rreq' \in [Addresses -> Seq(Requests)]
        /\ read_id_busy' \in [Ids -> BOOLEAN]
    BY <2>2, <2>3, <2>4, SMTT(30) DEF TypeOK
  <2>6. TypeOK'
    BY <1>1, <1>2, <2>2, <2>4, <2>5, SMTT(30) DEF TypeOK, port
  <2>7. ASSUME NEW a \in Addresses
        PROVE  dram'[<<"read", a>>] = Len(rreq'[a]) /\ dram'[<<"write", a>>] = Len(wreq'[a])
    <3>1. dram[<<"read", a>>] = Len(rreq[a]) /\ dram[<<"write", a>>] = Len(wreq[a])
      BY DEF CallbacksFindRequests
    <3>2. dram'[<<"write", a>>] = dram[<<"write", a>>] /\ wreq' = wreq
      BY <2>4 DEF TypeOK
    <3>3. CASE a = req.addr
      <4>1. dram'[<<"read", a>>] = dram[<<"read", a>>] + 1
        BY <2>4, <3>3 DEF TypeOK
      <4>2. rreq'[a] = Append(rreq[a], req) /\ rreq[a] \in Seq(Requests)
        BY <2>4, <3>3 DEF TypeOK
      <4> QED
        BY <2>2, <3>1, <3>2, <4>1, <4>2, AppendProperties
    <3>4. CASE a # req.addr
      BY <2>4, <3>1, <3>2, <3>4 DEF TypeOK
    <3> QED
      BY <3>3, <3>4
  <2>8. CallbacksFindRequests'
    BY <2>7 DEF CallbacksFindRequests
  <2>9. ~read_id_busy[req.id]
    <3>1. Issuable \in SUBSET Nat
      BY DEF Issuable, TypeOK
    <3>2. i \in Issuable
      BY <1>4, <3>1, MinIsMember DEF i
    <3> QED
      BY <3>2 DEF Issuable, req
  <2>10. IssuedOnce'
    BY <2>2, <2>4, <2>9, IssueKeepsOnce
  <2> QED
    BY <1>3, <2>6, <2>8, <2>10
<1>5. CASE ~(willAcceptTransaction /\ Issuable # {})
  <2>1. UNCHANGED <<read_id_busy, rreq, dram, rreq_queue, mem, wreq, store, port, reads, writes>>
    BY <1>5 DEF Tick
  <2> QED
    BY <1>1, <1>3, <1>2, <2>1, OthersKeepOnce DEF TypeOK, CallbacksFindRequests, port
<1> QED
  BY <1>4, <1>5

LEMMA AcceptReadStep ==
    ASSUME Inv, NEW id \in Ids, NEW addr \in Words, NEW len \in 1..MaxLen, AcceptRead(id, addr, len)
    PROVE  Inv'
<1> USE DEF Inv, AcceptRead, Serve, port
<1>1. [id |-> id, addr |-> addr, len |-> len] \in Requests
  BY DEF Requests, Fits
<1>2. TypeOK'
  BY <1>1, DramAssumption DEF TypeOK
<1>3. CallbacksFindRequests'
  BY DEF CallbacksFindRequests
<1>4. PortKept'
  BY DEF PortKept, TypeOK
<1>5. IssuedOnce'
  BY OthersKeepOnce
<1> QED
  BY <1>2, <1>3, <1>4, <1>5

\* A write burst is accepted only when no burst is being stored, so a beat that
\* fires in the same tick is not of the burst before it.
LEMMA AcceptWriteStep ==
    ASSUME Inv, NEW id \in Ids, NEW addr \in Words, NEW len \in 1..MaxLen, AcceptWrite(id, addr, len)
    PROVE  Inv'
<1> USE DEF Inv, AcceptWrite, Serve, port, queues
<1>1. TypeOK'
  BY DramAssumption DEF TypeOK, Fits
<1>2. CallbacksFindRequests'
  BY DEF CallbacksFindRequests
<1>3. PortKept'
  BY DEF PortKept, TypeOK
<1>4. IssuedOnce'
  BY OthersKeepOnce
<1> QED
  BY <1>1, <1>2, <1>3, <1>4

\* The last beat files the id under the same address as the transaction.
LEMMA WriteBeatStep ==
    ASSUME Inv, NEW v \in Values, WriteBeat(v)
    PROVE  Inv'
<1> USE DEF Inv
<1>1. /\ store # Idle /\ phase \in 1..3 /\ phase' = 4
      /\ store \in [id : Ids, addr : Words, left : 1..MaxLen]
      /\ Fits(store.addr, store.left)
  BY DEF WriteBeat, Serve, PortKept, TypeOK
<1>2. store.id \in Ids /\ store.addr \in Words /\ store.left \in Nat /\ store.addr + 1 \in Addresses
  BY <1>1, DramAssumption, WordCount
<1>3. PortKept'
  BY <1>1 DEF PortKept, WriteBeat, port
<1>4. mem' \in [Words -> Values]
  BY DEF WriteBeat, TypeOK
<1>5. CASE store.left = 1
  <2>1. /\ store' = Idle
        /\ dram' = [dram EXCEPT ![<<"write", store.addr + 1>>] = @ + 1]
        /\ wreq' = [wreq EXCEPT ![store.addr + 1] = Append(@, store.id)]
        /\ UNCHANGED <<rreq_queue, read_id_busy, rreq, port, ready, reads, writes>>
    BY <1>5 DEF WriteBeat
  <2> DEFINE a == store.addr + 1
             id == store.id
  <2>2. a \in Addresses /\ id \in Ids
    BY <1>2
  <2> HIDE DEF a, id
  <2>3. TypeOK'
    BY <1>1, <1>4, <2>1, <2>2 DEF TypeOK, port, a, id
  <2>4. ASSUME NEW b \in Addresses
        PROVE  dram'[<<"read", b>>] = Len(rreq'[b]) /\ dram'[<<"write", b>>] = Len(wreq'[b])
    <3>1. dram[<<"read", b>>] = Len(rreq[b]) /\ dram[<<"write", b>>] = Len(wreq[b])
      BY DEF CallbacksFindRequests
    <3>2. /\ dram' = [dram EXCEPT ![<<"write", a>>] = @ + 1]
          /\ wreq' = [wreq EXCEPT ![a] = Append(@, id)]
          /\ rreq' = rreq
      BY <2>1 DEF a, id
    <3>3. dram'[<<"read", b>>] = dram[<<"read", b>>]
      BY <3>2 DEF TypeOK
    <3>4. CASE b = a
      <4>1. dram'[<<"write", b>>] = dram[<<"write", b>>] + 1
        BY <3>2, <3>4 DEF TypeOK
      <4>2. wreq'[b] = Append(wreq[b], id) /\ wreq[b] \in Seq(Ids)
        BY <3>2, <3>4 DEF TypeOK
      <4> QED
        BY <2>2, <3>1, <3>2, <3>3, <4>1, <4>2, AppendProperties
    <3>5. CASE b # a
      BY <3>1, <3>2, <3>3, <3>5 DEF TypeOK
    <3> QED
      BY <3>4, <3>5
  <2>5. CallbacksFindRequests' /\ IssuedOnce'
    BY <2>1, <2>4, OthersKeepOnce DEF CallbacksFindRequests
  <2> QED
    BY <1>3, <2>3, <2>5
<1>6. CASE store.left # 1
  <2>1. /\ store' = [store EXCEPT !.addr = @ + 1, !.left = @ - 1]
        /\ UNCHANGED <<dram, wreq, rreq_queue, read_id_busy, rreq, port, ready, reads, writes>>
    BY <1>6 DEF WriteBeat
  <2>2. store.addr + 1 \in Words /\ store.left - 1 \in 1..MaxLen
    BY <1>1, <1>2, <1>6, WordCount, DramAssumption DEF Fits
  <2>3. Fits(store.addr + 1, store.left - 1)
    BY <1>1, <1>2, WordCount DEF Fits
  <2>4. /\ store' \in [id : Ids, addr : Words, left : 1..MaxLen]
        /\ store'.addr = store.addr + 1 /\ store'.left = store.left - 1
    BY <1>1, <2>1, <2>2
  <2>5. TypeOK'
    BY <1>1, <1>4, <2>1, <2>3, <2>4 DEF TypeOK, port, Fits
  <2>6. CallbacksFindRequests' /\ IssuedOnce'
    BY <2>1, OthersKeepOnce DEF CallbacksFindRequests
  <2> QED
    BY <1>3, <2>5, <2>6
<1> QED
  BY <1>5, <1>6

LEMMA TakeStep ==
    ASSUME Inv, TakeAck \/ TakeBeat
    PROVE  Inv'
<1> USE DEF Inv, Serve, queues
<1>1. CASE TakeAck
  <2>1. bresp # <<>> /\ bresp' \in Seq(Ids) /\ phase \in 1..4 /\ phase' = 5
    BY <1>1, HeadTailProperties DEF TakeAck, PortKept, TypeOK
  <2> QED
    BY <1>1, <2>1, OthersKeepOnce DEF TakeAck, TypeOK, CallbacksFindRequests, PortKept
<1>2. CASE TakeBeat
  <2>1. rresp # <<>> /\ rresp' \in Seq([id : Ids, data : Values, last : BOOLEAN]) /\ phase \in 1..5 /\ phase' = 6
    BY <1>2, HeadTailProperties DEF TakeBeat, PortKept, TypeOK
  <2> QED
    BY <1>2, <2>1, OthersKeepOnce DEF TakeBeat, TypeOK, CallbacksFindRequests, PortKept
<1> QED
  BY <1>1, <1>2

LEMMA ReadCompleteStep ==
    ASSUME Inv, NEW addr \in Addresses, read_complete(addr)
    PROVE  Inv'
<1> USE DEF Inv
<1> DEFINE req == Head(rreq[addr])
<1>1. /\ phase' = 6
      /\ dram[<<"read", addr>>] > 0
      /\ dram' = [dram EXCEPT ![<<"read", addr>>] = @ - 1]
      /\ rresp' = rresp \o Beats(req)
      /\ read_id_busy' = [read_id_busy EXCEPT ![req.id] = FALSE]
      /\ rreq' = [rreq EXCEPT ![addr] = Tail(@)]
      /\ UNCHANGED <<mem, rreq_queue, wreq, store, bresp, ready, reads, writes>>
  BY DEF read_complete, Complete
<1>2. rreq[addr] \in Seq(Requests) /\ rreq[addr] # <<>> /\ Len(rreq[addr]) > 0
  <2>1. rreq[addr] \in Seq(Requests)
    BY DEF TypeOK
  <2>2. dram[<<"read", addr>>] = Len(rreq[addr])
    BY DEF CallbacksFindRequests
  <2> QED
    BY <1>1, <2>1, <2>2
<1>3. req \in Requests /\ Tail(rreq[addr]) \in Seq(Requests) /\ Len(Tail(rreq[addr])) = Len(rreq[addr]) - 1
  BY <1>2, HeadTailProperties
<1>4. req.id \in Ids /\ Beats(req) \in Seq(Beat)
  BY <1>3, BeatsType DEF Requests
<1> HIDE DEF req
<1>5. rresp' \in Seq([id : Ids, data : Values, last : BOOLEAN])
  BY <1>1, <1>4, ConcatProperties DEF TypeOK, Beat
<1>6. TypeOK'
  BY <1>1, <1>3, <1>4, <1>5 DEF TypeOK
<1>7. CallbacksFindRequests'
  BY <1>1, <1>3 DEF TypeOK, CallbacksFindRequests
<1>8. PortKept'
  BY <1>1 DEF PortKept
<1>9. IssuedOnce'
  BY <1>1, <1>2, ReturnKeepsOnce DEF req
<1> QED
  BY <1>6, <1>7, <1>8, <1>9

LEMMA WriteCompleteStep ==
    ASSUME Inv, NEW addr \in Addresses, write_complete(addr)
    PROVE  Inv'
<1> USE DEF Inv
<1>1. /\ phase' = 6
      /\ dram[<<"write", addr>>] > 0
      /\ dram' = [dram EXCEPT ![<<"write", addr>>] = @ - 1]
      /\ bresp' = Append(bresp, Head(wreq[addr]))
      /\ wreq' = [wreq EXCEPT ![addr] = Tail(@)]
      /\ UNCHANGED <<mem, rreq_queue, read_id_busy, rreq, store, rresp, ready, reads, writes>>
  BY DEF write_complete, Complete
<1>2. wreq[addr] \in Seq(Ids) /\ wreq[addr] # <<>> /\ Len(wreq[addr]) > 0
  <2>1. wreq[addr] \in Seq(Ids)
    BY DEF TypeOK
  <2>2. dram[<<"write", addr>>] = Len(wreq[addr])
    BY DEF CallbacksFindRequests
  <2> QED
    BY <1>1, <2>1, <2>2
<1>3. Head(wreq[addr]) \in Ids /\ Tail(wreq[addr]) \in Seq(Ids) /\ Len(Tail(wreq[addr])) = Len(wreq[addr]) - 1
  BY <1>2, HeadTailProperties
<1>4. TypeOK'
  BY <1>1, <1>3, AppendProperties DEF TypeOK
<1>5. CallbacksFindRequests'
  BY <1>1, <1>3 DEF TypeOK, CallbacksFindRequests
<1>6. PortKept'
  BY <1>1 DEF PortKept
<1>7. IssuedOnce'
  BY <1>1, OthersKeepOnce
<1> QED
  BY <1>4, <1>5, <1>6, <1>7

LEMMA EndTickStep ==
    ASSUME Inv, EndTick
    PROVE  Inv'
<1> USE DEF EndTick, queues, port
<1>1. TypeOK'
  BY DEF Inv, TypeOK, NothingReady
<1>2. CallbacksFindRequests'
  BY DEF Inv, CallbacksFindRequests
<1>3. PortKept'
  BY DEF PortKept, NothingReady
<1>4. IssuedOnce'
  BY OthersKeepOnce DEF Inv
<1> QED
  BY <1>1, <1>2, <1>3, <1>4 DEF Inv

\* The types, the books kept of the timing model's transactions, and the port's
\* decisions are kept by every step of the memory.
THEOREM MemoryInvariant == Spec => []Inv
<1>1. Inv /\ [Next]_vars => Inv'
  <2> SUFFICES ASSUME Inv, [Next]_vars PROVE Inv'
    OBVIOUS
  <2>1. CASE UNCHANGED vars
    BY <2>1, OthersKeepOnce DEF Inv, TypeOK, CallbacksFindRequests, PortKept, vars, queues, port
  <2>2. CASE Next
    BY <2>2, TickStep, AcceptReadStep, AcceptWriteStep, WriteBeatStep, TakeStep,
       ReadCompleteStep, WriteCompleteStep, EndTickStep, Zenon DEF Next
  <2> QED
    BY <2>1, <2>2
<1> QED
  BY InvInit, <1>1, PTL DEF Spec

\* A callback always finds the request it completes: the asserts of
\* read_complete and write_complete cannot fail, however addresses collide.
THEOREM CallbacksAlwaysFindRequests == Spec => []CallbacksFindRequests
<1>1. Inv => CallbacksFindRequests
  BY DEF Inv
<1> QED
  BY <1>1, MemoryInvariant, PTL

\* The memory's state keeps its types, and no burst runs past the memory.
THEOREM MemoryTypeCorrect == Spec => []TypeOK
<1>1. Inv => TypeOK
  BY DEF Inv
<1> QED
  BY <1>1, MemoryInvariant, PTL
-----------------------------------------------------------------------------
(* The reads of an id in a queue.                                           *)

\* What reads_of does with the next element of a queue.
With(id, found, req) == IF req.id = id THEN Append(found, req) ELSE found

\* f holds the reads of id in each prefix of the first n elements.
Collects(f, id, issued, queue, n) ==
    f = [k \in 0..n |-> IF k = 0 THEN issued ELSE With(id, f[k - 1], queue[k])]

\* A set of numbers that, with each k, has one below it is empty.
LEMMA NoSmallest ==
    ASSUME NEW Bad \in SUBSET Nat, \A k \in Bad : \E j \in Bad : j < k
    PROVE  Bad = {}
<1> SUFFICES ASSUME Bad # {} PROVE FALSE
  OBVIOUS
<1> DEFINE Less == {p \in Nat \X Nat : p[1] < p[2]}
<1>1. PICK m \in Bad : \A i \in Bad : <<i, m>> \notin Less
  <2> HIDE DEF Less
  <2> QED  BY LessIsWellFounded, WFMin, Zenon DEF Less
<1>2. PICK j \in Bad : j < m
  BY <1>1
<1>3. <<j, m>> \in Less
  BY <1>2
<1> QED
  BY <1>1, <1>2, <1>3

\* Every queue has its collection: the recursion of ReadsOf is one over prefixes.
LEMMA CollectionExists ==
    ASSUME NEW id, NEW issued, NEW queue, NEW n \in Nat
    PROVE  \E f : Collects(f, id, issued, queue, n)
<1> DEFINE Bad == {m \in Nat : ~ \E f : Collects(f, id, issued, queue, m)}
<1>1. ASSUME NEW m \in Bad PROVE \E j \in Bad : j < m
  <2> SUFFICES ASSUME \A j \in Bad : ~(j < m) PROVE FALSE
    OBVIOUS
  <2>1. m \in Nat
    OBVIOUS
  <2>2. CASE m = 0
    <3> DEFINE f == [k \in 0..0 |-> issued]
    <3>1. f = [k \in 0..0 |-> IF k = 0 THEN issued ELSE With(id, f[k - 1], queue[k])]
      OBVIOUS
    <3> QED
      BY <2>2, <3>1, Zenon DEF Collects
  <2>3. CASE m # 0
    <3>1. m - 1 \in Nat /\ m - 1 < m
      BY <2>1, <2>3
    <3>2. PICK f : Collects(f, id, issued, queue, m - 1)
      BY <3>1
    <3> DEFINE g == [k \in 0..m |-> IF k = m THEN With(id, f[m - 1], queue[m]) ELSE f[k]]
    <3>3. ASSUME NEW k \in 0..m
          PROVE  g[k] = IF k = 0 THEN issued ELSE With(id, g[k - 1], queue[k])
      <4>1. f = [i \in 0..(m - 1) |-> IF i = 0 THEN issued ELSE With(id, f[i - 1], queue[i])]
        BY <3>2 DEF Collects
      <4>2. CASE k = m
        <5>1. k - 1 \in 0..m /\ k - 1 # m /\ k # 0 /\ k - 1 = m - 1
          BY <2>1, <2>3, <4>2
        <5>2. g[k - 1] = f[m - 1]
          BY <5>1
        <5>3. g[k] = With(id, f[m - 1], queue[m])
          BY <4>2
        <5> QED
          BY <4>2, <5>1, <5>2, <5>3, Zenon
      <4>3. CASE k # m
        <5>1. k \in 0..(m - 1)
          BY <2>1, <4>3
        <5>2. g[k] = f[k]
          BY <4>3
        <5>3. f[k] = IF k = 0 THEN issued ELSE With(id, f[k - 1], queue[k])
          <6> HIDE DEF g
          <6> QED BY <4>1, <5>1, Zenon
        <5>4. k # 0 => g[k - 1] = f[k - 1]
          BY <2>1, <5>1
        <5> QED
          BY <5>2, <5>3, <5>4, Zenon
      <4> QED
        BY <4>2, <4>3
    <3>4. g = [k \in 0..m |-> g[k]]
      OBVIOUS
    <3> HIDE DEF g
    <3>5. Collects(g, id, issued, queue, m)
      BY <3>3, <3>4, Zenon DEF Collects
    <3> QED
      BY <3>5
  <2> QED
    BY <2>2, <2>3
<1>2. Bad = {}
  <2>1. Bad \in SUBSET Nat
    OBVIOUS
  <2> HIDE DEF Bad
  <2> QED BY <1>1, <2>1, NoSmallest
<1> QED
  BY <1>2

\* What ReadsOf is, without its recursion.
Collection(f, id, issued, queue, S) ==
    /\ ReadsOf(id, issued, queue) = f[Len(queue)]
    /\ f[0] = issued
    /\ \A k \in 1..Len(queue) : f[k] = With(id, f[k - 1], queue[k])
    /\ \A k \in 0..Len(queue) : f[k] \in Seq(S)

\* ReadsOf is the collection of the whole queue.
LEMMA ReadsOfCollects ==
    ASSUME NEW id, NEW S, NEW issued \in Seq(S), NEW queue \in Seq(S)
    PROVE  \E f : Collection(f, id, issued, queue, S)
<1> DEFINE n == Len(queue)
           f == CHOOSE f : Collects(f, id, issued, queue, n)
<1>1. n \in Nat
  OBVIOUS
<1>2. Collects(f, id, issued, queue, n)
  BY <1>1, CollectionExists, Zenon
<1>3. ReadsOf(id, issued, queue) = f[n]
  BY Zenon DEF ReadsOf, Collects, With
<1> HIDE DEF f
<1>4. f = [k \in 0..n |-> IF k = 0 THEN issued ELSE With(id, f[k - 1], queue[k])]
  BY <1>2 DEF Collects
<1>5. ASSUME NEW k \in 0..n
      PROVE  f[k] = IF k = 0 THEN issued ELSE With(id, f[k - 1], queue[k])
  BY <1>4, Zenon
<1>6. f[0] = issued /\ \A k \in 1..n : f[k] = With(id, f[k - 1], queue[k])
  <2>1. 0 \in 0..n /\ \A k \in 1..n : k \in 0..n /\ k # 0
    BY <1>1
  <2> HIDE DEF n
  <2> QED  BY <1>5, <2>1
<1> DEFINE Bad == {k \in 0..n : f[k] \notin Seq(S)}
<1>7. Bad = {}
  <2>1. Bad \in SUBSET Nat
    OBVIOUS
  <2>2. ASSUME NEW k \in Bad PROVE \E j \in Bad : j < k
    <3>1. k # 0
      <4>1. f[k] \notin Seq(S) /\ issued \in Seq(S)
        OBVIOUS
      <4> QED
        BY <1>6, <4>1, Zenon
    <3>2. k \in 1..n /\ k - 1 \in 0..n /\ k - 1 < k
      BY <1>1, <3>1
    <3>3. f[k] = With(id, f[k - 1], queue[k]) /\ queue[k] \in S
      BY <1>6, <3>2
    <3>4. f[k - 1] \notin Seq(S)
      <4>1. f[k] \notin Seq(S)
        OBVIOUS
      <4>2. f[k - 1] \in Seq(S) => Append(f[k - 1], queue[k]) \in Seq(S)
        BY <3>3, AppendProperties
      <4> QED
        BY <3>3, <4>1, <4>2, Zenon DEF With
    <3> QED
      BY <3>2, <3>4
  <2> HIDE DEF Bad
  <2> QED  BY <2>1, <2>2, NoSmallest
<1>8. Collection(f, id, issued, queue, S)
  BY <1>3, <1>6, <1>7 DEF Collection
<1> QED
  BY <1>8

\* With nothing queued there is what is issued.
LEMMA ReadsOfEmpty ==
    ASSUME NEW id, NEW S, NEW issued \in Seq(S)
    PROVE  ReadsOf(id, issued, <<>>) = issued
<1> DEFINE none == <<>>
<1>1. none \in Seq(S) /\ Len(none) = 0
  OBVIOUS
<1> HIDE DEF none
<1>2. PICK f : Collection(f, id, issued, none, S)
  BY <1>1, ReadsOfCollects
<1>3. ReadsOf(id, issued, none) = issued
  BY <1>1, <1>2 DEF Collection
<1> QED
  BY <1>3 DEF none

\* A read that is accepted waits behind the others of its id.
LEMMA ReadsOfAppend ==
    ASSUME NEW id, NEW S, NEW issued \in Seq(S), NEW queue \in Seq(S), NEW req \in S
    PROVE  ReadsOf(id, issued, Append(queue, req)) = With(id, ReadsOf(id, issued, queue), req)
<1> DEFINE n == Len(queue)
           longer == Append(queue, req)
<1>1. /\ n \in Nat /\ longer \in Seq(S) /\ Len(longer) = n + 1 /\ longer[n + 1] = req
      /\ \A k \in 1..n : longer[k] = queue[k]
  BY AppendProperties
<1> HIDE DEF longer
<1>2. PICK f : Collection(f, id, issued, queue, S)
  BY ReadsOfCollects
<1>3. PICK g : Collection(g, id, issued, longer, S)
  BY <1>1, ReadsOfCollects
<1>4. /\ ReadsOf(id, issued, queue) = f[n] /\ f[0] = issued
      /\ \A k \in 1..n : f[k] = With(id, f[k - 1], queue[k])
  BY <1>2 DEF Collection
<1> HIDE DEF n
<1>5. /\ ReadsOf(id, issued, longer) = g[n + 1] /\ g[0] = issued
      /\ \A k \in 1..(n + 1) : g[k] = With(id, g[k - 1], longer[k])
  BY <1>1, <1>3 DEF Collection
<1> DEFINE Bad == {k \in 0..n : f[k] # g[k]}
<1>6. Bad = {}
  <2>1. Bad \in SUBSET Nat
    OBVIOUS
  <2>2. ASSUME NEW k \in Bad PROVE \E j \in Bad : j < k
    <3>1. k \in 1..n
      BY <1>1, <1>4, <1>5
    <3>2. k - 1 \in 0..n /\ k - 1 < k /\ k \in 1..(n + 1)
      BY <1>1, <3>1
    <3>3. f[k] = With(id, f[k - 1], queue[k]) /\ g[k] = With(id, g[k - 1], queue[k])
      BY <1>1, <1>4, <1>5, <3>1, <3>2
    <3>4. f[k - 1] # g[k - 1]
      BY <3>3
    <3> QED
      BY <3>2, <3>4
  <2> HIDE DEF Bad
  <2> QED  BY <2>1, <2>2, NoSmallest
<1>7. n \in 0..n /\ n + 1 \in 1..(n + 1) /\ (n + 1) - 1 = n
  BY <1>1
<1>8. f[n] = g[n]
  BY <1>6, <1>7
<1>9. g[n + 1] = With(id, g[n], req)
  BY <1>1, <1>5, <1>7
<1> QED
  BY <1>4, <1>5, <1>8, <1>9 DEF longer

\* The first read of its id may be issued from anywhere in the queue, if none of
\* that id is issued: the order of the reads of every id is kept.
LEMMA ReadsOfRemove ==
    ASSUME NEW id, NEW S, NEW before \in Seq(S), NEW after \in Seq(S),
           NEW queue \in Seq(S), NEW i \in 1..Len(queue),
           \A k \in 1..(i - 1) : queue[k].id # queue[i].id,
           queue[i].id = id => before = <<>> /\ after = <<queue[i]>>,
           queue[i].id # id => after = before
    PROVE  ReadsOf(id, before, queue) = ReadsOf(id, after, RemoveAt(queue, i))
<1> DEFINE n == Len(queue)
           rest == RemoveAt(queue, i)
<1>1. n \in Nat /\ i \in Nat /\ i >= 1 /\ i <= n
  OBVIOUS
<1>2. /\ rest \in Seq(S) /\ Len(rest) = n - 1
      /\ \A k \in 1..(i - 1) : rest[k] = queue[k]
      /\ \A k \in i..(n - 1) : rest[k] = queue[k + 1]
  BY RemoveAtParts
<1> HIDE DEF rest
<1>3. PICK f : Collection(f, id, before, queue, S)
  BY ReadsOfCollects
<1>4. PICK g : Collection(g, id, after, rest, S)
  BY <1>2, ReadsOfCollects
<1>5. /\ ReadsOf(id, before, queue) = f[n] /\ f[0] = before
      /\ \A k \in 1..n : f[k] = With(id, f[k - 1], queue[k])
  BY <1>3 DEF Collection
<1> HIDE DEF n
<1>6. /\ ReadsOf(id, after, rest) = g[n - 1] /\ g[0] = after
      /\ \A k \in 1..(n - 1) : g[k] = With(id, g[k - 1], rest[k])
  BY <1>2, <1>4 DEF Collection
\* Before i nothing of the id of queue[i] is collected, and of other ids the same.
<1> DEFINE Early == {k \in 0..(i - 1) : ~ IF queue[i].id = id THEN f[k] = before /\ g[k] = after ELSE f[k] = g[k]}
<1>7. Early = {}
  <2>1. Early \in SUBSET Nat
    BY <1>1
  <2>2. ASSUME NEW k \in Early PROVE \E j \in Early : j < k
    <3>1. k # 0
      BY <1>5, <1>6
    <3>2. k \in 1..(i - 1) /\ k - 1 \in 0..(i - 1) /\ k - 1 < k /\ k \in 1..n /\ k \in 1..(n - 1)
      BY <1>1, <3>1
    <3>3. f[k] = With(id, f[k - 1], queue[k]) /\ g[k] = With(id, g[k - 1], queue[k])
      BY <1>2, <1>5, <1>6, <3>2
    <3>4. queue[i].id = id => f[k] = f[k - 1] /\ g[k] = g[k - 1]
      BY <3>2, <3>3 DEF With
    <3>5. k - 1 \in Early
      BY <3>2, <3>3, <3>4
    <3> QED
      BY <3>2, <3>5
  <2> HIDE DEF Early
  <2> QED  BY <2>1, <2>2, NoSmallest
<1>8. f[i] = g[i - 1]
  <2>1. i - 1 \in 0..(i - 1) /\ i \in 1..n
    BY <1>1
  <2>2. f[i] = With(id, f[i - 1], queue[i])
    BY <1>5, <2>1
  <2>3. CASE queue[i].id = id
    <3>1. f[i - 1] = <<>> /\ g[i - 1] = <<queue[i]>>
      BY <1>7, <2>1, <2>3
    <3>2. Append(<<>>, queue[i]) = <<queue[i]>>
      OBVIOUS
    <3> QED
      BY <2>2, <2>3, <3>1, <3>2 DEF With
  <2>4. CASE queue[i].id # id
    BY <1>7, <2>1, <2>2, <2>4 DEF With
  <2> QED
    BY <2>3, <2>4
\* From then on both collect the same.
<1> DEFINE Late == {k \in (i - 1)..(n - 1) : f[k + 1] # g[k]}
<1>9. Late = {}
  <2>1. Late \in SUBSET Nat
    <3>1. (i - 1)..(n - 1) \subseteq Nat
      BY <1>1
    <3> QED
      BY <3>1
  <2>2. ASSUME NEW k \in Late PROVE \E j \in Late : j < k
    <3>1. k # i - 1
      <4>1. (i - 1) + 1 = i
        BY <1>1
      <4> QED
        BY <1>8, <4>1
    <3>2. /\ k \in i..(n - 1) /\ k - 1 \in (i - 1)..(n - 1) /\ k - 1 < k /\ k + 1 \in 1..n
          /\ k \in 1..(n - 1) /\ (k + 1) - 1 = k /\ (k - 1) + 1 = k
      BY <1>1, <3>1
    <3>3. f[k + 1] = With(id, f[k], queue[k + 1]) /\ g[k] = With(id, g[k - 1], queue[k + 1])
      BY <1>2, <1>5, <1>6, <3>2
    <3>4. f[k] # g[k - 1]
      BY <3>3
    <3> QED
      BY <3>2, <3>4
  <2> HIDE DEF Late
  <2> QED  BY <2>1, <2>2, NoSmallest
<1>10. n - 1 \in (i - 1)..(n - 1) /\ (n - 1) + 1 = n
  BY <1>1
<1>11. f[n] = g[n - 1]
  BY <1>9, <1>10
<1> QED
  BY <1>5, <1>6, <1>11 DEF rest

\* What is issued is in front.
LEMMA ReadsOfTail ==
    ASSUME NEW id, NEW S, NEW req \in S, NEW queue \in Seq(S)
    PROVE  /\ ReadsOf(id, <<req>>, queue) # <<>>
           /\ Head(ReadsOf(id, <<req>>, queue)) = req
           /\ Tail(ReadsOf(id, <<req>>, queue)) = ReadsOf(id, <<>>, queue)
<1> DEFINE n == Len(queue)
           one == <<req>>
           none == <<>>
<1>1. /\ n \in Nat /\ one \in Seq(S) /\ none \in Seq(S)
      /\ one # <<>> /\ Head(one) = req /\ Tail(one) = none
  OBVIOUS
<1> HIDE DEF one, none
<1>2. PICK f : Collection(f, id, one, queue, S)
  BY <1>1, ReadsOfCollects
<1>3. PICK g : Collection(g, id, none, queue, S)
  BY <1>1, ReadsOfCollects
<1>4. /\ ReadsOf(id, one, queue) = f[n] /\ f[0] = one
      /\ \A k \in 1..n : f[k] = With(id, f[k - 1], queue[k])
      /\ \A k \in 0..n : f[k] \in Seq(S)
  BY <1>2 DEF Collection
<1>5. /\ ReadsOf(id, none, queue) = g[n] /\ g[0] = none
      /\ \A k \in 1..n : g[k] = With(id, g[k - 1], queue[k])
  BY <1>3 DEF Collection
<1>6. \A k \in 1..n : queue[k] \in S
  OBVIOUS
<1> HIDE DEF n
<1> DEFINE Bad == {k \in 0..n : ~(f[k] # <<>> /\ Head(f[k]) = req /\ Tail(f[k]) = g[k])}
<1>7. Bad = {}
  <2>1. Bad \in SUBSET Nat
    OBVIOUS
  <2>2. ASSUME NEW k \in Bad PROVE \E j \in Bad : j < k
    <3>1. k \in 1..n
      <4>1. f[0] # <<>> /\ Head(f[0]) = req /\ Tail(f[0]) = g[0]
        BY <1>1, <1>4, <1>5, Zenon
      <4>2. k # 0
        BY <4>1
      <4> QED
        BY <1>1, <4>2
    <3>2. k - 1 \in 0..n /\ k - 1 < k
      BY <1>1, <3>1
    <3>3. f[k] = With(id, f[k - 1], queue[k]) /\ g[k] = With(id, g[k - 1], queue[k])
      BY <1>4, <1>5, <3>1
    <3>4. SUFFICES ASSUME f[k - 1] # <<>>, Head(f[k - 1]) = req, Tail(f[k - 1]) = g[k - 1]
                   PROVE  f[k] # <<>> /\ Head(f[k]) = req /\ Tail(f[k]) = g[k]
      BY <3>2
    <3>5. f[k - 1] \in Seq(S) /\ queue[k] \in S
      BY <1>4, <1>6, <3>1, <3>2
    <3>6. /\ Head(Append(f[k - 1], queue[k])) = req
          /\ Tail(Append(f[k - 1], queue[k])) = Append(g[k - 1], queue[k])
      BY <3>4, <3>5, HeadTailAppend
    <3>7. Append(f[k - 1], queue[k]) # <<>>
      BY <3>5, AppendProperties
    <3> QED
      BY <3>3, <3>4, <3>6, <3>7 DEF With
  <2> HIDE DEF Bad
  <2> QED  BY <2>1, <2>2, NoSmallest
<1>8. n \in 0..n
  BY <1>1
<1>9. f[n] # <<>> /\ Head(f[n]) = req /\ Tail(f[n]) = g[n]
  BY <1>7, <1>8
<1> QED
  BY <1>4, <1>5, <1>9 DEF one, none
-----------------------------------------------------------------------------
(* The reads that wait, and the writes that are not acknowledged.           *)

\* What IssuedOnce says of Issued and IssuedReads.
IssuedShape ==
    \A id \in Ids :
        /\ ~read_id_busy[id] => Issued(id) = {} /\ IssuedReads(id) = <<>>
        /\ read_id_busy[id] => \E p : Issued(id) = {p}
        /\ \A a \in Addresses : \A i \in DOMAIN rreq[a] :
              rreq[a][i].id = id => read_id_busy[id] /\ IssuedReads(id) = <<rreq[a][i]>>
        /\ IssuedReads(id) \in Seq(Requests)

\* An id that is busy has its one read in front, one that is not has none.
LEMMA ShapeOfIssued == Inv => IssuedShape
<1> SUFFICES ASSUME Inv, NEW id \in Ids
             PROVE  /\ ~read_id_busy[id] => Issued(id) = {} /\ IssuedReads(id) = <<>>
                    /\ read_id_busy[id] => \E p : Issued(id) = {p}
                    /\ \A a \in Addresses : \A i \in DOMAIN rreq[a] :
                          rreq[a][i].id = id => read_id_busy[id] /\ IssuedReads(id) = <<rreq[a][i]>>
                    /\ IssuedReads(id) \in Seq(Requests)
  BY DEF IssuedShape
<1>1. \A p : p \in Issued(id) <=> \E a \in Addresses : \E i \in DOMAIN rreq[a] : p = <<a, i>> /\ rreq[a][i].id = id
  BY DEF Issued
<1>2. ASSUME NEW a \in Addresses, NEW i \in DOMAIN rreq[a], rreq[a][i].id = id
      PROVE  Issued(id) = {<<a, i>>} /\ IssuedReads(id) = <<rreq[a][i]>> /\ IssuedReads(id) \in Seq(Requests)
  <2>1. Issued(id) = {<<a, i>>}
    BY <1>1, <1>2 DEF Inv, IssuedOnce
  <2>2. Cardinality(Issued(id)) = 1
    BY <2>1, FS_Singleton
  <2> DEFINE e == CHOOSE x \in Issued(id) : TRUE
  <2>3. rreq[e[1]][e[2]] = rreq[a][i]
    <3>1. e = <<a, i>>
      BY <2>1
    <3> HIDE DEF e
    <3> QED  BY <3>1
  <2>4. IssuedReads(id) = <<rreq[a][i]>>
    <3>1. IssuedReads(id) = [k \in 1..Cardinality(Issued(id)) |-> rreq[e[1]][e[2]]]
      BY Zenon DEF IssuedReads
    <3> HIDE DEF e
    <3>2. [k \in 1..1 |-> rreq[a][i]] = <<rreq[a][i]>>
      OBVIOUS
    <3> QED
      BY <2>2, <2>3, <3>1, <3>2
  <2>5. rreq[a][i] \in Requests
    BY DEF Inv, TypeOK
  <2>6. <<rreq[a][i]>> \in Seq(Requests)
    BY <2>5
  <2> QED
    BY <2>1, <2>4, <2>6, Zenon
<1>3. CASE read_id_busy[id]
  <2>1. PICK a \in Addresses : \E i \in DOMAIN rreq[a] : rreq[a][i].id = id
    BY <1>3 DEF Inv, IssuedOnce
  <2>2. PICK i \in DOMAIN rreq[a] : rreq[a][i].id = id
    BY <2>1
  <2>3. Issued(id) = {<<a, i>>} /\ IssuedReads(id) \in Seq(Requests)
    BY <1>2, <2>2
  <2>4. \A b \in Addresses : \A j \in DOMAIN rreq[b] :
          rreq[b][j].id = id => IssuedReads(id) = <<rreq[b][j]>>
    BY <1>2
  <2> QED
    BY <1>3, <2>3, <2>4
<1>4. CASE ~read_id_busy[id]
  <2>1. \A a \in Addresses : \A i \in DOMAIN rreq[a] : rreq[a][i].id # id
    BY <1>4 DEF Inv, IssuedOnce
  <2>2. Issued(id) = {}
    BY <1>1, <2>1
  <2>3. Cardinality(Issued(id)) = 0
    BY <2>2, FS_EmptySet
  <2>4. IssuedReads(id) = <<>>
    BY <2>3 DEF IssuedReads
  <2> QED
    BY <1>4, <2>1, <2>2, <2>4
<1> QED
  BY <1>3, <1>4

LEMMA ShapeOfIssuedNext == Inv' => IssuedShape'
  BY ShapeOfIssued, PTL

\* The books of read_id_busy follow.
LEMMA OneIssued == Inv => BusyMeansIssued
<1> SUFFICES ASSUME Inv, NEW id \in Ids
             PROVE  Cardinality(Issued(id)) = IF read_id_busy[id] THEN 1 ELSE 0
  BY DEF BusyMeansIssued
<1>1. /\ ~read_id_busy[id] => Issued(id) = {}
      /\ read_id_busy[id] => \E p : Issued(id) = {p}
  BY ShapeOfIssued DEF IssuedShape
<1> QED
  BY <1>1, FS_Singleton, FS_EmptySet

LEMMA FiledParts ==
    ASSUME NEW id, NEW p
    PROVE  p \in Filed(id) <=> \E a \in Addresses : \E i \in DOMAIN wreq[a] : p = <<a, i>> /\ wreq[a][i] = id
BY DEF Filed

\* The filed writes can be counted.
LEMMA FiledFinite ==
    ASSUME TypeOK, NEW id
    PROVE  IsFiniteSet(Filed(id))
<1> DEFINE At == [a \in Addresses |-> {a} \X DOMAIN wreq[a]]
           All == {{a} \X DOMAIN wreq[a] : a \in Addresses}
<1>1. IsFiniteSet(Addresses)
  BY WordCount, FS_Interval DEF Addresses
<1>2. At \in Surjection(Addresses, All)
  BY DEF Surjection
<1>3. IsFiniteSet(All)
  <2> HIDE DEF At, All
  <2> QED  BY <1>1, <1>2, FS_Surjection
<1>4. ASSUME NEW a \in Addresses PROVE IsFiniteSet({a} \X DOMAIN wreq[a])
  <2>1. DOMAIN wreq[a] = 1..Len(wreq[a]) /\ Len(wreq[a]) \in Nat
    BY DEF TypeOK
  <2>2. IsFiniteSet({a})
    BY FS_Singleton
  <2>3. IsFiniteSet(DOMAIN wreq[a])
    <3> DEFINE n == Len(wreq[a])
    <3>1. n \in Int /\ 1 \in Int
      BY <2>1
    <3> HIDE DEF n
    <3>2. IsFiniteSet(1..n)
      BY <3>1, FS_Interval
    <3> QED
      BY <2>1, <3>2 DEF n
  <2> QED
    BY <2>2, <2>3, FS_Product
<1>5. IsFiniteSet(UNION All)
  <2>1. \A T \in All : IsFiniteSet(T)
    BY <1>4
  <2> HIDE DEF All
  <2> QED  BY <1>3, <2>1, FS_UNION
<1>6. Filed(id) \in SUBSET (UNION All)
  BY DEF Filed
<1> QED
  <2> HIDE DEF All
  <2> QED  BY <1>5, <1>6, FS_Subset

\* A write is filed: one more of its id waits for the acknowledgement.
LEMMA OneMoreFiled ==
    ASSUME TypeOK, NEW to \in Addresses, NEW wid \in Ids, NEW id \in Ids,
           wreq' = [wreq EXCEPT ![to] = Append(@, wid)]
    PROVE  Unacked(id)' = IF id = wid THEN Unacked(id) + 1 ELSE Unacked(id)
<1> DEFINE n == Len(wreq[to])
<1>1. wreq[to] \in Seq(Ids) /\ n \in Nat /\ Len(Append(wreq[to], wid)) = n + 1
  BY AppendProperties DEF TypeOK
<1>2. /\ DOMAIN wreq[to] = 1..n /\ DOMAIN wreq'[to] = (1..n) \cup {n + 1}
      /\ wreq'[to][n + 1] = wid
      /\ \A i \in 1..n : wreq'[to][i] = wreq[to][i]
  BY <1>1, AppendProperties DEF TypeOK
<1>3. \A a \in Addresses : a # to => wreq'[a] = wreq[a]
  BY DEF TypeOK
<1>4. \A p : p \in Filed(id)' <=> \E a \in Addresses : \E i \in DOMAIN wreq'[a] : p = <<a, i>> /\ wreq'[a][i] = id
  BY DEF Filed
<1>5. n + 1 \notin 1..n
  BY <1>1
<1> HIDE DEF n
<1>6. <<to, n + 1>> \notin Filed(id)
  <2> SUFFICES ASSUME <<to, n + 1>> \in Filed(id) PROVE FALSE
    OBVIOUS
  <2>1. PICK a \in Addresses : \E i \in DOMAIN wreq[a] : <<to, n + 1>> = <<a, i>>
    BY FiledParts
  <2> QED
    BY <1>2, <1>5, <2>1
<1>7. Filed(id)' = IF id = wid THEN Filed(id) \cup {<<to, n + 1>>} ELSE Filed(id)
  <2>1. ASSUME NEW p, p \in Filed(id) PROVE p \in Filed(id)'
    <3>1. PICK a \in Addresses : \E i \in DOMAIN wreq[a] : p = <<a, i>> /\ wreq[a][i] = id
      BY <2>1, FiledParts
    <3>2. PICK i \in DOMAIN wreq[a] : p = <<a, i>> /\ wreq[a][i] = id
      BY <3>1
    <3>3. i \in DOMAIN wreq'[a] /\ wreq'[a][i] = id
      BY <1>2, <1>3, <3>2
    <3> QED
      BY <1>4, <3>2, <3>3
  <2>2. ASSUME NEW p, p \in Filed(id)' PROVE p \in Filed(id) \/ (p = <<to, n + 1>> /\ id = wid)
    <3>1. PICK a \in Addresses : \E i \in DOMAIN wreq'[a] : p = <<a, i>> /\ wreq'[a][i] = id
      BY <1>4, <2>2
    <3>2. PICK i \in DOMAIN wreq'[a] : p = <<a, i>> /\ wreq'[a][i] = id
      BY <3>1
    <3>3. CASE a = to /\ i = n + 1
      BY <1>2, <3>2, <3>3
    <3>4. CASE ~(a = to /\ i = n + 1)
      <4>1. i \in DOMAIN wreq[a] /\ wreq[a][i] = id
        BY <1>2, <1>3, <3>2, <3>4
      <4> QED
        BY <3>2, <4>1, FiledParts
    <3> QED
      BY <3>3, <3>4
  <2>3. id = wid => <<to, n + 1>> \in Filed(id)'
    BY <1>2, <1>4
  <2> QED
    BY <2>1, <2>2, <2>3
<1>8. IsFiniteSet(Filed(id))
  BY FiledFinite
<1>9. Cardinality(Filed(id) \cup {<<to, n + 1>>}) = Cardinality(Filed(id)) + 1
  BY <1>6, <1>8, FS_AddElement
<1> QED
  BY <1>7, <1>9 DEF Unacked

\* A write is acknowledged: one less of its id.
LEMMA OneLessFiled ==
    ASSUME TypeOK, NEW from \in Addresses, wreq[from] # <<>>, NEW id \in Ids,
           wreq' = [wreq EXCEPT ![from] = Tail(@)]
    PROVE  /\ Unacked(id) \in Nat
           /\ Unacked(id)' = IF id = Head(wreq[from]) THEN Unacked(id) - 1 ELSE Unacked(id)
           /\ id = Head(wreq[from]) => Unacked(id) > 0
<1> DEFINE n   == Len(wreq[from])
           wid == Head(wreq[from])
           old == Filed(id) \ {<<from, 1>>}
           Move(p) == IF p[1] = from THEN <<from, p[2] + 1>> ELSE p
           move == [p \in Filed(id)' |-> Move(p)]
<1>1. wreq[from] \in Seq(Ids) /\ n \in Nat /\ n > 0
  BY DEF TypeOK
<1>2. /\ wid = wreq[from][1] /\ Tail(wreq[from]) \in Seq(Ids) /\ Len(Tail(wreq[from])) = n - 1
      /\ \A i \in 1..(n - 1) : Tail(wreq[from])[i] = wreq[from][i + 1]
  BY <1>1, HeadTailProperties
<1>3. /\ DOMAIN wreq[from] = 1..n /\ DOMAIN wreq'[from] = 1..(n - 1)
      /\ \A i \in 1..(n - 1) : wreq'[from][i] = wreq[from][i + 1]
  <2>1. wreq'[from] = Tail(wreq[from])
    BY DEF TypeOK
  <2>2. DOMAIN wreq[from] = 1..n /\ DOMAIN Tail(wreq[from]) = 1..(n - 1)
    BY <1>1, <1>2
  <2> HIDE DEF n
  <2> QED
    BY <1>2, <2>1, <2>2
<1>4. \A a \in Addresses : a # from => wreq'[a] = wreq[a]
  BY DEF TypeOK
<1>5. \A p : p \in Filed(id)' <=> \E a \in Addresses : \E i \in DOMAIN wreq'[a] : p = <<a, i>> /\ wreq'[a][i] = id
  BY DEF Filed
<1> HIDE DEF n, wid
<1>6. ASSUME NEW p \in Filed(id)'
      PROVE  Move(p) \in old /\ (p[1] = from => p[2] \in Int) /\ p = <<p[1], p[2]>>
  <2>1. PICK a \in Addresses : \E i \in DOMAIN wreq'[a] : p = <<a, i>> /\ wreq'[a][i] = id
    BY <1>5, <1>6
  <2>2. PICK i \in DOMAIN wreq'[a] : p = <<a, i>> /\ wreq'[a][i] = id
    BY <2>1
  <2>3. CASE a = from
    <3>1. i \in 1..(n - 1) /\ wreq[a][i + 1] = id
      BY <1>3, <2>2, <2>3
    <3>2. i + 1 \in DOMAIN wreq[a] /\ i + 1 # 1 /\ i \in Int
      BY <1>1, <1>3, <2>3, <3>1
    <3>3. <<a, i + 1>> \in Filed(id)
      BY <3>1, <3>2, FiledParts
    <3> QED
      BY <2>2, <2>3, <3>2, <3>3
  <2>4. CASE a # from
    <3>1. p \in Filed(id)
      BY <1>4, <2>2, <2>4, FiledParts
    <3> QED
      BY <2>2, <2>4, <3>1
  <2> QED
    BY <2>3, <2>4
<1>7. ASSUME NEW q \in old
      PROVE  \E p \in Filed(id)' : Move(p) = q
  <2>1. PICK a \in Addresses : \E i \in DOMAIN wreq[a] : q = <<a, i>> /\ wreq[a][i] = id
    BY FiledParts
  <2>2. PICK i \in DOMAIN wreq[a] : q = <<a, i>> /\ wreq[a][i] = id
    BY <2>1
  <2>3. CASE a = from
    <3>1. i \in 1..n /\ i # 1
      BY <1>3, <2>2, <2>3
    <3>2. i - 1 \in 1..(n - 1) /\ (i - 1) + 1 = i
      BY <1>1, <3>1
    <3>3. wreq'[a][i - 1] = id /\ i - 1 \in DOMAIN wreq'[a]
      BY <1>3, <2>2, <2>3, <3>2
    <3>4. <<a, i - 1>> \in Filed(id)'
      BY <1>5, <3>3
    <3>5. Move(<<a, i - 1>>) = q
      BY <2>2, <2>3, <3>2
    <3> QED
      BY <3>4, <3>5
  <2>4. CASE a # from
    <3>1. q \in Filed(id)'
      BY <1>4, <1>5, <2>2, <2>4
    <3>2. Move(q) = q
      BY <2>2, <2>4
    <3> QED
      BY <3>1, <3>2
  <2> QED
    BY <2>3, <2>4
<1>8. ASSUME NEW p \in Filed(id)', NEW q \in Filed(id)', Move(p) = Move(q)
      PROVE  p = q
  <2>1. /\ p = <<p[1], p[2]>> /\ q = <<q[1], q[2]>>
        /\ p[1] = from => p[2] \in Int
        /\ q[1] = from => q[2] \in Int
    BY <1>6
  <2>2. Move(p)[1] = p[1] /\ Move(q)[1] = q[1]
    BY <2>1
  <2>3. p[1] = q[1]
    BY <1>8, <2>2
  <2>4. p[2] = q[2]
    BY <1>8, <2>1, <2>3
  <2> QED
    BY <2>1, <2>3, <2>4
<1>9. move \in Bijection(Filed(id)', old)
  <2>1. move \in [Filed(id)' -> old]
    BY <1>6
  <2>2. \A p, q \in Filed(id)' : move[p] = move[q] => p = q
    BY <1>8
  <2>3. \A q \in old : \E p \in Filed(id)' : move[p] = q
    BY <1>7
  <2> HIDE DEF move, old
  <2> QED
    BY <2>1, <2>2, <2>3, Fun_IsBij
<1>10. IsFiniteSet(Filed(id)) /\ IsFiniteSet(old) /\ Cardinality(Filed(id)) \in Nat
       /\ Cardinality(old) = IF <<from, 1>> \in Filed(id) THEN Cardinality(Filed(id)) - 1 ELSE Cardinality(Filed(id))
  BY FiledFinite, FS_RemoveElement, FS_CardinalityType
<1>11. Cardinality(Filed(id)') = Cardinality(old)
  <2> HIDE DEF move, old
  <2>1. Inverse(move, Filed(id)', old) \in Bijection(old, Filed(id)')
    BY <1>9, Fun_BijInverse
  <2> QED
    BY <1>10, <2>1, FS_Bijection DEF ExistsBijection
<1>12. <<from, 1>> \in Filed(id) <=> id = wid
  <2>1. 1 \in DOMAIN wreq[from] /\ wreq[from][1] = wid
    BY <1>1, <1>2, <1>3
  <2> QED
    BY <2>1, FiledParts
<1>13. id = wid => Cardinality(Filed(id)) # 0
  BY <1>10, <1>12, FS_EmptySet
<1> QED
  <2> HIDE DEF old
  <2> QED
    BY <1>10, <1>11, <1>12, <1>13 DEF Unacked, wid
-----------------------------------------------------------------------------
(* The refinement.                                                          *)

LEMMA RequestParts ==
    ASSUME NEW req \in Requests
    PROVE  /\ req = [id |-> req.id, addr |-> req.addr, len |-> req.len]
           /\ req.id \in Ids /\ req.addr \in Words /\ req.addr \in Addresses
           /\ req.len \in 1..MaxLen
BY WordCount DEF Requests

\* What waits depends on the reads only, what is not acknowledged on the writes only.
LEMMA WaitingKept ==
    ASSUME UNCHANGED <<rreq, rreq_queue>>, NEW id \in Ids
    PROVE  Waiting(id)' = Waiting(id)
BY DEF Waiting, IssuedReads, Issued

LEMMA UnackedKept ==
    ASSUME UNCHANGED wreq, NEW id \in Ids
    PROVE  Unacked(id)' = Unacked(id)
BY DEF Unacked, Filed

LEMMA InitRefines == Init => Axi!Init
<1> SUFFICES ASSUME Init PROVE Axi!Init
  OBVIOUS
<1>1. mem \in [Words -> Values]
  BY DramAssumption DEF Init
<1>2. ASSUME NEW id \in Ids PROVE Waiting(id) = <<>>
  <2>1. IssuedReads(id) = <<>>
    BY InvInit, ShapeOfIssued DEF IssuedShape, Init
  <2>2. rreq_queue = <<>> /\ <<>> \in Seq({})
    BY DEF Init
  <2> QED
    BY <2>1, <2>2, ReadsOfEmpty DEF Waiting
<1>3. ASSUME NEW id \in Ids PROVE Unacked(id) = 0
  <2>1. \A a \in Addresses : DOMAIN wreq[a] = {}
    BY DEF Init
  <2>2. Filed(id) = {}
    BY <2>1, FiledParts
  <2> QED
    BY <2>2, FS_EmptySet DEF Unacked
<1> QED
  BY <1>1, <1>2, <1>3 DEF Axi!Init, Init

\* Which read goes to the timing model, and when, nobody can tell.
LEMMA TickRefines ==
    ASSUME Inv, Tick
    PROVE  UNCHANGED Axi!axi
<1>1. UNCHANGED <<mem, wreq, store, rresp, bresp>>
  BY DEF Tick, port
<1>2. ASSUME NEW id \in Ids PROVE Unacked(id)' = Unacked(id)
  BY <1>1, UnackedKept
<1>3. ASSUME NEW id \in Ids PROVE Waiting(id)' = Waiting(id)
  <2>1. CASE willAcceptTransaction /\ Issuable # {}
    <3> DEFINE i   == Min(Issuable)
               req == rreq_queue[i]
    <3>1. Issuable \in SUBSET Nat /\ i \in 1..Len(rreq_queue) /\ i \in Issuable
      <4>1. Issuable \in SUBSET Nat
        BY DEF Inv, TypeOK, Issuable
      <4> QED
        BY <2>1, <4>1, IssuedIsQueued, MinIsMember DEF Inv
    <3>2. /\ rreq' = [rreq EXCEPT ![req.addr] = Append(@, req)]
          /\ read_id_busy' = [read_id_busy EXCEPT ![req.id] = TRUE]
          /\ rreq_queue' = RemoveAt(rreq_queue, i)
      BY <2>1 DEF Tick
    <3>3. rreq_queue \in Seq(Requests) /\ req \in Requests /\ req.id \in Ids /\ req.addr \in Addresses
      <4>1. rreq_queue \in Seq(Requests)
        BY DEF Inv, TypeOK
      <4> HIDE DEF i
      <4>2. req \in Requests
        BY <3>1, <4>1
      <4> HIDE DEF req
      <4> QED
        BY <4>1, <4>2, RequestParts
    <3>4. ~read_id_busy[req.id]
      BY <3>1 DEF Issuable
    <3>5. ASSUME NEW k \in 1..(i - 1) PROVE rreq_queue[k].id # req.id
      <4>1. k \in Nat /\ k < i /\ k \in DOMAIN rreq_queue
        BY <3>1, <3>3
      <4>2. k \notin Issuable
        BY <3>1, <4>1, MinIsMember
      <4> QED
        BY <3>4, <4>1, <4>2 DEF Issuable
    <3> HIDE DEF i
    <3>6. IssuedReads(id) \in Seq(Requests) /\ (~read_id_busy[id] => IssuedReads(id) = <<>>)
      BY ShapeOfIssued DEF IssuedShape
    <3>7. Inv'
      BY TickStep
    <3>8. /\ IssuedReads(id)' \in Seq(Requests)
          /\ ~read_id_busy'[id] => IssuedReads(id)' = <<>>
          /\ \A a \in Addresses : \A j \in DOMAIN rreq'[a] : rreq'[a][j].id = id => IssuedReads(id)' = <<rreq'[a][j]>>
      BY <3>7, ShapeOfIssuedNext DEF IssuedShape
    <3> HIDE DEF req
    <3>9. req.id = id => IssuedReads(id) = <<>> /\ IssuedReads(id)' = <<req>>
      <4> DEFINE n == Len(rreq[req.addr]) + 1
      <4>1. rreq'[req.addr] = Append(rreq[req.addr], req) /\ rreq[req.addr] \in Seq(Requests)
        BY <3>2, <3>3 DEF Inv, TypeOK
      <4>2. n \in DOMAIN rreq'[req.addr] /\ rreq'[req.addr][n] = req
        BY <3>3, <4>1, AppendProperties
      <4> QED
        BY <3>3, <3>4, <3>6, <3>8, <4>2
    <3>10. req.id # id => IssuedReads(id)' = IssuedReads(id)
      <4> SUFFICES ASSUME req.id # id PROVE IssuedReads(id)' = IssuedReads(id)
        OBVIOUS
      <4>1. read_id_busy'[id] = read_id_busy[id]
        BY <3>2 DEF Inv, TypeOK
      <4>2. CASE ~read_id_busy[id]
        BY <3>6, <3>8, <4>1, <4>2
      <4>3. CASE read_id_busy[id]
        <5>1. PICK a \in Addresses : \E j \in DOMAIN rreq[a] : rreq[a][j].id = id
          BY <4>3 DEF Inv, IssuedOnce
        <5>2. PICK j \in DOMAIN rreq[a] : rreq[a][j].id = id
          BY <5>1
        <5>3. IssuedReads(id) = <<rreq[a][j]>>
          BY <5>2, ShapeOfIssued DEF IssuedShape
        <5>4. j \in DOMAIN rreq'[a] /\ rreq'[a][j] = rreq[a][j]
          <6>1. rreq[a] \in Seq(Requests)
            BY DEF Inv, TypeOK
          <6>2. CASE a = req.addr
            <7>1. rreq'[a] = Append(rreq[a], req)
              BY <3>2, <6>2 DEF Inv, TypeOK
            <7> QED
              BY <3>3, <5>2, <6>1, <7>1, AppendProperties
          <6>3. CASE a # req.addr
            BY <3>2, <5>2, <6>3 DEF Inv, TypeOK
          <6> QED
            BY <6>2, <6>3
        <5> QED
          BY <3>8, <5>2, <5>3, <5>4
      <4> QED
        BY <4>2, <4>3
    <3>11. ReadsOf(id, IssuedReads(id), rreq_queue) = ReadsOf(id, IssuedReads(id)', RemoveAt(rreq_queue, i))
      <4> DEFINE before == IssuedReads(id)
                 after  == IssuedReads(id)'
      <4>1. /\ before \in Seq(Requests) /\ after \in Seq(Requests)
            /\ rreq_queue[i].id = id => before = <<>> /\ after = <<rreq_queue[i]>>
            /\ rreq_queue[i].id # id => after = before
        BY <3>6, <3>8, <3>9, <3>10 DEF req
      <4>2. \A k \in 1..(i - 1) : rreq_queue[k].id # rreq_queue[i].id
        BY <3>5 DEF req
      <4> HIDE DEF before, after
      <4>3. ReadsOf(id, before, rreq_queue) = ReadsOf(id, after, RemoveAt(rreq_queue, i))
        BY <3>1, <3>3, <4>1, <4>2, ReadsOfRemove
      <4> QED
        BY <4>3 DEF before, after
    <3> QED
      BY <3>2, <3>11 DEF Waiting
  <2>2. CASE ~(willAcceptTransaction /\ Issuable # {})
    BY <2>2, WaitingKept DEF Tick
  <2> QED
    BY <2>1, <2>2
<1> QED
  BY <1>1, <1>2, <1>3 DEF Axi!axi

\* A read is accepted: it waits behind the others of its id.
LEMMA AcceptReadRefines ==
    ASSUME Inv, NEW rid \in Ids, NEW addr \in Words, NEW len \in 1..MaxLen, AcceptRead(rid, addr, len)
    PROVE  Axi!AcceptRead(rid, addr, len)
<1> DEFINE req == [id |-> rid, addr |-> addr, len |-> len]
<1>1. /\ req \in Requests /\ req.id = rid
      /\ rreq_queue' = Append(rreq_queue, req) /\ rreq_queue \in Seq(Requests)
      /\ UNCHANGED <<mem, rreq, wreq, store, rresp, bresp>>
  BY DEF AcceptRead, Requests, Inv, TypeOK, port
<1>2. ASSUME NEW id \in Ids PROVE Unacked(id)' = Unacked(id)
  BY <1>1, UnackedKept
<1> HIDE DEF req
<1>3. ASSUME NEW id \in Ids
      PROVE  Waiting(id)' = IF id = rid THEN Append(Waiting(id), req) ELSE Waiting(id)
  <2>1. IssuedReads(id)' = IssuedReads(id)
    BY <1>1 DEF IssuedReads, Issued
  <2>2. IssuedReads(id) \in Seq(Requests)
    BY ShapeOfIssued DEF IssuedShape
  <2> DEFINE issued == IssuedReads(id)
  <2> HIDE DEF issued
  <2>3. ReadsOf(id, issued, Append(rreq_queue, req)) = With(id, ReadsOf(id, issued, rreq_queue), req)
    BY <1>1, <2>2, ReadsOfAppend DEF issued
  <2>4. Waiting(id)' = ReadsOf(id, issued, Append(rreq_queue, req))
    BY <1>1, <2>1 DEF Waiting, issued
  <2>5. Waiting(id) = ReadsOf(id, issued, rreq_queue)
    BY DEF Waiting, issued
  <2> QED
    BY <1>1, <2>3, <2>4, <2>5 DEF With
<1> QED
  BY <1>1, <1>2, <1>3 DEF Axi!AcceptRead, req

\* A write is accepted when none is being stored.
LEMMA AcceptWriteRefines ==
    ASSUME Inv, NEW wid \in Ids, NEW addr \in Words, NEW len \in 1..MaxLen, AcceptWrite(wid, addr, len)
    PROVE  Axi!AcceptWrite(wid, addr, len)
<1>1. /\ store = Idle /\ store' = [id |-> wid, addr |-> addr, left |-> len]
      /\ UNCHANGED <<mem, rreq, rreq_queue, wreq, rresp, bresp>>
  BY DEF AcceptWrite, Serve, Inv, PortKept, queues, port
<1>2. ASSUME NEW id \in Ids PROVE Unacked(id)' = Unacked(id) /\ Waiting(id)' = Waiting(id)
  BY <1>1, UnackedKept, WaitingKept
<1> QED
  BY <1>1, <1>2 DEF Axi!AcceptWrite

\* A beat is stored; with the last one the write is filed, and one more of its id
\* is to be acknowledged.
LEMMA WriteBeatRefines ==
    ASSUME Inv, NEW v \in Values, WriteBeat(v)
    PROVE  Axi!WriteBeat(v)
<1>1. store # Idle
  BY DEF WriteBeat, Serve, Inv, PortKept
<1>2. store.id \in Ids /\ store.addr \in Words /\ store.addr + 1 \in Addresses
  BY <1>1, WordCount DEF Inv, TypeOK, Addresses
<1>3. /\ mem' = [mem EXCEPT ![store.addr] = v]
      /\ UNCHANGED <<rreq, rreq_queue, rresp, bresp>>
  BY DEF WriteBeat, port
<1>4. ASSUME NEW id \in Ids PROVE Waiting(id)' = Waiting(id)
  BY <1>3, WaitingKept
<1>5. CASE store.left = 1
  <2>1. store' = Idle /\ wreq' = [wreq EXCEPT ![store.addr + 1] = Append(@, store.id)]
    BY <1>5 DEF WriteBeat
  <2>2. ASSUME NEW id \in Ids
        PROVE  Unacked(id)' = IF id = store.id THEN Unacked(id) + 1 ELSE Unacked(id)
    BY <1>2, <2>1, OneMoreFiled DEF Inv
  <2> QED
    BY <1>1, <1>2, <1>3, <1>4, <1>5, <2>1, <2>2 DEF Axi!WriteBeat
<1>6. CASE store.left # 1
  <2>1. store' = [store EXCEPT !.addr = @ + 1, !.left = @ - 1] /\ UNCHANGED wreq
    BY <1>6 DEF WriteBeat
  <2>2. ASSUME NEW id \in Ids PROVE Unacked(id)' = Unacked(id)
    BY <2>1, UnackedKept
  <2> QED
    BY <1>1, <1>3, <1>4, <1>6, <2>1, <2>2 DEF Axi!WriteBeat
<1> QED
  BY <1>5, <1>6

\* The design takes what the port offered.
LEMMA TakeRefines ==
    ASSUME Inv, TakeAck \/ TakeBeat
    PROVE  Axi!TakeAck \/ Axi!TakeBeat
<1>1. UNCHANGED <<mem, rreq, rreq_queue, wreq, store>>
  BY DEF TakeAck, TakeBeat, queues
<1>2. ASSUME NEW id \in Ids PROVE Unacked(id)' = Unacked(id) /\ Waiting(id)' = Waiting(id)
  BY <1>1, UnackedKept, WaitingKept
<1>3. CASE TakeAck
  <2>1. bresp # <<>> /\ bresp' = Tail(bresp) /\ UNCHANGED rresp
    BY <1>3 DEF TakeAck, Serve, Inv, PortKept
  <2> QED
    BY <1>1, <1>2, <2>1 DEF Axi!TakeAck
<1>4. CASE TakeBeat
  <2>1. rresp # <<>> /\ rresp' = Tail(rresp) /\ UNCHANGED bresp
    BY <1>4 DEF TakeBeat, Serve, Inv, PortKept
  <2> QED
    BY <1>1, <1>2, <2>1 DEF Axi!TakeBeat
<1> QED
  BY <1>3, <1>4

\* The read in the timing model is the first that waits of its id.
LEMMA IssuedInFront ==
    ASSUME NEW req \in Requests, NEW queue \in Seq(Requests)
    PROVE  /\ ReadsOf(req.id, <<req>>, queue) # <<>>
           /\ Head(ReadsOf(req.id, <<req>>, queue)) = req
           /\ Tail(ReadsOf(req.id, <<req>>, queue)) = ReadsOf(req.id, <<>>, queue)
BY ReadsOfTail

\* What a callback completes is filed.
LEMMA FiledIsQueued ==
    ASSUME Inv, NEW addr \in Addresses
    PROVE  /\ rreq[addr] \in Seq(Requests)
           /\ read_complete(addr) => rreq[addr] # <<>>
           /\ wreq[addr] \in Seq(Ids)
           /\ write_complete(addr) => wreq[addr] # <<>>
<1>1. dram[<<"read", addr>>] = Len(rreq[addr]) /\ dram[<<"write", addr>>] = Len(wreq[addr])
  BY DEF Inv, CallbacksFindRequests
<1>2. rreq[addr] \in Seq(Requests) /\ wreq[addr] \in Seq(Ids)
  BY DEF Inv, TypeOK
<1>3. ASSUME read_complete(addr) PROVE rreq[addr] # <<>>
  BY <1>1, <1>2, <1>3 DEF read_complete, Complete
<1>4. ASSUME write_complete(addr) PROVE wreq[addr] # <<>>
  BY <1>1, <1>2, <1>4 DEF write_complete, Complete
<1> QED
  BY <1>2, <1>3, <1>4

\* The timing model completes a read: it was the first that waits of its id, and the
\* burst is read from memory now.
LEMMA ReadCompleteRefines ==
    ASSUME Inv, NEW addr \in Addresses, read_complete(addr)
    PROVE  \E id \in Ids : Axi!AnswerRead(id)
<1>1. rreq[addr] \in Seq(Requests) /\ rreq[addr] # <<>>
  BY FiledIsQueued
<1> PICK req \in Requests : req = Head(rreq[addr])
  BY <1>1
<1>2. /\ req \in Requests /\ req = rreq[addr][1] /\ 1 \in DOMAIN rreq[addr]
      /\ DOMAIN rreq[addr] = 1..Len(rreq[addr]) /\ Len(rreq[addr]) \in Nat
      /\ DOMAIN Tail(rreq[addr]) = 1..(Len(rreq[addr]) - 1)
      /\ \A j \in 1..(Len(rreq[addr]) - 1) : Tail(rreq[addr])[j] = rreq[addr][j + 1]
  BY <1>1, HeadTailProperties
<1>3. /\ rresp' = rresp \o Beats(req)
      /\ read_id_busy' = [read_id_busy EXCEPT ![req.id] = FALSE]
      /\ rreq' = [rreq EXCEPT ![addr] = Tail(@)]
      /\ UNCHANGED <<mem, rreq_queue, wreq, store, bresp>>
  BY DEF read_complete
<1>4. req = [id |-> req.id, addr |-> req.addr, len |-> req.len] /\ req.id \in Ids
  BY <1>2, RequestParts
<1>5. rreq_queue \in Seq(Requests)
  BY DEF Inv, TypeOK
<1>6. ASSUME NEW id \in Ids PROVE Unacked(id)' = Unacked(id)
  BY <1>3, UnackedKept
<1>7. Inv'
  BY ReadCompleteStep
<1>8. IssuedShape /\ IssuedShape'
  BY <1>7, ShapeOfIssued, ShapeOfIssuedNext
<1>9. /\ rreq'[addr] = Tail(rreq[addr])
      /\ \A a \in Addresses : a # addr => rreq'[a] = rreq[a]
      /\ ~read_id_busy'[req.id]
      /\ \A id \in Ids : id # req.id => read_id_busy'[id] = read_id_busy[id]
  BY <1>3, <1>4 DEF Inv, TypeOK
<1>10. IssuedReads(req.id) = <<req>> /\ IssuedReads(req.id)' = <<>>
  <2>1. IssuedReads(req.id) = <<req>>
    BY <1>2, <1>4, <1>8 DEF IssuedShape
  <2>2. IssuedReads(req.id)' = <<>>
    <3>1. \A id \in Ids : ~read_id_busy'[id] => IssuedReads(id)' = <<>>
      BY <1>8 DEF IssuedShape
    <3> QED
      BY <1>4, <1>9, <3>1
  <2> QED
    BY <2>1, <2>2
<1>11. ASSUME NEW id \in Ids, id # req.id PROVE IssuedReads(id)' = IssuedReads(id)
  <2>1. \A a \in Addresses : \A i \in DOMAIN rreq[a] : rreq[a][i].id = id => IssuedReads(id) = <<rreq[a][i]>>
    BY <1>8 DEF IssuedShape
  <2>2. \A a \in Addresses : \A i \in DOMAIN rreq'[a] : rreq'[a][i].id = id => IssuedReads(id)' = <<rreq'[a][i]>>
    BY <1>8 DEF IssuedShape
  <2>3. CASE ~read_id_busy[id]
    <3>1. IssuedReads(id) = <<>>
      BY <1>8, <2>3 DEF IssuedShape
    <3>2. ~read_id_busy'[id]
      BY <1>9, <1>11, <2>3
    <3>3. IssuedReads(id)' = <<>>
      BY <1>8, <3>2 DEF IssuedShape
    <3> QED
      BY <3>1, <3>3
  <2>4. CASE read_id_busy[id]
    <3>1. PICK a \in Addresses : \E j \in DOMAIN rreq[a] : rreq[a][j].id = id
      BY <2>4 DEF Inv, IssuedOnce
    <3>2. PICK j \in DOMAIN rreq[a] : rreq[a][j].id = id
      BY <3>1
    <3>3. \E i \in DOMAIN rreq'[a] : rreq'[a][i] = rreq[a][j]
      <4>1. CASE a = addr
        <5>1. j # 1
          BY <1>2, <1>11, <3>2, <4>1
        <5>2. j - 1 \in 1..(Len(rreq[addr]) - 1) /\ (j - 1) + 1 = j
          BY <1>2, <3>2, <4>1, <5>1
        <5>3. j - 1 \in DOMAIN rreq'[a] /\ rreq'[a][j - 1] = rreq[a][j]
          <6>1. Tail(rreq[addr])[j - 1] = rreq[addr][j]
            BY <1>2, <5>2, Zenon
          <6> QED
            BY <1>2, <1>9, <4>1, <5>2, <6>1, Zenon
        <5> QED
          BY <5>3
      <4>2. CASE a # addr
        BY <1>9, <3>2, <4>2
      <4> QED
        BY <4>1, <4>2
    <3>4. PICK i \in DOMAIN rreq'[a] : rreq'[a][i] = rreq[a][j]
      BY <3>3
    <3> QED
      BY <2>1, <2>2, <3>2, <3>4
  <2> QED
    BY <2>3, <2>4
<1>12. /\ Waiting(req.id) # <<>> /\ Head(Waiting(req.id)) = req
       /\ Waiting(req.id)' = Tail(Waiting(req.id))
  <2>1. Waiting(req.id) = ReadsOf(req.id, <<req>>, rreq_queue)
    BY <1>10 DEF Waiting
  <2>2. Waiting(req.id)' = ReadsOf(req.id, <<>>, rreq_queue)
    BY <1>3, <1>10 DEF Waiting
  <2>3. /\ ReadsOf(req.id, <<req>>, rreq_queue) # <<>> /\ Head(ReadsOf(req.id, <<req>>, rreq_queue)) = req
        /\ Tail(ReadsOf(req.id, <<req>>, rreq_queue)) = ReadsOf(req.id, <<>>, rreq_queue)
    BY <1>5, IssuedInFront, Zenon
  <2> QED
    BY <2>1, <2>2, <2>3, Zenon
<1>13. ASSUME NEW id \in Ids, id # req.id PROVE Waiting(id)' = Waiting(id)
  BY <1>3, <1>11, <1>13 DEF Waiting
<1>14. Axi!AnswerRead(req.id)
  <2> DEFINE waiting == [id \in Ids |-> Waiting(id)]
             beats == [k \in 1..req.len |->
                          [id |-> req.id, data |-> mem[req.addr + k - 1], last |-> k = req.len]]
  <2>1. waiting[req.id] # <<>> /\ Head(waiting[req.id]) = req
    BY <1>4, <1>12
  <2>2. waiting' = [waiting EXCEPT ![req.id] = Tail(@)]
    BY <1>4, <1>12, <1>13
  <2>3. rresp' = rresp \o beats
    BY <1>3 DEF Beats
  <2>4. [id \in Ids |-> Unacked(id)]' = [id \in Ids |-> Unacked(id)]
    BY <1>6
  <2> QED
    BY <1>3, <2>1, <2>2, <2>3, <2>4 DEF Axi!AnswerRead
<1> QED
  BY <1>4, <1>14

\* The timing model completes a write: an acknowledgement of its id is due.
LEMMA WriteCompleteRefines ==
    ASSUME Inv, NEW addr \in Addresses, write_complete(addr)
    PROVE  \E id \in Ids : Axi!Acknowledge(id)
<1>1. wreq[addr] \in Seq(Ids) /\ wreq[addr] # <<>>
  BY FiledIsQueued
<1> PICK wid \in Ids : wid = Head(wreq[addr])
  BY <1>1
<1>2. /\ bresp' = Append(bresp, wid) /\ wreq' = [wreq EXCEPT ![addr] = Tail(@)]
      /\ UNCHANGED <<mem, rreq_queue, rreq, store, rresp>>
  BY DEF write_complete
<1>3. ASSUME NEW id \in Ids PROVE Waiting(id)' = Waiting(id)
  BY <1>2, WaitingKept
<1>4. ASSUME NEW id \in Ids
      PROVE  /\ Unacked(id)' = IF id = wid THEN Unacked(id) - 1 ELSE Unacked(id)
             /\ id = wid => Unacked(id) > 0
  BY <1>1, <1>2, OneLessFiled DEF Inv
<1> QED
  BY <1>1, <1>2, <1>3, <1>4 DEF Axi!Acknowledge

\* Every step of the memory is one of AxiMemory, or changes nothing it knows.
LEMMA StepRefines ==
    ASSUME Inv, [Next]_vars
    PROVE  [Axi!Next]_(Axi!axi)
<1>1. CASE EndTick \/ UNCHANGED vars
  <2>1. UNCHANGED <<mem, rreq, rreq_queue, wreq, store, rresp, bresp>>
    BY <1>1 DEF EndTick, vars, queues, port
  <2>2. ASSUME NEW id \in Ids PROVE Unacked(id)' = Unacked(id) /\ Waiting(id)' = Waiting(id)
    BY <2>1, UnackedKept, WaitingKept
  <2> QED
    BY <2>1, <2>2 DEF Axi!axi
<1>2. CASE Tick
  BY <1>2, TickRefines
<1>3. ASSUME NEW id \in Ids, NEW addr \in Words, NEW len \in 1..MaxLen,
             AcceptRead(id, addr, len) \/ AcceptWrite(id, addr, len)
      PROVE  Axi!Next
  BY <1>3, AcceptReadRefines, AcceptWriteRefines DEF Axi!Next
<1>4. ASSUME NEW v \in Values, WriteBeat(v) PROVE Axi!Next
  BY <1>4, WriteBeatRefines DEF Axi!Next
<1>5. CASE TakeAck \/ TakeBeat
  BY <1>5, TakeRefines DEF Axi!Next
<1>6. ASSUME NEW addr \in Addresses, read_complete(addr) \/ write_complete(addr)
      PROVE  Axi!Next
  BY <1>6, ReadCompleteRefines, WriteCompleteRefines DEF Axi!Next
<1> QED
  BY <1>1, <1>2, <1>3, <1>4, <1>5, <1>6 DEF Next

\* read_id_busy never disagrees with the timing model, in whatever order it completes
\* what it was given: no id has two reads there, and none is held back for nothing.
THEOREM BusyAlwaysMeansIssued == Spec => []BusyMeansIssued
  BY MemoryInvariant, OneIssued, PTL

\* The design may treat the memory with +dramsim as one without a timing model, which
\* reads a burst at one instant, answers the reads of an id in order and acknowledges
\* a write once: although tick() issues queued reads past each other, and files a
\* write under an address that moved.
THEOREM DramRefinement == Spec => ImplementsAxiMemory
<1>1. Init /\ [][Next]_vars /\ []Inv => Axi!Init /\ [][Axi!Next]_(Axi!axi)
  BY InitRefines, StepRefines, PTL
<1> QED
  BY <1>1, MemoryInvariant, PTL DEF Spec, ImplementsAxiMemory, Axi!Spec
=============================================================================
