----------------------------- MODULE Boot_proofs -----------------------------
(* From reset to a woken hart: the words of the host reach the design in      *)
(* order, no access finds a stale block, and no store is lost, for any        *)
(* program, channels, chips, blocks and order of the resets.                  *)
EXTENDS Boot, WellFoundedInduction, SequenceTheorems, TLAPS

-----------------------------------------------------------------------------
(* Flattening a sequence of sequences.                                      *)

LEMMA LessIsWellFounded == IsWellFoundedOn({p \in Nat \X Nat : p[1] < p[2]}, Nat)
BY NatLessThanWellFounded, Zenon DEF OpToRel

\* Min chooses a member, and the least.
LEMMA MinIsMember ==
    ASSUME NEW S \in SUBSET Nat, S # {}
    PROVE  Min(S) \in S /\ \A i \in S : Min(S) <= i
<1> DEFINE Less == {p \in Nat \X Nat : p[1] < p[2]}
<1>1. PICK m \in S : \A i \in S : <<i, m>> \notin Less
  <2> HIDE DEF Less
  <2> QED  BY LessIsWellFounded, WFMin, Zenon DEF Less
<1>2. ASSUME NEW i \in S PROVE m <= i
  <2>1. i \in Nat /\ m \in Nat
    OBVIOUS
  <2>2. i < m => <<i, m>> \in Less
    BY <2>1
  <2> QED
    BY <1>1, <2>1, <2>2
<1> QED
  BY <1>2 DEF Min

\* A set of numbers that, with each k, has one below it is empty.
LEMMA NoSmallest ==
    ASSUME NEW Bad \in SUBSET Nat, \A k \in Bad : \E j \in Bad : j < k
    PROVE  Bad = {}
<1> SUFFICES ASSUME Bad # {} PROVE FALSE
  OBVIOUS
<1> DEFINE Less == {p \in Nat \X Nat : p[1] < p[2]}
<1>1. PICK m \in Bad : \A i \in Bad : <<i, m>> \notin Less
  <2> HIDE DEF Less
  <2> QED  BY LessIsWellFounded, WFMin, Zenon DEF Less
<1>2. PICK j \in Bad : j < m
  BY <1>1
<1>3. <<j, m>> \in Less
  BY <1>2
<1> QED
  BY <1>1, <1>2, <1>3

\* f holds the flattening of each prefix of the first n sequences.
Flattens(f, seqs, n) ==
    f = [i \in 1..n |-> IF i = 1 THEN seqs[i] ELSE f[i - 1] \o seqs[i]]

LEMMA FlatteningExists ==
    ASSUME NEW seqs, NEW n \in Nat
    PROVE  \E f : Flattens(f, seqs, n)
<1> DEFINE Bad == {m \in Nat : ~ \E f : Flattens(f, seqs, m)}
<1>1. ASSUME NEW m \in Bad PROVE \E j \in Bad : j < m
  <2> SUFFICES ASSUME \A j \in Bad : ~(j < m) PROVE FALSE
    OBVIOUS
  <2>1. m \in Nat
    OBVIOUS
  <2>2. CASE m = 0
    <3> DEFINE f == [i \in 1..0 |-> seqs[i]]
    <3>1. f = [i \in 1..0 |-> IF i = 1 THEN seqs[i] ELSE f[i - 1] \o seqs[i]]
      OBVIOUS
    <3> QED
      BY <2>2, <3>1, Zenon DEF Flattens
  <2>3. CASE m # 0
    <3>1. m - 1 \in Nat /\ m - 1 < m
      BY <2>1, <2>3
    <3>2. PICK f : Flattens(f, seqs, m - 1)
      BY <3>1
    <3> DEFINE g == [i \in 1..m |-> IF i = m THEN (IF m = 1 THEN seqs[m] ELSE f[m - 1] \o seqs[m]) ELSE f[i]]
    <3>3. ASSUME NEW i \in 1..m
          PROVE  g[i] = IF i = 1 THEN seqs[i] ELSE g[i - 1] \o seqs[i]
      <4>1. f = [k \in 1..(m - 1) |-> IF k = 1 THEN seqs[k] ELSE f[k - 1] \o seqs[k]]
        BY <3>2 DEF Flattens
      <4>2. CASE i = m
        <5>1. m # 1 => m - 1 \in 1..m /\ m - 1 # m
          BY <2>1, <2>3
        <5>2. m # 1 => g[m - 1] = f[m - 1]
          BY <5>1
        <5>3. g[m] = IF m = 1 THEN seqs[m] ELSE f[m - 1] \o seqs[m]
          BY <4>2
        <5> HIDE DEF g
        <5> QED
          BY <4>2, <5>2, <5>3, Zenon
      <4>3. CASE i # m
        <5>1. i \in 1..(m - 1) /\ (i # 1 => i - 1 \in 1..m /\ i - 1 # m)
          BY <2>1, <4>3
        <5>2. g[i] = f[i] /\ (i # 1 => g[i - 1] = f[i - 1])
          BY <4>3, <5>1
        <5> HIDE DEF g
        <5>3. f[i] = IF i = 1 THEN seqs[i] ELSE f[i - 1] \o seqs[i]
          BY <4>1, <5>1, Zenon
        <5> QED
          BY <5>2, <5>3, Zenon
      <4> QED
        BY <4>2, <4>3
    <3>4. g = [i \in 1..m |-> g[i]]
      OBVIOUS
    <3> HIDE DEF g
    <3>5. Flattens(g, seqs, m)
      BY <3>3, <3>4, Zenon DEF Flattens
    <3> QED
      BY <3>5
  <2> QED
    BY <2>2, <2>3
<1>2. Bad = {}
  <2>1. Bad \in SUBSET Nat
    OBVIOUS
  <2> HIDE DEF Bad
  <2> QED BY <1>1, <2>1, NoSmallest
<1> QED
  BY <1>2

\* What FlattenSeq is, without its recursion.
Flattening(f, seqs) ==
    /\ FlattenSeq(seqs) = f[Len(seqs)]
    /\ f[1] = seqs[1]
    /\ \A i \in 2..Len(seqs) : f[i] = f[i - 1] \o seqs[i]

LEMMA FlattenSeqFlattens ==
    ASSUME NEW S, NEW seqs \in Seq(S), seqs # <<>>
    PROVE  \E f : Flattening(f, seqs)
<1> DEFINE n == Len(seqs)
           f == CHOOSE f : Flattens(f, seqs, n)
<1>1. n \in Nat /\ n >= 1
  BY EmptySeq
<1>2. Flattens(f, seqs, n)
  BY <1>1, FlatteningExists, Zenon
<1>3. FlattenSeq(seqs) = f[n]
  <2>1. Len(seqs) # 0
    BY <1>1
  <2> QED
    BY <2>1, Zenon DEF FlattenSeq, Flattens
<1> HIDE DEF f
<1>4. f = [i \in 1..n |-> IF i = 1 THEN seqs[i] ELSE f[i - 1] \o seqs[i]]
  BY <1>2 DEF Flattens
<1>5. ASSUME NEW i \in 1..n
      PROVE  f[i] = IF i = 1 THEN seqs[i] ELSE f[i - 1] \o seqs[i]
  BY <1>4, Zenon
<1>6. 1 \in 1..n /\ \A i \in 2..n : i \in 1..n /\ i # 1
  BY <1>1
<1>7. f[1] = seqs[1] /\ \A i \in 2..n : f[i] = f[i - 1] \o seqs[i]
  <2> HIDE DEF n
  <2> QED
    BY <1>5, <1>6, Zenon
<1>8. Flattening(f, seqs)
  BY <1>3, <1>7 DEF Flattening
<1> QED
  BY <1>8

\* What holds of sequences and of their concatenation holds of their flattening.
LEMMA FlattenClosed ==
    ASSUME NEW S, <<>> \in S, \A s, t \in S : s \o t \in S, NEW seqs \in Seq(S)
    PROVE  FlattenSeq(seqs) \in S
<1>1. CASE seqs = <<>>
  <2>1. FlattenSeq(seqs) = seqs
    BY <1>1 DEF FlattenSeq
  <2> QED
    BY <1>1, <2>1
<1>2. CASE seqs # <<>>
  <2> DEFINE n == Len(seqs)
  <2>1. n \in Nat /\ n >= 1 /\ \A i \in 1..n : seqs[i] \in S
    BY <1>2, EmptySeq, ElementOfSeq
  <2>2. PICK f : Flattening(f, seqs)
    BY <1>2, FlattenSeqFlattens
  <2> DEFINE Bad == {i \in 1..n : f[i] \notin S}
  <2>3. ASSUME NEW k \in Bad PROVE \E j \in Bad : j < k
    <3>1. k \in 1..n /\ f[k] \notin S
      OBVIOUS
    <3>2. k # 1
      BY <2>1, <2>2, <3>1 DEF Flattening
    <3>3. k \in 2..n /\ k - 1 \in 1..n /\ k - 1 < k
      BY <2>1, <3>1, <3>2
    <3>4. f[k] = f[k - 1] \o seqs[k] /\ seqs[k] \in S
      BY <2>1, <2>2, <3>1, <3>3 DEF Flattening
    <3>5. f[k - 1] \notin S
      BY <3>1, <3>4
    <3> QED
      BY <3>3, <3>5
  <2>4. Bad \in SUBSET Nat
    BY <2>1
  <2>5. Bad = {}
    <3> HIDE DEF Bad
    <3> QED  BY <2>3, <2>4, NoSmallest
  <2>6. f[n] \in S
    BY <2>1, <2>5
  <2> QED
    BY <2>2, <2>6 DEF Flattening
<1> QED
  BY <1>1, <1>2

\* Whatever is in one of the sequences is in their flattening.
LEMMA FlattenKeeps ==
    ASSUME NEW S, NEW seqs \in Seq(Seq(S)), NEW k \in 1..Len(seqs), NEW j \in 1..Len(seqs[k])
    PROVE  \E i \in 1..Len(FlattenSeq(seqs)) : FlattenSeq(seqs)[i] = seqs[k][j]
<1> DEFINE n == Len(seqs)
           x == seqs[k][j]
           Has(s) == \E i \in 1..Len(s) : s[i] = x
<1>1. n \in Nat /\ k \in Nat /\ 1 <= k /\ k <= n /\ \A i \in 1..n : seqs[i] \in Seq(S)
  BY ElementOfSeq
<1>2. seqs # <<>>
  BY <1>1, EmptySeq
<1>3. PICK f : Flattening(f, seqs)
  BY <1>2, FlattenSeqFlattens
<1>4. \A i \in 1..n : f[i] \in Seq(S)
  <2> DEFINE Bad == {i \in 1..n : f[i] \notin Seq(S)}
  <2>1. ASSUME NEW m \in Bad PROVE \E l \in Bad : l < m
    <3>1. m \in 1..n /\ f[m] \notin Seq(S)
      OBVIOUS
    <3>2. m # 1
      BY <1>1, <1>3, <3>1 DEF Flattening
    <3>3. m \in 2..n /\ m - 1 \in 1..n /\ m - 1 < m
      BY <1>1, <3>1, <3>2
    <3>4. f[m] = f[m - 1] \o seqs[m] /\ seqs[m] \in Seq(S)
      BY <1>1, <1>3, <3>1, <3>3 DEF Flattening
    <3>5. f[m - 1] \notin Seq(S)
      BY <3>1, <3>4, ConcatProperties
    <3> QED
      BY <3>3, <3>5
  <2>2. Bad \in SUBSET Nat
    BY <1>1
  <2>3. Bad = {}
    <3> HIDE DEF Bad
    <3> QED  BY <2>1, <2>2, NoSmallest
  <2> QED
    BY <2>3
<1>5. ASSUME NEW s \in Seq(S), NEW t \in Seq(S), Has(s) \/ Has(t)
      PROVE  Has(s \o t)
  <2> HIDE DEF x
  <2>1. /\ Len(s) \in Nat /\ Len(t) \in Nat /\ Len(s \o t) = Len(s) + Len(t)
        /\ \A i \in 1..(Len(s) + Len(t)) : (s \o t)[i] = IF i <= Len(s) THEN s[i] ELSE t[i - Len(s)]
    BY ConcatProperties, LenProperties
  <2>2. CASE Has(s)
    <3>1. PICK i \in 1..Len(s) : s[i] = x
      BY <2>2
    <3>2. i \in 1..(Len(s) + Len(t)) /\ i <= Len(s)
      BY <2>1
    <3>3. (s \o t)[i] = x
      BY <2>1, <3>1, <3>2
    <3> QED
      BY <2>1, <3>2, <3>3
  <2>3. CASE Has(t)
    <3>1. PICK i \in 1..Len(t) : t[i] = x
      BY <2>3
    <3>2. i + Len(s) \in 1..(Len(s) + Len(t)) /\ ~(i + Len(s) <= Len(s)) /\ (i + Len(s)) - Len(s) = i
      BY <2>1
    <3>3. (s \o t)[i + Len(s)] = x
      BY <2>1, <3>1, <3>2
    <3> QED
      BY <2>1, <3>2, <3>3
  <2> QED
    BY <1>5, <2>2, <2>3
<1>6. Has(seqs[k])
  OBVIOUS
<1> HIDE DEF x, Has
<1>7. \A i \in k..n : Has(f[i])
  <2> DEFINE Bad == {i \in k..n : ~Has(f[i])}
  <2>1. ASSUME NEW m \in Bad PROVE \E l \in Bad : l < m
    <3>1. m \in k..n /\ ~Has(f[m]) /\ m \in 1..n
      BY <1>1
    <3>2. CASE m = 1
      <4>1. k = 1
        BY <1>1, <3>1, <3>2
      <4> QED
        BY <1>3, <1>6, <3>1, <3>2, <4>1 DEF Flattening
    <3>3. CASE m # 1
      <4>1. m \in 2..n /\ m - 1 \in 1..n /\ m - 1 < m
        BY <1>1, <3>1, <3>3
      <4>2. f[m] = f[m - 1] \o seqs[m] /\ seqs[m] \in Seq(S) /\ f[m - 1] \in Seq(S)
        BY <1>1, <1>3, <1>4, <3>1, <4>1 DEF Flattening
      <4>3. ~Has(f[m - 1]) /\ ~Has(seqs[m])
        BY <1>5, <3>1, <4>2
      <4>4. m # k
        BY <1>6, <4>3
      <4>5. m - 1 \in k..n
        BY <1>1, <3>1, <4>1, <4>4
      <4> QED
        BY <4>1, <4>3, <4>5
    <3> QED
      BY <3>2, <3>3
  <2>2. Bad \in SUBSET Nat
    BY <1>1
  <2>3. Bad = {}
    <3> HIDE DEF Bad
    <3> QED  BY <2>1, <2>2, NoSmallest
  <2> QED
    BY <2>3
<1>8. Has(f[n])
  BY <1>1, <1>7
<1> QED
  BY <1>3, <1>8 DEF Flattening, Has, x
-----------------------------------------------------------------------------
(* Messages, and the flushes before an access.                              *)
\* A word of the host: a message to the design.
Message == [op : {"flush", "write", "read", "msip"}, addr : Nat, len : Nat \ {0}, val : {Zero, Text, Datum}]

Accessing(m) == m.op \in {"read", "write"}
Blocks(m) == {a \div cblock_bytes : a \in Chunk(m)}

\* No access comes before the i-th message of s.
Untouched(s, i) == \A k \in 1..(i - 1) : ~Accessing(s[k])

\* Block b is flushed before the i-th message, and nothing is accessed in between.
Fresh(s, i, b) ==
    \E j \in 1..(i - 1) :
        /\ s[j].op = "flush" /\ s[j].addr = b
        /\ \A k \in j..(i - 1) : ~Accessing(s[k])

\* Every access in s comes after flushes of its blocks, those already flushed included.
Guarded(s, blocks) ==
    \A i \in 1..Len(s) : Accessing(s[i]) =>
        \A b \in Blocks(s[i]) : (b \in blocks /\ Untouched(s, i)) \/ Fresh(s, i, b)

\* The messages the design has not carried out.
Left == serving \o in_data \o plan

\* The script loads the program, and wakes the hart last.
ScriptKept ==
    /\ script \in Seq(Message)
    /\ \A i \in 1..Len(script) :
          /\ script[i].op = "msip" => i = Len(script)
          /\ script[i].op = "write" => script[i].val \in {Text, Datum}
    /\ ~loadmem => \A i \in DOMAIN Program : \E j \in 1..Len(script) :
          script[j] = Access("write", Program[i].addr, Program[i].len, Text)

\* What is done and what is left is the script, then polls.
WordsKept ==
    /\ {serving, in_data, plan, in_reg, done} \subseteq Seq(Message)
    /\ Len(serving) <= 1
    /\ in_reg = SubSeq(in_data, 1, IF in_data = <<>> THEN 0 ELSE 1)
    /\ Len(done) <= Len(script) /\ Len(script) <= Len(done) + Len(Left)
    /\ \A i \in 1..Len(script) : script[i] = IF i <= Len(done) THEN done[i] ELSE Left[i - Len(done)]
    /\ \A i \in 1..Len(Left) : i + Len(done) > Len(script) => Left[i].op \in {"flush", "read"}

FlushesKept == cflush => Guarded(Left, flushed)

MemoryKept ==
    /\ initialized \in [Channels -> BOOLEAN]
    /\ fault \in {"none", "strayed", "aborted"}
    /\ DOMAIN backing = {Key(c) : c \in {d \in Channels : initialized[d]}}
    /\ \A c \in Channels : initialized[c] => backing[Key(c)] \in [Offsets(c) -> -3..3]
    /\ written \in [Addresses -> -3..3]
    /\ StoresKept
    /\ fault = "none" =>
          \A a \in Addresses : Key(ChannelOf[a]) \notin DOMAIN backing => written[a] = FromFile(a)

\* The program's byte at a is in memory from the start, or its write was carried out.
Placed(a) ==
    \/ loadmem /\ InProgram(a)
    \/ \E j \in 1..Len(done) : done[j].op = "write" /\ done[j].val = Text /\ a \in Chunk(done[j])

ProgramKept ==
    fault = "none" =>
        \A a \in Addresses : Placed(a) /\ ~Replaced(a) /\ a # Tohost => written[a] = Text

HartKept == 
    /\ woken => Len(done) = Len(script)
    /\ code \in -1..1 /\ exit \in {0, 1, 3}
    /\ loadmem \in BOOLEAN /\ cflush \in BOOLEAN /\ msip \in BOOLEAN
    /\ Len(out_data) <= 1
    /\ out_data # <<>> => (out_data[1].addr = Tohost => out_data[1].val \in -3..3)

IInv == ScriptKept /\ WordsKept /\ FlushesKept /\ MemoryKept /\ ProgramKept /\ HartKept

Messages == Seq(Message)

LEMMA ConcatParts ==
    ASSUME NEW s \in Messages, NEW t \in Messages
    PROVE  /\ s \o t \in Messages /\ Len(s) \in Nat /\ Len(t) \in Nat
           /\ Len(s \o t) = Len(s) + Len(t)
           /\ \A i \in 1..Len(s) : (s \o t)[i] = s[i]
           /\ \A i \in 1..Len(t) : (s \o t)[Len(s) + i] = t[i]
           /\ \A i \in 1..(Len(s) + Len(t)) : (s \o t)[i] = IF i <= Len(s) THEN s[i] ELSE t[i - Len(s)]
BY ConcatProperties, LenProperties DEF Messages

LEMMA TailParts ==
    ASSUME NEW s \in Messages, s # <<>>
    PROVE  /\ Head(s) \in Message /\ Tail(s) \in Messages /\ Head(s) = s[1]
           /\ Len(s) \in Nat /\ Len(s) >= 1 /\ Len(Tail(s)) = Len(s) - 1
           /\ \A i \in 1..(Len(s) - 1) : Tail(s)[i] = s[i + 1]
BY HeadTailProperties, EmptySeq, LenProperties DEF Messages

\* Guarded sequences stay guarded when they follow each other.
LEMMA ConcatGuarded ==
    ASSUME NEW s \in Messages, NEW t \in Messages, NEW blocks, Guarded(s, blocks), Guarded(t, {})
    PROVE  Guarded(s \o t, blocks)
<1> DEFINE u == s \o t
           n == Len(s)
           m == Len(t)
<1>1. /\ n \in Nat /\ m \in Nat /\ Len(u) = n + m
      /\ \A i \in 1..n : u[i] = s[i]
      /\ \A i \in 1..m : u[n + i] = t[i]
  BY ConcatParts
<1> SUFFICES ASSUME NEW i \in 1..(n + m), Accessing(u[i]), NEW b \in Blocks(u[i])
             PROVE  (b \in blocks /\ Untouched(u, i)) \/ Fresh(u, i, b)
  BY <1>1 DEF Guarded
<1> HIDE DEF u, n, m
<1>2. CASE i <= n
  <2>1. i \in 1..n /\ \A k \in 1..i : k \in 1..n /\ u[k] = s[k]
    BY <1>1, <1>2
  <2>2. u[i] = s[i]
    BY <2>1
  <2>3. (b \in blocks /\ Untouched(s, i)) \/ Fresh(s, i, b)
    BY <2>1, <2>2 DEF Guarded, n
  <2>4. \A k \in 1..(i - 1) : u[k] = s[k]
    BY <1>1, <2>1
  <2>5. Untouched(s, i) => Untouched(u, i)
    BY <2>4 DEF Untouched
  <2>6. ASSUME Fresh(s, i, b) PROVE Fresh(u, i, b)
    <3>1. PICK j \in 1..(i - 1) : s[j].op = "flush" /\ s[j].addr = b /\ \A k \in j..(i - 1) : ~Accessing(s[k])
      BY <2>6 DEF Fresh
    <3>2. \A k \in j..(i - 1) : k \in 1..(i - 1)
      BY <1>1
    <3> QED
      BY <2>4, <3>1, <3>2 DEF Fresh
  <2> QED
    BY <2>3, <2>5, <2>6
<1>3. CASE ~(i <= n)
  <2> DEFINE h == i - n
  <2>1. h \in 1..m /\ i = n + h
    BY <1>1, <1>3
  <2> HIDE DEF h
  <2>2. u[i] = t[h]
    BY <1>1, <2>1
  <2>3. Fresh(t, h, b)
    BY <2>1, <2>2 DEF Guarded, m
  <2>4. PICK j \in 1..(h - 1) : t[j].op = "flush" /\ t[j].addr = b /\ \A k \in j..(h - 1) : ~Accessing(t[k])
    BY <2>3 DEF Fresh
  <2>5. j \in 1..m /\ n + j \in 1..(i - 1) /\ u[n + j] = t[j]
    BY <1>1, <2>1
  <2>6. ASSUME NEW k \in (n + j)..(i - 1) PROVE ~Accessing(u[k])
    <3>1. k - n \in j..(h - 1) /\ k - n \in 1..m /\ n + (k - n) = k
      BY <1>1, <2>1
    <3>2. u[k] = t[k - n]
      BY <1>1, <3>1
    <3> QED
      BY <2>4, <3>1, <3>2
  <2>7. Fresh(u, i, b)
    BY <2>4, <2>5, <2>6 DEF Fresh
  <2> QED
    BY <2>7
<1> QED
  BY <1>2, <1>3

\* The blocks flushed once message m is carried out.
After(m, blocks) ==
    IF m.op = "flush" THEN blocks \cup {m.addr} ELSE IF Accessing(m) THEN {} ELSE blocks

\* Carrying out the first message leaves the others guarded.
LEMMA TailGuarded ==
    ASSUME NEW s \in Messages, s # <<>>, NEW blocks, Guarded(s, blocks)
    PROVE  Guarded(Tail(s), After(s[1], blocks))
<1> DEFINE t == Tail(s)
           n == Len(t)
<1>1. /\ n \in Nat /\ Len(s) = n + 1
      /\ \A i \in 1..n : t[i] = s[i + 1]
  BY TailParts
<1> SUFFICES ASSUME NEW i \in 1..n, Accessing(t[i]), NEW b \in Blocks(t[i])
             PROVE  (b \in After(s[1], blocks) /\ Untouched(t, i)) \/ Fresh(t, i, b)
  BY DEF Guarded
<1> HIDE DEF t, n
<1>2. i + 1 \in 1..Len(s) /\ t[i] = s[i + 1] /\ (i + 1) - 1 = i
  BY <1>1
<1>3. (b \in blocks /\ Untouched(s, i + 1)) \/ Fresh(s, i + 1, b)
  BY <1>2 DEF Guarded
<1>4. \A k \in 1..(i - 1) : t[k] = s[k + 1] /\ k + 1 \in 1..i
  BY <1>1
<1>5. CASE b \in blocks /\ Untouched(s, i + 1)
  <2>1. \A k \in 1..i : ~Accessing(s[k])
    BY <1>2, <1>5 DEF Untouched
  <2>2. Untouched(t, i)
    BY <1>4, <2>1 DEF Untouched
  <2>3. ~Accessing(s[1])
    BY <1>1, <2>1
  <2> QED
    BY <1>5, <2>2, <2>3 DEF After
<1>6. CASE Fresh(s, i + 1, b)
  <2>1. PICK j \in 1..i : s[j].op = "flush" /\ s[j].addr = b /\ \A k \in j..i : ~Accessing(s[k])
    BY <1>2, <1>6 DEF Fresh
  <2>2. CASE j = 1
    <3>1. \A k \in 1..(i - 1) : ~Accessing(t[k])
      BY <1>4, <2>1, <2>2
    <3>2. b \in After(s[1], blocks)
      BY <2>1, <2>2 DEF After
    <3> QED
      BY <3>1, <3>2 DEF Untouched
  <2>3. CASE j # 1
    <3>1. j - 1 \in 1..(i - 1) /\ t[j - 1] = s[j]
      <4>1. j - 1 \in 1..(i - 1) /\ (j - 1) + 1 = j
        BY <1>1, <2>3
      <4> QED
        BY <1>4, <4>1
    <3>2. ASSUME NEW k \in (j - 1)..(i - 1) PROVE ~Accessing(t[k])
      <4>1. k \in 1..(i - 1) /\ k + 1 \in j..i
        BY <1>1, <2>3
      <4> QED
        BY <1>4, <2>1, <4>1
    <3> QED
      BY <2>1, <3>1, <3>2 DEF Fresh
  <2> QED
    BY <2>2, <2>3
<1> QED
  BY <1>3, <1>5, <1>6

LEMMA DivBounds ==
    ASSUME NEW d \in Nat \ {0}, NEW a \in Nat
    PROVE  a \div d \in Int /\ d * (a \div d) <= a /\ a < d * (a \div d) + d
<1>1. a \div d \in Int
  OBVIOUS
<1>2. d * (a \div d) <= a
  OBVIOUS
<1>3. a < d * (a \div d) + d
  OBVIOUS
<1> QED
  BY <1>1, <1>2, <1>3

LEMMA QuotientsInOrder ==
    ASSUME NEW d \in Nat \ {0}, NEW p \in Int, NEW q \in Int, d * p < d * q + d
    PROVE  p <= q
<1>1. ASSUME p > q PROVE FALSE
  <2>1. p >= q + 1
    BY <1>1
  <2>2. d * p >= d * (q + 1)
    BY <2>1
  <2>3. d * (q + 1) = d * q + d
    OBVIOUS
  <2> QED
    BY <2>2, <2>3
<1> QED
  BY <1>1

\* The blocks of the bytes are in the order of the bytes.
LEMMA DivBetween ==
    ASSUME NEW d \in Nat \ {0}, NEW a \in Nat, NEW b \in Nat, a <= b
    PROVE  a \div d \in Nat /\ b \div d \in Nat /\ a \div d <= b \div d
<1> DEFINE p == a \div d
           q == b \div d
<1>1. p \in Int /\ q \in Int /\ d * p <= a /\ a < d * p + d /\ d * q <= b /\ b < d * q + d
  BY DivBounds
<1> HIDE DEF p, q
<1>2. p <= q
  <2>1. d * p \in Int /\ d * q \in Int
    BY <1>1
  <2>2. d * p < d * q + d
    BY <1>1, <2>1
  <2> QED
    BY <1>1, <2>2, QuotientsInOrder
<1>3. 0 <= p
  <2>1. d * 0 = 0 /\ d * p \in Int
    BY <1>1
  <2>2. d * 0 < d * p + d
    BY <1>1, <2>1
  <2> QED
    BY <1>1, <2>2, QuotientsInOrder
<1> QED
  BY <1>1, <1>2, <1>3 DEF p, q

LEMMA FlushesParts ==
    ASSUME NEW addr \in Nat, NEW nbytes \in Nat \ {0}
    PROVE  LET blocks == flush_cache_lines(addr, nbytes)
           IN  /\ blocks \in Seq(Nat)
               /\ \A a \in addr..(addr + nbytes - 1) :
                     \E i \in 1..Len(blocks) : blocks[i] = a \div cblock_bytes
<1> DEFINE base == addr \div cblock_bytes
           last == (addr + nbytes - 1) \div cblock_bytes
           blocks == flush_cache_lines(addr, nbytes)
           n == last - base + 1
<1>0. cblock_bytes \in Nat \ {0}
  BY BootAssumption
<1>1. base \in Nat /\ last \in Nat /\ base <= last
  <2>1. addr + nbytes - 1 \in Nat /\ addr <= addr + nbytes - 1
    OBVIOUS
  <2> QED
    BY <1>0, <2>1, DivBetween
<1>2. n \in Nat /\ blocks = [i \in 1..n |-> base + i - 1]
  BY <1>1 DEF flush_cache_lines
<1>3. ASSUME NEW a \in addr..(addr + nbytes - 1)
      PROVE  a \div cblock_bytes \in Nat /\ base <= a \div cblock_bytes /\ a \div cblock_bytes <= last
  <2>1. a \in Nat /\ addr + nbytes - 1 \in Nat /\ addr <= a /\ a <= addr + nbytes - 1
    OBVIOUS
  <2>2. a \div cblock_bytes \in Nat /\ base <= a \div cblock_bytes
    BY <1>0, <2>1, DivBetween
  <2>3. a \div cblock_bytes <= last
    BY <1>0, <2>1, DivBetween
  <2> QED
    BY <2>2, <2>3
<1>4. blocks \in Seq(Nat) /\ Len(blocks) = n
  <2> HIDE DEF base, last
  <2> QED
    BY <1>1, <1>2
<1>5. ASSUME NEW a \in addr..(addr + nbytes - 1)
      PROVE  \E i \in 1..Len(blocks) : blocks[i] = a \div cblock_bytes
  <2> DEFINE c == a \div cblock_bytes
             i == c - base + 1
  <2>1. c \in Nat /\ base <= c /\ c <= last
    BY <1>3
  <2> HIDE DEF c, base, last, blocks
  <2>2. i \in 1..n /\ base + i - 1 = c
    BY <1>1, <2>1
  <2>3. blocks[i] = c
    BY <1>2, <2>2
  <2> QED
    BY <1>4, <2>2, <2>3 DEF c
<1> QED
  BY <1>4, <1>5

\* A message goes out behind the flushes of its blocks.
LEMMA FlushedParts ==
    ASSUME NEW m \in Message
    PROVE  /\ Flushed(m) \in Messages /\ Len(Flushed(m)) \in Nat /\ Len(Flushed(m)) >= 1
           /\ Flushed(m)[Len(Flushed(m))] = m
           /\ \A i \in 1..(Len(Flushed(m)) - 1) : Flushed(m)[i].op = "flush"
           /\ cflush => Guarded(Flushed(m), {})
<1> DEFINE blocks == flush_cache_lines(m.addr, m.len)
           s == IF cflush THEN [i \in DOMAIN blocks |-> Access("flush", blocks[i], 1, Zero)] ELSE <<>>
           n == Len(s)
           t == Flushed(m)
<1>1. m.addr \in Nat /\ m.len \in Nat \ {0}
  BY DEF Message
<1>2. /\ blocks \in Seq(Nat) /\ Len(blocks) \in Nat /\ DOMAIN blocks = 1..Len(blocks)
      /\ \A a \in m.addr..(m.addr + m.len - 1) :
            \E i \in 1..Len(blocks) : blocks[i] = a \div cblock_bytes
  <2>1. blocks \in Seq(Nat) /\ \A a \in m.addr..(m.addr + m.len - 1) :
            \E i \in 1..Len(blocks) : blocks[i] = a \div cblock_bytes
    BY <1>1, FlushesParts
  <2> HIDE DEF blocks
  <2> QED
    BY <2>1, LenProperties
<1> HIDE DEF blocks
<1>3. /\ s \in Messages /\ n \in Nat
      /\ \A i \in 1..n : s[i].op = "flush"
      /\ cflush => n = Len(blocks) /\ \A i \in 1..n : s[i] = Access("flush", blocks[i], 1, Zero)
  <2>1. CASE cflush
    <3>1. s = [i \in 1..Len(blocks) |-> Access("flush", blocks[i], 1, Zero)]
      BY <1>2, <2>1
    <3>2. \A i \in 1..Len(blocks) : Access("flush", blocks[i], 1, Zero) \in Message
      BY <1>2, ElementOfSeq DEF Access, Message, Zero
    <3>3. s \in Messages /\ n = Len(blocks)
      <4> HIDE DEF s
      <4>1. s \in [1..Len(blocks) -> Message]
        BY <3>1, <3>2
      <4>2. s \in Seq(Message)
        BY <1>2, <4>1
      <4> QED
        BY <1>2, <3>1, <4>2 DEF Messages
    <3>4. \A i \in 1..n : s[i] = Access("flush", blocks[i], 1, Zero)
      <4> HIDE DEF s
      <4> QED  BY <3>1, <3>3
    <3> HIDE DEF s
    <3>5. ASSUME NEW i \in 1..n PROVE s[i].op = "flush"
      <4>1. s[i] = Access("flush", blocks[i], 1, Zero)
        BY <3>4
      <4>2. \A x : Access("flush", x, 1, Zero).op = "flush"
        BY DEF Access
      <4> QED
        BY <4>1, <4>2
    <3>6. n \in Nat
      BY <1>2, <3>3
    <3> QED
      BY <3>3, <3>4, <3>5, <3>6
  <2>2. CASE ~cflush
    BY <2>2, EmptySeq DEF Messages
  <2> QED
    BY <2>1, <2>2
<1>4. t = s \o <<m>>
  BY DEF Flushed, blocks
<1>5. <<m>> \in Messages /\ Len(<<m>>) = 1 /\ <<m>>[1] = m
  BY DEF Messages
<1> HIDE DEF s, n, t
<1>6. /\ t \in Messages /\ Len(t) = n + 1 /\ t[n + 1] = m
      /\ \A i \in 1..n : t[i] = s[i]
  <2>1. /\ s \o <<m>> \in Messages /\ Len(s) \in Nat
        /\ Len(s \o <<m>>) = Len(s) + Len(<<m>>)
        /\ \A i \in 1..Len(s) : (s \o <<m>>)[i] = s[i]
        /\ \A i \in 1..Len(<<m>>) : (s \o <<m>>)[Len(s) + i] = <<m>>[i]
    BY <1>3, <1>5, ConcatParts
  <2>2. (s \o <<m>>)[Len(s) + 1] = m
    BY <1>5, <2>1
  <2> QED
    BY <1>4, <1>5, <2>1, <2>2 DEF n
<1>7. \A i \in 1..n : t[i].op = "flush"
  BY <1>3, <1>6
<1>8. ASSUME cflush PROVE Guarded(t, {})
  <2> SUFFICES ASSUME NEW i \in 1..(n + 1), Accessing(t[i]), NEW b \in Blocks(t[i])
               PROVE  Fresh(t, i, b)
    BY <1>6 DEF Guarded
  <2>1. i = n + 1 /\ t[i] = m
    BY <1>3, <1>6, <1>7 DEF Accessing
  <2>2. PICK a \in m.addr..(m.addr + m.len - 1) : b = a \div cblock_bytes
    BY <2>1 DEF Blocks, Chunk
  <2>3. PICK j \in 1..n : blocks[j] = b
    BY <1>2, <1>3, <1>8, <2>2
  <2>4. t[j] = Access("flush", b, 1, Zero)
    BY <1>3, <1>6, <1>8, <2>3
  <2>5. \A k \in j..n : k \in 1..n /\ ~Accessing(t[k])
    BY <1>3, <1>7 DEF Accessing
  <2>6. j \in 1..(i - 1) /\ (i - 1) = n
    BY <1>3, <2>1
  <2> QED
    BY <2>4, <2>5, <2>6 DEF Fresh, Access
<1>9. Len(t) - 1 = n
  BY <1>3, <1>6
<1> QED
  BY <1>3, <1>6, <1>7, <1>8, <1>9 DEF t

\* A sequence that neither wakes the hart nor writes anything but the program and data.
Plain(s) ==
    /\ \A i \in 1..Len(s) : s[i].op # "msip" /\ (s[i].op = "write" => s[i].val \in {Text, Datum})
    /\ cflush => Guarded(s, {})

Plains == {s \in Messages : Plain(s)}

LEMMA EmptyPlain == <<>> \in Plains
BY EmptySeq DEF Plains, Plain, Messages, Guarded

LEMMA ConcatPlain ==
    ASSUME NEW s \in Plains, NEW t \in Plains
    PROVE  s \o t \in Plains
<1>1. s \in Messages /\ t \in Messages /\ Plain(s) /\ Plain(t)
  BY DEF Plains
<1>2. /\ s \o t \in Messages /\ Len(s) \in Nat /\ Len(t) \in Nat
      /\ Len(s \o t) = Len(s) + Len(t)
      /\ \A i \in 1..(Len(s) + Len(t)) : (s \o t)[i] = IF i <= Len(s) THEN s[i] ELSE t[i - Len(s)]
  BY <1>1, ConcatParts
<1>3. ASSUME NEW i \in 1..(Len(s) + Len(t))
      PROVE  /\ (s \o t)[i].op # "msip"
             /\ (s \o t)[i].op = "write" => (s \o t)[i].val \in {Text, Datum}
  <2>1. CASE i <= Len(s)
    <3>1. i \in 1..Len(s) /\ (s \o t)[i] = s[i]
      BY <1>2, <2>1
    <3> QED
      BY <1>1, <3>1 DEF Plain
  <2>2. CASE ~(i <= Len(s))
    <3>1. i - Len(s) \in 1..Len(t) /\ (s \o t)[i] = t[i - Len(s)]
      BY <1>2, <2>2
    <3> QED
      BY <1>1, <3>1 DEF Plain
  <2> QED
    BY <2>1, <2>2
<1>4. cflush => Guarded(s \o t, {})
  BY <1>1, ConcatGuarded DEF Plain
<1> QED
  BY <1>2, <1>3, <1>4 DEF Plains, Plain

LEMMA FlushedPlain ==
    ASSUME NEW m \in Message, m.op # "msip", m.op = "write" => m.val \in {Text, Datum}
    PROVE  Flushed(m) \in Plains
<1> DEFINE t == Flushed(m)
           n == Len(t)
<1>1. /\ t \in Messages /\ n \in Nat /\ n >= 1 /\ t[n] = m
      /\ \A i \in 1..(n - 1) : t[i].op = "flush"
      /\ cflush => Guarded(t, {})
  BY FlushedParts
<1> HIDE DEF t, n
<1>2. ASSUME NEW i \in 1..n
      PROVE  t[i].op # "msip" /\ (t[i].op = "write" => t[i].val \in {Text, Datum})
  <2>1. CASE i = n
    BY <1>1, <2>1
  <2>2. CASE i # n
    <3>1. i \in 1..(n - 1)
      BY <1>1, <2>2
    <3> QED
      BY <1>1, <3>1
  <2> QED
    BY <2>1, <2>2
<1> QED
  BY <1>1, <1>2 DEF Plains, Plain, t, n

\* The writes of the program are plain, and all of them are there.
LEMMA ProgramSent ==
    /\ load_program \in Plains
    /\ ~loadmem => \A i \in DOMAIN Program : \E j \in 1..Len(load_program) :
          load_program[j] = Access("write", Program[i].addr, Program[i].len, Text)
<1> DEFINE Load(i) == Access("write", Program[i].addr, Program[i].len, Text)
           n == Len(Program)
           seqs == [i \in 1..n |-> Flushed(Load(i))]
<1>1. CASE loadmem
  BY <1>1, EmptyPlain DEF load_program
<1>2. CASE ~loadmem
  <2>1. n \in Nat /\ DOMAIN Program = 1..n /\ \A i \in 1..n : Program[i] \in [addr : Nat, len : Nat \ {0}]
    <3> DEFINE Chunks == [addr : Nat, len : Nat \ {0}]
    <3>1. Program \in Seq(Chunks)
      BY BootAssumption
    <3> HIDE DEF Chunks
    <3>2. n \in Nat /\ DOMAIN Program = 1..n /\ \A i \in 1..n : Program[i] \in Chunks
      BY <3>1, LenProperties, ElementOfSeq
    <3> QED
      BY <3>2 DEF Chunks
  <2>2. load_program = FlattenSeq(seqs)
    BY <1>2, <2>1 DEF load_program
  <2>3. ASSUME NEW i \in 1..n
        PROVE  Load(i) \in Message /\ Load(i).op = "write" /\ Load(i).val = Text
    BY <2>1 DEF Access, Message
  <2>4. \A i \in 1..n : Flushed(Load(i)) \in Plains
    <3> HIDE DEF Load
    <3> QED  BY <2>3, FlushedPlain
  <2> HIDE DEF n, Load
  <2>5. /\ seqs \in Seq(Plains) /\ Len(seqs) = n
        /\ \A i \in 1..n : seqs[i] = Flushed(Load(i))
    <3>1. seqs \in [1..n -> Plains]
      BY <2>4
    <3> QED
      BY <2>1, <3>1
  <2> HIDE DEF seqs
  <2>6. load_program \in Plains
    BY <2>2, <2>5, EmptyPlain, ConcatPlain, FlattenClosed
  <2>7. ASSUME NEW i \in 1..n
        PROVE  \E j \in 1..Len(load_program) : load_program[j] = Load(i)
    <3> DEFINE t == seqs[i]
    <3>1. Load(i) \in Message
      BY <2>3
    <3>2. t = Flushed(Load(i)) /\ Len(t) \in 1..Len(t) /\ t[Len(t)] = Load(i)
      BY <2>5, <3>1, FlushedParts
    <3>3. seqs \in Seq(Seq(Message)) /\ i \in 1..Len(seqs)
      <4>1. Plains \subseteq Seq(Message)
        BY DEF Plains, Messages
      <4> QED
        BY <2>5, <4>1, SeqMonotonic
    <3> QED
      BY <2>2, <3>2, <3>3, FlattenKeeps
  <2> QED
    BY <1>2, <2>1, <2>6, <2>7 DEF Load
<1> QED
  BY <1>1, <1>2

LEMMA InitAccessesSent ==
    ASSUME NEW accesses \in Accesses
    PROVE  perform_init_accesses(accesses) \in Plains
<1> DEFINE Sent(i) == IF accesses[i].store THEN Access("write", accesses[i].addr, accesses[i].len, Datum)
                      ELSE Access("read", accesses[i].addr, accesses[i].len, Zero)
           n == Len(accesses)
           seqs == [i \in 1..n |-> Flushed(Sent(i))]
<1>1. accesses \in Seq([addr : Nat, len : Nat \ {0}, store : BOOLEAN])
  BY BootAssumption
<1>2. /\ n \in Nat /\ DOMAIN accesses = 1..n
      /\ \A i \in 1..n : accesses[i] \in [addr : Nat, len : Nat \ {0}, store : BOOLEAN]
  BY <1>1, LenProperties, ElementOfSeq
<1>3. perform_init_accesses(accesses) = FlattenSeq(seqs)
  BY <1>2 DEF perform_init_accesses
<1>4. ASSUME NEW i \in 1..n
      PROVE  Sent(i) \in Message /\ Sent(i).op # "msip" /\ (Sent(i).op = "write" => Sent(i).val = Datum)
  <2>1. accesses[i].addr \in Nat /\ accesses[i].len \in Nat \ {0}
    BY <1>2
  <2>2. CASE accesses[i].store
    BY <2>1, <2>2 DEF Access, Message
  <2>3. CASE ~accesses[i].store
    BY <2>1, <2>3 DEF Access, Message
  <2> QED
    BY <2>2, <2>3
<1>5. \A i \in 1..n : Flushed(Sent(i)) \in Plains
  <2> HIDE DEF Sent
  <2> QED  BY <1>4, FlushedPlain
<1> HIDE DEF n, Sent
<1>6. seqs \in Seq(Plains)
  <2>1. seqs \in [1..n -> Plains]
    BY <1>5
  <2> QED
    BY <1>2, <2>1
<1> HIDE DEF seqs
<1> QED
  BY <1>3, <1>6, EmptyPlain, ConcatPlain, FlattenClosed

\* What Plan sends.
Planned(s) ==
    /\ s \in Messages
    /\ \A i \in 1..Len(s) :
          /\ s[i].op = "msip" => i = Len(s)
          /\ s[i].op = "write" => s[i].val \in {Text, Datum}
    /\ ~loadmem => \A i \in DOMAIN Program : \E j \in 1..Len(s) :
          s[j] = Access("write", Program[i].addr, Program[i].len, Text)
    /\ cflush => Guarded(s, {})

LEMMA WakeParts ==
    /\ Wake \in Messages /\ Len(Wake) \in Nat
    /\ \A i \in 1..Len(Wake) : (Wake[i].op = "msip" => i = Len(Wake)) /\ Wake[i].op # "write"
    /\ cflush => Guarded(Wake, {})
<1>1. CASE ~msip
  BY <1>1, EmptySeq DEF Wake, Messages, Guarded
<1>2. CASE msip
  <2> DEFINE m == Access("msip", Msip, 1, Zero)
             t == Flushed(m)
             n == Len(t)
  <2>1. m \in Message /\ m.op = "msip"
    BY BootAssumption DEF Access, Message
  <2> HIDE DEF m
  <2>2. /\ t \in Messages /\ n \in Nat /\ n >= 1 /\ t[n] = m
        /\ \A i \in 1..(n - 1) : t[i].op = "flush"
        /\ cflush => Guarded(t, {})
    BY <2>1, FlushedParts
  <2> HIDE DEF t, n
  <2>3. ASSUME NEW i \in 1..n PROVE (t[i].op = "msip" => i = n) /\ t[i].op # "write"
    <3>1. i = n \/ i \in 1..(n - 1)
      BY <2>2
    <3> QED
      BY <2>1, <2>2, <3>1
  <2>4. Wake = t
    BY <1>2 DEF Wake, t, m
  <2> QED
    BY <2>2, <2>3, <2>4 DEF n
<1> QED
  BY <1>1, <1>2

LEMMA PlanParts ==
    ASSUME NEW accesses \in Accesses
    PROVE  Planned(Plan(accesses))
<1> DEFINE p == load_program
           q == perform_init_accesses(accesses)
           r == p \o q
           s == r \o Wake
<1>1. p \in Plains /\ p \in Messages /\ q \in Plains /\ q \in Messages
  BY ProgramSent, InitAccessesSent DEF Plains
<1>2. r \in Plains /\ r \in Messages /\ Plain(r)
  BY <1>1, ConcatPlain DEF Plains
<1>3. /\ Len(p) \in Nat /\ Len(q) \in Nat /\ Len(r) = Len(p) + Len(q)
      /\ \A i \in 1..Len(p) : r[i] = p[i]
  BY <1>1, ConcatParts
<1> HIDE DEF p, q, r
<1>4. /\ s \in Messages /\ Len(r) \in Nat /\ Len(Wake) \in Nat /\ Len(s) = Len(r) + Len(Wake)
      /\ \A i \in 1..Len(r) : s[i] = r[i]
      /\ \A i \in 1..(Len(r) + Len(Wake)) : s[i] = IF i <= Len(r) THEN r[i] ELSE Wake[i - Len(r)]
  BY <1>2, WakeParts, ConcatParts
<1>5. Plan(accesses) = s
  BY DEF Plan, r, p, q
<1>6. cflush => Guarded(s, {})
  BY <1>2, WakeParts, ConcatGuarded DEF Plain
<1> HIDE DEF s
<1>7. ASSUME NEW i \in 1..Len(s)
      PROVE  (s[i].op = "msip" => i = Len(s)) /\ (s[i].op = "write" => s[i].val \in {Text, Datum})
  <2>1. CASE i <= Len(r)
    <3>1. i \in 1..Len(r) /\ s[i] = r[i]
      BY <1>4, <2>1
    <3> QED
      BY <1>2, <3>1 DEF Plain
  <2>2. CASE ~(i <= Len(r))
    <3>1. i - Len(r) \in 1..Len(Wake) /\ s[i] = Wake[i - Len(r)]
      BY <1>4, <2>2
    <3>2. (s[i].op = "msip" => i - Len(r) = Len(Wake)) /\ s[i].op # "write"
      BY <3>1, WakeParts
    <3> QED
      BY <1>4, <3>2
  <2> QED
    BY <2>1, <2>2
<1>8. ASSUME ~loadmem, NEW i \in DOMAIN Program
      PROVE  \E j \in 1..Len(s) : s[j] = Access("write", Program[i].addr, Program[i].len, Text)
  <2>1. PICK j \in 1..Len(p) : p[j] = Access("write", Program[i].addr, Program[i].len, Text)
    BY <1>8, ProgramSent DEF p
  <2>2. j \in 1..Len(s) /\ s[j] = p[j]
    BY <1>3, <1>4
  <2> QED
    BY <2>1, <2>2
<1> QED
  BY <1>4, <1>5, <1>6, <1>7, <1>8 DEF Planned

LEMMA FromFileTyped == \A p : FromFile(p) \in -3..3
BY DEF FromFile, Text, Zero

LEMMA InitHolds == Init => IInv
<1> SUFFICES ASSUME Init PROVE IInv
  OBVIOUS
<1>1. /\ loadmem \in BOOLEAN /\ cflush \in BOOLEAN /\ msip \in BOOLEAN
      /\ backing = <<>> /\ initialized = [c \in Channels |-> FALSE]
      /\ plan = script /\ in_data = <<>> /\ in_reg = <<>> /\ out_data = <<>>
      /\ serving = <<>> /\ flushed = {} /\ done = <<>> /\ woken = FALSE
      /\ code = -1 /\ written = [a \in Addresses |-> FromFile(a)] /\ exit = 0
      /\ fault = "none"
  BY DEF Init
<1>2. Planned(script)
  <2>1. PICK accesses \in Accesses : script = Plan(accesses)
    BY DEF Init
  <2> QED
    BY <2>1, PlanParts
<1>3. script \in Messages /\ Len(script) \in Nat /\ <<>> \in Messages /\ Len(<<>>) = 0
  BY <1>2, EmptySeq, LenProperties DEF Planned, Messages
<1>4. Left = script
  <2>1. <<>> \o script = script /\ <<>> \o <<>> = <<>>
    BY <1>3, ConcatEmptySeq DEF Messages
  <2> QED
    BY <1>1, <2>1 DEF Left
<1>5. ScriptKept
  BY <1>2 DEF Planned, ScriptKept, Messages
<1>6. WordsKept
  <2>1. {serving, in_data, plan, in_reg, done} \subseteq Seq(Message) /\ Len(serving) <= 1
    BY <1>1, <1>3 DEF Messages
  <2>2. in_reg = SubSeq(in_data, 1, IF in_data = <<>> THEN 0 ELSE 1)
    BY <1>1, SubSeqEmpty
  <2>3. Len(done) = 0
    BY <1>1, <1>3
  <2>4. \A i \in 1..Len(script) : script[i] = Left[i - Len(done)] /\ ~(i <= Len(done))
    BY <1>3, <1>4, <2>3
  <2>5. ~ \E i \in 1..Len(Left) : i + Len(done) > Len(script)
    BY <1>3, <1>4, <2>3
  <2> QED
    BY <1>3, <1>4, <2>1, <2>2, <2>3, <2>4, <2>5 DEF WordsKept
<1>7. FlushesKept
  BY <1>1, <1>2, <1>4 DEF Planned, FlushesKept
<1>8. MemoryKept
  <2>1. initialized \in [Channels -> BOOLEAN] /\ \A c \in Channels : ~initialized[c]
    BY <1>1
  <2>2. DOMAIN backing = {}
    BY <1>1
  <2>3. {Key(c) : c \in {d \in Channels : initialized[d]}} = {}
    BY <2>1
  <2> QED
    BY <1>1, <2>1, <2>2, <2>3, FromFileTyped DEF MemoryKept, StoresKept
<1>9. ProgramKept
  <2> SUFFICES ASSUME NEW a \in Addresses, Placed(a) PROVE FromFile(a) = Text
    BY <1>1 DEF ProgramKept
  <2>1. ~ \E j \in 1..Len(done) : TRUE
    BY <1>1, <1>3
  <2>2. loadmem /\ InProgram(a)
    BY <2>1 DEF Placed
  <2> QED
    BY <2>2 DEF FromFile
<1>10. HartKept
  BY <1>1, <1>3 DEF HartKept
<1> QED
  BY <1>5, <1>6, <1>7, <1>8, <1>9, <1>10 DEF IInv
-----------------------------------------------------------------------------
(* A tick of the host.                                                      *)

LEMMA Regroup ==
    ASSUME NEW s \in Messages, NEW t \in Messages, NEW u \in Messages
    PROVE  (s \o t) \o u = s \o (t \o u)
<1> DEFINE S == Message
<1>1. s \in Seq(S) /\ t \in Seq(S) /\ u \in Seq(S)
  BY DEF Messages
<1> HIDE DEF S
<1> QED
  BY <1>1, ConcatAssociative

LEMMA NothingAdded ==
    ASSUME NEW s \in Messages
    PROVE  s \o <<>> = s /\ <<>> \o s = s /\ <<>> \in Messages
BY ConcatEmptySeq, EmptySeq DEF Messages

\* The register's view of the words.
LEMMA FirstParts ==
    ASSUME NEW s \in Messages
    PROVE  /\ SubSeq(s, 1, IF s = <<>> THEN 0 ELSE 1) \in Messages
           /\ Len(SubSeq(s, 1, IF s = <<>> THEN 0 ELSE 1)) <= 1
           /\ s = <<>> => SubSeq(s, 1, IF s = <<>> THEN 0 ELSE 1) = <<>>
           /\ s # <<>> => SubSeq(s, 1, IF s = <<>> THEN 0 ELSE 1) \o Tail(s) = s
<1>1. CASE s = <<>>
  <2>1. SubSeq(s, 1, 0) = <<>>
    BY SubSeqEmpty
  <2> QED
    BY <1>1, <2>1, EmptySeq DEF Messages
<1>2. CASE s # <<>>
  <2>1. s[1] \in Message /\ Len(s) \in Nat /\ Len(s) >= 1
    BY <1>2, TailParts
  <2>2. SubSeq(s, 1, 1) \in Messages /\ Len(SubSeq(s, 1, 1)) = 1
    <3>1. \A i \in 1..1 : s[i] \in Message
      BY <2>1
    <3> QED
      BY <3>1, SubSeqProperties DEF Messages
  <2>3. SubSeq(s, 1, 1) \o SubSeq(s, 2, Len(s)) = SubSeq(s, 1, Len(s))
    <3>1. 1 \in 1..(Len(s) + 1) /\ 1 \in (1 - 1)..Len(s) /\ Len(s) \in 1..Len(s)
      BY <2>1
    <3>2. SubSeq(s, 1, 1) \o SubSeq(s, 1 + 1, Len(s)) = SubSeq(s, 1, Len(s))
      BY <3>1, ConcatAdjacentSubSeq DEF Messages
    <3> QED
      BY <3>2
  <2>4. Tail(s) = SubSeq(s, 2, Len(s)) /\ SubSeq(s, 1, Len(s)) = s
    BY <1>2, TailIsSubSeq, SubSeqFull DEF Messages
  <2> QED
    BY <1>2, <2>2, <2>3, <2>4
<1> QED
  BY <1>1, <1>2

\* What the words' sequences are.
LEMMA WordsTyped ==
    ASSUME WordsKept
    PROVE  /\ serving \in Messages /\ in_data \in Messages /\ plan \in Messages
           /\ in_reg \in Messages /\ done \in Messages
           /\ serving \o in_data \in Messages /\ Left \in Messages
           /\ Len(Left) \in Nat /\ Len(done) \in Nat
<1>1. /\ serving \in Messages /\ in_data \in Messages /\ plan \in Messages
      /\ in_reg \in Messages /\ done \in Messages
  BY DEF WordsKept, Messages
<1>2. serving \o in_data \in Messages /\ Left \in Messages
  BY <1>1, ConcatParts DEF Left
<1> QED
  BY <1>1, <1>2, LenProperties DEF Messages

\* The host sends the start of its plan.
LEMMA UpToReadParts ==
    ASSUME NEW messages \in Messages
    PROVE  /\ UpToRead(messages) \in Messages
           /\ SubSeq(messages, Len(UpToRead(messages)) + 1, Len(messages)) \in Messages
           /\ UpToRead(messages) \o SubSeq(messages, Len(UpToRead(messages)) + 1, Len(messages)) = messages
<1> DEFINE n == Len(messages)
           reads == {i \in DOMAIN messages : messages[i].op = "read"}
           k == Len(UpToRead(messages))
<1>1. n \in Nat /\ DOMAIN messages = 1..n
  BY LenProperties DEF Messages
<1>2. PICK m \in 0..n : UpToRead(messages) = SubSeq(messages, 1, m)
  <2>1. CASE reads = {}
    <3>1. UpToRead(messages) = messages
      BY <2>1 DEF UpToRead
    <3>2. SubSeq(messages, 1, n) = messages
      BY SubSeqFull DEF Messages
    <3> HIDE DEF n
    <3> QED
      BY <1>1, <3>1, <3>2
  <2>2. CASE reads # {}
    <3>1. reads \in SUBSET Nat /\ reads \subseteq 0..n
      BY <1>1
    <3>2. UpToRead(messages) = SubSeq(messages, 1, Min(reads))
      BY <2>2 DEF UpToRead
    <3> HIDE DEF reads
    <3>3. Min(reads) \in reads
      BY <2>2, <3>1, MinIsMember
    <3> QED
      BY <3>1, <3>2, <3>3
  <2> QED
    BY <2>1, <2>2
<1>3. SubSeq(messages, 1, m) \in Messages /\ Len(SubSeq(messages, 1, m)) = m
  <2>1. \A i \in 1..m : messages[i] \in Message
    BY <1>1, ElementOfSeq DEF Messages
  <2>2. m \in Int /\ 1 \in Int
    BY <1>1
  <2> QED
    BY <1>1, <2>1, <2>2, SubSeqProperties DEF Messages
<1>4. SubSeq(messages, m + 1, n) \in Messages
  <2>1. \A i \in (m + 1)..n : messages[i] \in Message
    BY <1>1, ElementOfSeq DEF Messages
  <2>2. m + 1 \in Int /\ n \in Int
    BY <1>1
  <2> QED
    BY <2>1, <2>2, SubSeqProperties DEF Messages
<1>5. SubSeq(messages, 1, m) \o SubSeq(messages, m + 1, n) = messages
  <2>1. 1 \in 1..(n + 1) /\ m \in (1 - 1)..n /\ n \in m..n
    BY <1>1
  <2>2. SubSeq(messages, 1, m) \o SubSeq(messages, m + 1, n) = SubSeq(messages, 1, n)
    BY <2>1, ConcatAdjacentSubSeq DEF Messages
  <2> QED
    BY <2>2, SubSeqFull DEF Messages
<1> QED
  BY <1>2, <1>3, <1>4, <1>5

LEMMA PollParts ==
    /\ Poll \in Messages /\ Len(Poll) \in Nat
    /\ \A i \in 1..Len(Poll) : Poll[i].op \in {"flush", "read"}
    /\ cflush => Guarded(Poll, {})
<1> DEFINE m == Access("read", Tohost, 1, Zero)
           t == Flushed(m)
           n == Len(t)
<1>1. m \in Message /\ m.op = "read"
  BY BootAssumption DEF Access, Message
<1> HIDE DEF m
<1>2. /\ t \in Messages /\ n \in Nat /\ n >= 1 /\ t[n] = m
      /\ \A i \in 1..(n - 1) : t[i].op = "flush"
      /\ cflush => Guarded(t, {})
  BY <1>1, FlushedParts
<1> HIDE DEF t, n
<1>3. ASSUME NEW i \in 1..n PROVE t[i].op \in {"flush", "read"}
  <2>1. i = n \/ i \in 1..(n - 1)
    BY <1>2
  <2> QED
    BY <1>1, <1>2, <2>1
<1>4. Poll = t
  BY DEF Poll, t, m
<1> QED
  BY <1>2, <1>3, <1>4 DEF n

\* A tick leaves what is left, or adds a poll to it.
LEMMA TickLeft ==
    ASSUME WordsKept, tsi_tick
    PROVE  /\ Left' = Left \/ Left' = Left \o Poll
           /\ {serving', in_data', plan', in_reg'} \subseteq Seq(Message)
           /\ Len(serving') <= 1
           /\ in_reg' = SubSeq(in_data', 1, IF in_data' = <<>> THEN 0 ELSE 1)
<1>1. /\ serving' = (IF Taken THEN in_reg ELSE serving) /\ in_data' = Popped \o Sends
      /\ in_reg' = SubSeq(in_data', 1, IF in_data' = <<>> THEN 0 ELSE 1)
      /\ plan' = SubSeq(plan, Len(Sends) + 1, Len(plan))
  BY DEF tsi_tick
<1>2. serving \in Messages /\ in_data \in Messages /\ plan \in Messages /\ <<>> \in Messages
  BY WordsTyped, EmptySeq DEF Messages
<1>3. /\ serving' \in Messages /\ Len(serving') <= 1 /\ Popped \in Messages
      /\ serving' \o Popped = serving \o in_data
  <2>1. CASE Taken
    <3>1. in_reg = SubSeq(in_data, 1, IF in_data = <<>> THEN 0 ELSE 1) /\ serving = <<>> /\ in_reg # <<>>
      BY <2>1 DEF Taken, WordsKept
    <3>2. in_data # <<>>
      BY <1>2, <3>1, FirstParts
    <3>3. in_reg \in Messages /\ Len(in_reg) <= 1 /\ in_reg \o Tail(in_data) = in_data
      BY <1>2, <3>1, <3>2, FirstParts
    <3>4. Tail(in_data) \in Messages
      BY <1>2, <3>2, TailParts
    <3>5. serving' = in_reg /\ Popped = Tail(in_data)
      BY <1>1, <2>1 DEF Popped
    <3>6. serving \o in_data = in_data
      BY <1>2, <3>1, NothingAdded
    <3> QED
      BY <3>3, <3>4, <3>5, <3>6
  <2>2. CASE ~Taken
    BY <1>1, <1>2, <2>2 DEF Popped, WordsKept
  <2> QED
    BY <2>1, <2>2
<1>4. /\ Sends \in Messages /\ plan' \in Messages
      /\ Sends \o plan' = plan \/ Sends \o plan' = plan \o Poll
  <2>1. CASE Sends = <<>>
    <3>1. plan' = plan
      <4>1. plan' = SubSeq(plan, 1, Len(plan))
        BY <1>1, <2>1, EmptySeq
      <4> QED
        BY <1>2, <4>1, SubSeqFull DEF Messages
    <3>2. <<>> \o plan = plan
      BY <1>2, ConcatEmptySeq DEF Messages
    <3> QED
      BY <1>2, <2>1, <3>1, <3>2
  <2>2. CASE plan # <<>> /\ Sends = UpToRead(plan)
    BY <1>1, <1>2, <2>2, UpToReadParts
  <2>3. CASE plan = <<>> /\ Sends = Poll
    <3>1. plan' = <<>>
      <4>1. Len(Poll) \in Nat /\ Len(plan) = 0
        BY <2>3, PollParts, EmptySeq
      <4>2. Len(Poll) + 1 \in Int /\ 0 < Len(Poll) + 1
        BY <4>1
      <4> QED
        BY <1>1, <2>3, <4>1, <4>2, SubSeqEmpty
    <3>2. <<>> \o Poll = Poll /\ Poll \o <<>> = Poll /\ Poll \in Messages
      BY PollParts, ConcatEmptySeq DEF Messages
    <3> QED
      BY <1>2, <2>3, <3>1, <3>2
  <2> QED
    BY <2>1, <2>2, <2>3 DEF Sends
<1>5. Left' = (serving \o in_data) \o (Sends \o plan')
  <2>1. Left' = (serving' \o (Popped \o Sends)) \o plan'
    BY <1>1 DEF Left
  <2>2. serving' \o (Popped \o Sends) = (serving' \o Popped) \o Sends
    BY <1>3, <1>4, Regroup
  <2>3. serving \o in_data \in Messages
    BY WordsTyped
  <2>4. ((serving \o in_data) \o Sends) \o plan' = (serving \o in_data) \o (Sends \o plan')
    BY <1>4, <2>3, Regroup
  <2> QED
    BY <1>3, <2>1, <2>2, <2>4
<1>6. Left' = Left \/ Left' = Left \o Poll
  <2>1. serving \o in_data \in Messages /\ Poll \in Messages
    BY WordsTyped, PollParts
  <2>2. (serving \o in_data) \o (plan \o Poll) = ((serving \o in_data) \o plan) \o Poll
    <3> DEFINE a == serving \o in_data
               p == Poll
    <3>1. a \in Messages /\ plan \in Messages /\ p \in Messages
      BY <1>2, <2>1
    <3> HIDE DEF a, p
    <3>2. (a \o plan) \o p = a \o (plan \o p)
      BY <3>1, Regroup
    <3> QED
      BY <3>2 DEF a, p
  <2>3. Left = (serving \o in_data) \o plan
    BY DEF Left
  <2>4. CASE Sends \o plan' = plan
    BY <1>5, <2>3, <2>4
  <2>5. CASE Sends \o plan' = plan \o Poll
    BY <1>5, <2>2, <2>3, <2>5
  <2> QED
    BY <1>4, <2>4, <2>5
<1>7. in_data' \in Messages /\ in_reg' \in Messages
  <2>1. in_data' \in Messages
    BY <1>1, <1>3, <1>4, ConcatParts
  <2> DEFINE d == in_data'
  <2>2. in_reg' = SubSeq(d, 1, IF d = <<>> THEN 0 ELSE 1)
    BY <1>1
  <2> HIDE DEF d
  <2>3. in_reg' \in Messages
    BY <2>1, <2>2, FirstParts DEF d
  <2> QED
    BY <2>1, <2>3
<1> QED
  BY <1>1, <1>3, <1>4, <1>6, <1>7 DEF Messages

\* The memory and the program depend on what is stored, the options and what is done.
LEMMA MemoryUnchanged ==
    ASSUME MemoryKept, UNCHANGED <<backing, initialized, fault, written, loadmem>>
    PROVE  MemoryKept'
BY DEF MemoryKept, StoresKept, Contents, FromFile

LEMMA ScriptUnchanged ==
    ASSUME ScriptKept, UNCHANGED <<script, loadmem>>
    PROVE  ScriptKept'
BY DEF ScriptKept

LEMMA ProgramUnchanged ==
    ASSUME ProgramKept, fault' = "none" => fault = "none", UNCHANGED <<written, loadmem, done, script>>
    PROVE  ProgramKept'
BY DEF ProgramKept, Placed, Replaced

LEMMA TickStep ==
    ASSUME IInv, tsi_tick
    PROVE  IInv'
<1>1. /\ UNCHANGED <<loadmem, cflush, msip, script, backing, initialized, fault, written>>
      /\ UNCHANGED <<flushed, done, woken, code>>
      /\ out_data' = <<>> /\ exit' = ExitCode
  BY DEF tsi_tick, options, memory
<1>2. ScriptKept' /\ MemoryKept' /\ ProgramKept'
  BY <1>1, ScriptUnchanged, MemoryUnchanged, ProgramUnchanged DEF IInv
<1>3. /\ Left \in Messages /\ Len(Left) \in Nat /\ Len(done) \in Nat /\ Len(script) \in Nat
      /\ Left' = Left \/ Left' = Left \o Poll
      /\ WordsKept
  BY WordsTyped, TickLeft, LenProperties DEF IInv, ScriptKept
<1>4. Poll \in Messages /\ Len(Poll) \in Nat
  BY PollParts
<1>5. /\ Len(Left') >= Len(Left) /\ Len(Left') \in Nat
      /\ \A i \in 1..Len(Left) : Left'[i] = Left[i]
      /\ \A i \in 1..Len(Left') : ~(i <= Len(Left)) => Left'[i].op \in {"flush", "read"}
  <2>1. CASE Left' = Left
    BY <1>3, <2>1
  <2>2. CASE Left' = Left \o Poll
    <3>1. /\ Len(Left \o Poll) = Len(Left) + Len(Poll)
          /\ \A i \in 1..Len(Left) : (Left \o Poll)[i] = Left[i]
          /\ \A i \in 1..Len(Poll) : (Left \o Poll)[Len(Left) + i] = Poll[i]
      BY <1>3, <1>4, ConcatParts
    <3>2. ASSUME NEW i \in 1..(Len(Left) + Len(Poll)), ~(i <= Len(Left))
          PROVE  (Left \o Poll)[i].op \in {"flush", "read"}
      <4>1. i - Len(Left) \in 1..Len(Poll) /\ Len(Left) + (i - Len(Left)) = i
        BY <1>3, <1>4, <3>2
      <4>2. (Left \o Poll)[i] = Poll[i - Len(Left)]
        BY <3>1, <4>1
      <4> QED
        BY <4>1, <4>2, PollParts
    <3>3. Len(Left \o Poll) >= Len(Left) /\ Len(Left \o Poll) \in Nat
      BY <1>3, <1>4, <3>1
    <3> QED
      BY <2>2, <3>1, <3>2, <3>3
  <2> QED
    BY <1>3, <2>1, <2>2
<1>6. WordsKept'
  <2>1. /\ {serving', in_data', plan', in_reg', done'} \subseteq Seq(Message) /\ Len(serving') <= 1
        /\ in_reg' = SubSeq(in_data', 1, IF in_data' = <<>> THEN 0 ELSE 1)
    BY <1>1, <1>3, TickLeft DEF WordsKept
  <2>2. /\ Len(done) <= Len(script) /\ Len(script) <= Len(done) + Len(Left)
        /\ \A i \in 1..Len(script) : script[i] = IF i <= Len(done) THEN done[i] ELSE Left[i - Len(done)]
        /\ \A i \in 1..Len(Left) : i + Len(done) > Len(script) => Left[i].op \in {"flush", "read"}
    BY <1>3 DEF WordsKept
  <2>3. ASSUME NEW i \in 1..Len(script)
        PROVE  script[i] = IF i <= Len(done) THEN done[i] ELSE Left'[i - Len(done)]
    <3>1. ~(i <= Len(done)) => i - Len(done) \in 1..Len(Left)
      BY <1>3, <2>2
    <3> QED
      BY <1>5, <2>2, <3>1
  <2>4. ASSUME NEW i \in 1..Len(Left'), i + Len(done) > Len(script)
        PROVE  Left'[i].op \in {"flush", "read"}
    <3>1. CASE i <= Len(Left)
      <4>1. i \in 1..Len(Left)
        BY <1>5, <3>1
      <4> QED
        BY <1>5, <2>2, <2>4, <4>1
    <3>2. CASE ~(i <= Len(Left))
      BY <1>5, <3>2
    <3> QED
      BY <3>1, <3>2
  <2>5. Len(script) <= Len(done) + Len(Left')
    BY <1>3, <1>5, <2>2
  <2>6. done' = done /\ script' = script
    BY <1>1
  <2> QED
    BY <2>1, <2>2, <2>3, <2>4, <2>5, <2>6 DEF WordsKept
<1>7. FlushesKept'
  <2>1. cflush => Guarded(Left, flushed)
    BY DEF IInv, FlushesKept
  <2>2. cflush => Guarded(Left \o Poll, flushed)
    BY <1>3, <1>4, <2>1, PollParts, ConcatGuarded
  <2> DEFINE l == Left'
  <2>3. cflush => Guarded(l, flushed)
    BY <1>3, <2>1, <2>2
  <2>4. cflush' = cflush /\ flushed' = flushed
    BY <1>1
  <2>5. Guarded(Left, flushed)' <=> Guarded(l, flushed)
    BY <2>4 DEF Guarded, Untouched, Fresh, Blocks, Chunk, Accessing
  <2> QED
    BY <2>3, <2>4, <2>5 DEF FlushesKept
<1>8. HartKept'
  <2>1. ExitCode \in {0, 1, 3}
    <3>1. CASE ~Finished
      BY <3>1 DEF ExitCode
    <3>2. CASE Finished
      <4>1. out_data[1].val \in 1..3
        BY <3>2 DEF Finished, IInv, HartKept
      <4>2. ExitCode = ((out_data[1].val \div 2) * 2) + 1
        BY <3>2 DEF ExitCode
      <4>3. out_data[1].val = 1 \/ out_data[1].val = 2 \/ out_data[1].val = 3
        BY <4>1
      <4>4. 1 \div 2 = 0 /\ 2 \div 2 = 1 /\ 3 \div 2 = 1
        OBVIOUS
      <4> QED
        BY <4>2, <4>3, <4>4
    <3> QED
      BY <3>1, <3>2
  <2> QED
    BY <1>1, <2>1, EmptySeq DEF IInv, HartKept
<1> QED
  BY <1>2, <1>6, <1>7, <1>8 DEF IInv
-----------------------------------------------------------------------------
(* The memory.                                                              *)

LEMMA BaseTyped == \A c \in Channels : Base(c) \in 0..(2^addr_bits - 1) /\ Base(c) \in Nat
<1> TAKE c \in Channels
<1> DEFINE size == 2^addr_bits
<1>1. size \in Nat \ {0} /\ mem_base[c] \in Int
  BY BootAssumption
<1> HIDE DEF size
<1>2. mem_base[c] % size \in 0..(size - 1)
  BY <1>1
<1> QED
  BY <1>1, <1>2 DEF Base, size

\* An address has a channel, and a place in its memory.
LEMMA Routed ==
    ASSUME NEW a \in Addresses
    PROVE  /\ ChannelOf[a] \in Channels /\ a \in Nat
           /\ Offset(a) \in Offsets(ChannelOf[a]) /\ Base(ChannelOf[a]) + Offset(a) = a
<1>1. ChannelOf[a] \in Channels /\ a \in Nat /\ Offset(a) \in Offsets(ChannelOf[a])
  BY BootAssumption DEF Addresses, Offset, Offsets, Base
<1>2. Base(ChannelOf[a]) \in Nat
  BY <1>1, BaseTyped
<1>3. Base(ChannelOf[a]) + Offset(a) = a
  BY <1>1, <1>2 DEF Offset
<1> QED
  BY <1>1, <1>3

LEMMA OffsetsTyped == \A c \in Channels : Offsets(c) \subseteq Nat /\ mem_size[c] \in Nat \ {0}
BY BootAssumption DEF Offsets

\* A byte of a memory belongs to no more than one address of it.
LEMMA OneAddress ==
    ASSUME NEW c \in Channels, NEW o \in Offsets(c), NEW a \in Addresses, Key(ChannelOf[a]) = Key(c)
    PROVE  o = Offset(a) <=> a = Base(c) + o
<1>1. Base(ChannelOf[a]) = Base(c) /\ Base(c) \in Nat /\ o \in Nat /\ a \in Nat
  BY Routed, BaseTyped, OffsetsTyped DEF Key
<1> QED
  BY <1>1 DEF Offset

\* A channel's memory is as Contents says.
LEMMA ContentsAt ==
    ASSUME NEW c \in Channels
    PROVE  /\ DOMAIN Contents(c) = Offsets(c)
           /\ Contents(c) = [o \in Offsets(c) |-> Contents(c)[o]]
           /\ \A o \in Offsets(c) :
                 Contents(c)[o] = IF Base(c) + o \in Addresses /\ Key(ChannelOf[Base(c) + o]) = Key(c)
                                  THEN written[Base(c) + o] ELSE FromFile(Base(c) + o)
BY DEF Contents

\* An address whose channel is up holds a value, and what was last stored there.
LEMMA LoadedTyped ==
    ASSUME MemoryKept, NEW a \in Addresses, Up({a})
    PROVE  Loaded(a) \in -3..3
<1>1. ChannelOf[a] \in Channels /\ initialized[ChannelOf[a]] /\ Offset(a) \in Offsets(ChannelOf[a])
  BY Routed DEF Up
<1>2. backing[Key(ChannelOf[a])] \in [Offsets(ChannelOf[a]) -> -3..3]
  BY <1>1 DEF MemoryKept
<1> QED
  BY <1>1, <1>2 DEF Loaded

LEMMA LoadedWritten ==
    ASSUME MemoryKept, fault = "none", NEW a \in Addresses, Up({a})
    PROVE  Loaded(a) = written[a]
<1> DEFINE c == ChannelOf[a]
           o == Offset(a)
<1>1. c \in Channels /\ initialized[c] /\ o \in Offsets(c) /\ Base(c) + o = a
  BY Routed DEF Up
<1>2. backing[Key(c)] = Contents(c)
  BY <1>1 DEF MemoryKept, StoresKept
<1>3. Contents(c)[o] = written[a]
  BY <1>1, ContentsAt
<1> QED
  BY <1>2, <1>3 DEF Loaded

LEMMA StoresMemory ==
    ASSUME MemoryKept, NEW chunk \in SUBSET Addresses, Up(chunk), NEW v \in -3..3, Stores(chunk, v),
           UNCHANGED <<initialized, fault, loadmem>>
    PROVE  /\ MemoryKept'
           /\ \A a \in Addresses : written'[a] = IF a \in chunk THEN v ELSE written[a]
<1>1. /\ initialized \in [Channels -> BOOLEAN] /\ fault \in {"none", "strayed", "aborted"}
      /\ DOMAIN backing = {Key(c) : c \in {d \in Channels : initialized[d]}}
      /\ \A c \in Channels : initialized[c] => backing[Key(c)] \in [Offsets(c) -> -3..3]
      /\ written \in [Addresses -> -3..3]
      /\ StoresKept
      /\ fault = "none" =>
            \A a \in Addresses : Key(ChannelOf[a]) \notin DOMAIN backing => written[a] = FromFile(a)
  BY DEF MemoryKept
<1>2. /\ backing' = [k \in DOMAIN backing |->
            [o \in DOMAIN backing[k] |->
                IF \E a \in chunk : k = Key(ChannelOf[a]) /\ o = Offset(a) THEN v ELSE backing[k][o]]]
      /\ written' = [a \in Addresses |-> IF a \in chunk THEN v ELSE written[a]]
      /\ initialized' = initialized /\ fault' = fault
  BY DEF Stores
<1>3. /\ \A a \in Addresses : written'[a] = IF a \in chunk THEN v ELSE written[a]
      /\ written' \in [Addresses -> -3..3] /\ DOMAIN backing' = DOMAIN backing
  BY <1>1, <1>2
<1>4. \A p : FromFile(p)' = FromFile(p)
  BY DEF FromFile
<1>5. ASSUME NEW c \in Channels, initialized[c]
      PROVE  /\ backing'[Key(c)] \in [Offsets(c) -> -3..3]
             /\ backing'[Key(c)] = [o \in Offsets(c) |->
                    IF \E a \in chunk : Key(c) = Key(ChannelOf[a]) /\ o = Offset(a)
                    THEN v ELSE backing[Key(c)][o]]
  <2>1. Key(c) \in DOMAIN backing /\ backing[Key(c)] \in [Offsets(c) -> -3..3]
    BY <1>1, <1>5
  <2>2. DOMAIN backing[Key(c)] = Offsets(c)
    BY <2>1
  <2>3. backing'[Key(c)] = [o \in Offsets(c) |->
             IF \E a \in chunk : Key(c) = Key(ChannelOf[a]) /\ o = Offset(a) THEN v ELSE backing[Key(c)][o]]
    BY <1>2, <2>1, <2>2, Zenon
  <2> QED
    BY <2>1, <2>3
<1>6. ASSUME fault = "none", NEW c \in Channels, initialized[c]
      PROVE  backing'[Key(c)] = Contents(c)'
  <2>1. backing[Key(c)] = Contents(c)
    BY <1>1, <1>6 DEF StoresKept
  <2>2. ASSUME NEW o \in Offsets(c)
        PROVE  backing'[Key(c)][o] =
                   (IF Base(c) + o \in Addresses /\ Key(ChannelOf[Base(c) + o]) = Key(c)
                    THEN written'[Base(c) + o] ELSE FromFile(Base(c) + o))
    <3> DEFINE b == Base(c) + o
               hit == \E a \in chunk : Key(c) = Key(ChannelOf[a]) /\ o = Offset(a)
    <3>1. backing'[Key(c)][o] = IF hit THEN v ELSE Contents(c)[o]
      <4>1. backing'[Key(c)] = [p \in Offsets(c) |->
               IF \E a \in chunk : Key(c) = Key(ChannelOf[a]) /\ p = Offset(a) THEN v ELSE backing[Key(c)][p]]
        BY <1>5, <1>6, Zenon
      <4>2. backing'[Key(c)][o] = IF hit THEN v ELSE backing[Key(c)][o]
        BY <4>1, Zenon
      <4> QED
        BY <2>1, <4>2, Zenon
    <3>2. hit <=> b \in chunk /\ Key(ChannelOf[b]) = Key(c)
      <4> HIDE DEF b
      <4>1. \A a \in chunk : Key(ChannelOf[a]) = Key(c) => (o = Offset(a) <=> a = b)
        BY OneAddress DEF b
      <4> QED
        BY <4>1
    <3>3. Contents(c)[o] = IF b \in Addresses /\ Key(ChannelOf[b]) = Key(c) THEN written[b] ELSE FromFile(b)
      BY ContentsAt
    <3> HIDE DEF b, hit
    <3>4. b \in chunk => b \in Addresses
      OBVIOUS
    <3> QED
      BY <1>3, <3>1, <3>2, <3>3, <3>4 DEF b
  <2>3. Contents(c)' = [o \in Offsets(c) |->
            IF Base(c) + o \in Addresses /\ Key(ChannelOf[Base(c) + o]) = Key(c)
            THEN written'[Base(c) + o] ELSE FromFile(Base(c) + o)]
    BY <1>4 DEF Contents
  <2>4. backing'[Key(c)] = [o \in Offsets(c) |-> backing'[Key(c)][o]]
    BY <1>5, <1>6
  <2> QED
    BY <2>2, <2>3, <2>4, Zenon
<1>7. ASSUME fault = "none", NEW a \in Addresses, Key(ChannelOf[a]) \notin DOMAIN backing
      PROVE  written'[a] = FromFile(a)
  <2>1. a \notin chunk
    BY <1>1, <1>7, Routed DEF Up
  <2> QED
    BY <1>1, <1>3, <1>7, <2>1
<1>8. StoresKept'
  BY <1>2, <1>6 DEF StoresKept
<1>9. /\ initialized' \in [Channels -> BOOLEAN] /\ fault' \in {"none", "strayed", "aborted"}
      /\ DOMAIN backing' = {Key(c) : c \in {d \in Channels : initialized'[d]}}
      /\ \A c \in Channels : initialized'[c] => backing'[Key(c)] \in [Offsets(c) -> -3..3]
      /\ fault' = "none" =>
            \A a \in Addresses : Key(ChannelOf[a]) \notin DOMAIN backing' => written'[a] = FromFile(a)
  BY <1>1, <1>2, <1>3, <1>5, <1>7
<1> QED
  BY <1>3, <1>4, <1>8, <1>9 DEF MemoryKept

\* Channels of one memory agree on its size and its contents.
LEMMA SameMemory ==
    ASSUME MemoryKept, NEW c \in Channels, NEW d \in Channels, initialized[d], Key(c) = Key(d)
    PROVE  /\ DOMAIN backing[Key(c)] = Offsets(d)
           /\ Offsets(c) = Offsets(d) => Contents(c) = Contents(d)
<1>1. backing[Key(d)] \in [Offsets(d) -> -3..3]
  BY DEF MemoryKept
<1>2. DOMAIN backing[Key(d)] = Offsets(d)
  BY <1>1
<1>3. Base(c) = Base(d)
  BY DEF Key
<1>4. Offsets(c) = Offsets(d) => Contents(c) = Contents(d)
  BY <1>3 DEF Contents
<1> QED
  BY <1>2, <1>4

\* memory_init gives a channel the memory of its chip and base, or maps it, perhaps with
\* bytes of the program in other memories.
LEMMA InitKeepsMemory ==
    ASSUME MemoryKept, NEW c \in Channels, memory_init(c)
    PROVE  MemoryKept'
<1>1. /\ initialized \in [Channels -> BOOLEAN] /\ fault \in {"none", "strayed", "aborted"}
      /\ DOMAIN backing = {Key(d) : d \in {e \in Channels : initialized[e]}}
      /\ \A d \in Channels : initialized[d] => backing[Key(d)] \in [Offsets(d) -> -3..3]
      /\ written \in [Addresses -> -3..3]
      /\ fault = "none" => \A d \in Channels : initialized[d] => backing[Key(d)] = Contents(d)
      /\ fault = "none" =>
            \A a \in Addresses : Key(ChannelOf[a]) \notin DOMAIN backing => written[a] = FromFile(a)
  BY DEF MemoryKept, StoresKept
<1>2. /\ loadmem' = loadmem /\ written' = written
      /\ (\A p : FromFile(p)' = FromFile(p)) /\ (\A d : Contents(d)' = Contents(d))
  <2>1. loadmem' = loadmem /\ written' = written
    BY DEF memory_init, options
  <2> QED
    BY <2>1 DEF FromFile, Contents
<1> DEFINE Comes == initialized' = [initialized EXCEPT ![c] = TRUE]
<1>3. ASSUME Comes
      PROVE  /\ initialized' \in [Channels -> BOOLEAN]
             /\ \A d \in Channels : initialized'[d] <=> (d = c \/ initialized[d])
             /\ {Key(d) : d \in {e \in Channels : initialized'[e]}} = DOMAIN backing \cup {Key(c)}
  <2>1. initialized' \in [Channels -> BOOLEAN] /\ \A d \in Channels : initialized'[d] <=> (d = c \/ initialized[d])
    BY <1>1, <1>3
  <2> QED
    BY <1>1, <2>1
<1> HIDE DEF Comes
<1>4. CASE /\ Key(c) \in DOMAIN backing /\ DOMAIN backing[Key(c)] = Offsets(c)
           /\ Comes /\ UNCHANGED <<backing, fault>>
  <2>1. PICK e \in Channels : initialized[e] /\ Key(e) = Key(c)
    BY <1>1, <1>4
  <2>2. Offsets(c) = Offsets(e) /\ Contents(c) = Contents(e)
    BY <1>4, <2>1, SameMemory
  <2>3. /\ backing[Key(c)] \in [Offsets(c) -> -3..3]
        /\ fault = "none" => backing[Key(c)] = Contents(c)
    BY <1>1, <2>1, <2>2
  <2>4. DOMAIN backing' = {Key(d) : d \in {e2 \in Channels : initialized'[e2]}}
    BY <1>3, <1>4
  <2>5. ASSUME NEW d \in Channels, initialized'[d]
        PROVE  /\ backing'[Key(d)] \in [Offsets(d) -> -3..3]
               /\ fault' = "none" => backing'[Key(d)] = Contents(d)'
    <3>1. d = c \/ initialized[d]
      BY <1>3, <1>4, <2>5
    <3> QED
      BY <1>1, <1>2, <1>4, <2>3, <3>1
  <2>6. StoresKept'
    BY <2>5 DEF StoresKept
  <2>7. /\ initialized' \in [Channels -> BOOLEAN] /\ fault' \in {"none", "strayed", "aborted"}
        /\ written' \in [Addresses -> -3..3]
        /\ fault' = "none" =>
            \A a \in Addresses : Key(ChannelOf[a]) \notin DOMAIN backing' => written'[a] = FromFile(a)'
    BY <1>1, <1>2, <1>3, <1>4
  <2> QED
    BY <2>4, <2>5, <2>6, <2>7 DEF MemoryKept
<1>5. CASE Key(c) \notin DOMAIN backing /\ Comes /\ Maps(c) /\ fault' = fault
  <2>1. /\ DOMAIN backing' = DOMAIN backing \cup {Key(c)} /\ backing'[Key(c)] = Image(c)
        /\ \A k \in DOMAIN backing : backing'[k] = backing[k]
    BY <1>5 DEF Maps
  <2>2. Image(c) \in [Offsets(c) -> -3..3]
    BY FromFileTyped DEF Image
  <2>3. ASSUME fault = "none" PROVE Image(c) = Contents(c)
    <3>1. ASSUME NEW o \in Offsets(c)
          PROVE  FromFile(Base(c) + o) =
                    (LET a == Base(c) + o
                     IN IF a \in Addresses /\ Key(ChannelOf[a]) = Key(c) THEN written[a] ELSE FromFile(a))
      BY <1>1, <1>5, <2>3
    <3> QED
      BY <3>1, Zenon DEF Image, Contents
  <2>4. ASSUME NEW d \in Channels, initialized'[d]
        PROVE  /\ backing'[Key(d)] \in [Offsets(d) -> -3..3]
               /\ fault' = "none" => backing'[Key(d)] = Contents(d)'
    <3>1. CASE d = c
      BY <1>2, <1>5, <2>1, <2>2, <2>3, <3>1
    <3>2. CASE d # c
      <4>1. initialized[d] /\ Key(d) \in DOMAIN backing
        BY <1>1, <1>3, <1>5, <2>4, <3>2
      <4> QED
        BY <1>1, <1>2, <1>5, <2>1, <4>1
    <3> QED
      BY <3>1, <3>2
  <2>5. StoresKept'
    BY <2>4 DEF StoresKept
  <2>6. /\ initialized' \in [Channels -> BOOLEAN] /\ fault' \in {"none", "strayed", "aborted"}
        /\ DOMAIN backing' = {Key(d) : d \in {e \in Channels : initialized'[e]}}
        /\ written' \in [Addresses -> -3..3]
        /\ fault' = "none" =>
            \A a \in Addresses : Key(ChannelOf[a]) \notin DOMAIN backing' => written'[a] = FromFile(a)'
    BY <1>1, <1>2, <1>3, <1>5, <2>1
  <2> QED
    BY <2>4, <2>5, <2>6 DEF MemoryKept
<1>6. CASE Key(c) \notin DOMAIN backing /\ Comes /\ MapsAndStrays(c) /\ fault' = "strayed"
  <2>1. PICK gap : backing' = [k \in DOMAIN backing \cup {Key(c)} |->
              IF k = Key(c) THEN Image(c)
              ELSE [o \in DOMAIN backing[k] |->
                       IF InProgram(Base(c) + gap[k] + o) THEN Text ELSE backing[k][o]]]
    BY <1>6, Zenon DEF MapsAndStrays
  <2>2. /\ DOMAIN backing' = DOMAIN backing \cup {Key(c)} /\ backing'[Key(c)] = Image(c)
        /\ \A k \in DOMAIN backing : backing'[k] = [o \in DOMAIN backing[k] |->
                       IF InProgram(Base(c) + gap[k] + o) THEN Text ELSE backing[k][o]]
    BY <1>6, <2>1
  <2>3. Image(c) \in [Offsets(c) -> -3..3]
    BY FromFileTyped DEF Image
  <2>4. ASSUME NEW d \in Channels, initialized'[d]
        PROVE  backing'[Key(d)] \in [Offsets(d) -> -3..3]
    <3>1. CASE d = c
      BY <2>2, <2>3, <3>1
    <3>2. CASE d # c
      <4>1. initialized[d] /\ Key(d) \in DOMAIN backing
        BY <1>1, <1>3, <1>6, <2>4, <3>2
      <4>2. backing[Key(d)] \in [Offsets(d) -> -3..3]
        BY <1>1, <4>1
      <4>3. DOMAIN backing[Key(d)] = Offsets(d)
        BY <4>2
      <4>4. backing'[Key(d)] = [o \in Offsets(d) |->
                IF InProgram(Base(c) + gap[Key(d)] + o) THEN Text ELSE backing[Key(d)][o]]
        BY <2>2, <4>1, <4>3, Zenon
      <4>5. \A o \in Offsets(d) :
               (IF InProgram(Base(c) + gap[Key(d)] + o) THEN Text ELSE backing[Key(d)][o]) \in -3..3
        BY <4>2 DEF Text
      <4> QED
        BY <4>4, <4>5, Zenon
    <3> QED
      BY <3>1, <3>2
  <2> QED
    BY <1>1, <1>2, <1>3, <1>6, <2>2, <2>4 DEF MemoryKept, StoresKept
<1>7. CASE fault' = "aborted" /\ UNCHANGED <<backing, initialized>>
  BY <1>1, <1>2, <1>7 DEF MemoryKept, StoresKept
<1> QED
  BY <1>4, <1>5, <1>6, <1>7 DEF memory_init, Comes

\* A channel joins the memory of its chip and base, or is the first to map it.
LEMMA MemoryInitStep ==
    ASSUME IInv, NEW c \in Channels, memory_init(c)
    PROVE  IInv'
<1>1. /\ UNCHANGED <<loadmem, cflush, msip, script, plan, in_data, in_reg, reading>>
      /\ UNCHANGED <<serving, out_data, flushed, done, woken, code, written, exit>>
      /\ fault' = fault \/ fault' = "strayed" \/ fault' = "aborted"
  BY DEF memory_init, options, host, target
<1>2. MemoryKept'
  BY InitKeepsMemory DEF IInv
<1>3. ScriptKept' /\ ProgramKept'
  BY <1>1, ScriptUnchanged, ProgramUnchanged DEF IInv
<1>4. WordsKept' /\ FlushesKept' /\ HartKept'
  <2>1. Left' = Left
    BY <1>1 DEF Left
  <2> QED
    BY <1>1, <2>1 DEF IInv, WordsKept, FlushesKept, HartKept, Guarded, Untouched, Fresh
<1> QED
  BY <1>2, <1>3, <1>4 DEF IInv

\* The hart changes bytes that do not hold the program.
LEMMA HartStoreStep ==
    ASSUME IInv, NEW a \in Addresses, HartStore(a)
    PROVE  IInv'
<1>1. /\ Up({a}) /\ Loaded(a) # Text /\ Stores({a}, Store) /\ a # Tohost
      /\ UNCHANGED <<loadmem, cflush, msip, script, initialized, fault, plan, in_data, in_reg, reading>>
      /\ UNCHANGED <<serving, out_data, flushed, done, woken, code, exit>>
  BY DEF HartStore, options, host, target
<1>2. MemoryKept' /\ \A b \in Addresses : written'[b] = IF b \in {a} THEN Store ELSE written[b]
  <2>1. Store \in -3..3 /\ {a} \in SUBSET Addresses
    BY DEF Store
  <2> QED
    BY <1>1, <2>1, StoresMemory DEF IInv
<1>3. ProgramKept'
  <2> SUFFICES ASSUME fault' = "none", NEW b \in Addresses, Placed(b)', ~Replaced(b)', b # Tohost
               PROVE  written'[b] = Text
    BY DEF ProgramKept
  <2>1. fault = "none" /\ Placed(b) /\ ~Replaced(b)
    BY <1>1 DEF Placed, Replaced
  <2>2. written[b] = Text
    BY <2>1 DEF IInv, ProgramKept
  <2>3. b # a
    BY <1>1, <2>2, LoadedWritten DEF IInv
  <2> QED
    BY <1>2, <2>2, <2>3
<1>4. ScriptKept'
  BY <1>1, ScriptUnchanged DEF IInv
<1>5. WordsKept' /\ FlushesKept' /\ HartKept'
  <2>1. Left' = Left
    BY <1>1 DEF Left
  <2> QED
    BY <1>1, <2>1 DEF IInv, WordsKept, FlushesKept, HartKept, Guarded, Untouched, Fresh
<1> QED
  BY <1>2, <1>3, <1>4, <1>5 DEF IInv

\* The hart ends with an exit code in tohost.
LEMMA HartExitStep ==
    ASSUME IInv, NEW c \in 0..1, HartExit(c)
    PROVE  IInv'
<1>1. /\ Up({Tohost}) /\ Stores({Tohost}, (2 * c) + 1) /\ code' = c
      /\ UNCHANGED <<loadmem, cflush, msip, script, initialized, fault, plan, in_data, in_reg, reading>>
      /\ UNCHANGED <<serving, out_data, flushed, done, woken, exit>>
  BY DEF HartExit, options, host, target
<1>2. MemoryKept' /\ \A b \in Addresses : written'[b] = IF b \in {Tohost} THEN (2 * c) + 1 ELSE written[b]
  <2>1. (2 * c) + 1 \in -3..3 /\ {Tohost} \in SUBSET Addresses
    BY BootAssumption, SMTT(30) DEF Addresses
  <2> QED
    BY <1>1, <2>1, StoresMemory DEF IInv
<1>3. ProgramKept'
  <2> SUFFICES ASSUME fault' = "none", NEW b \in Addresses, Placed(b)', ~Replaced(b)', b # Tohost
               PROVE  written'[b] = Text
    BY DEF ProgramKept
  <2>1. fault = "none" /\ Placed(b) /\ ~Replaced(b)
    BY <1>1 DEF Placed, Replaced
  <2> QED
    BY <1>2, <2>1 DEF IInv, ProgramKept
<1>4. ScriptKept'
  BY <1>1, ScriptUnchanged DEF IInv
<1>5. WordsKept' /\ FlushesKept' /\ HartKept'
  <2>1. Left' = Left
    BY <1>1 DEF Left
  <2>2. code' \in -1..1
    BY <1>1
  <2> QED
    BY <1>1, <2>1, <2>2 DEF IInv, WordsKept, FlushesKept, HartKept, Guarded, Untouched, Fresh
<1> QED
  BY <1>2, <1>3, <1>4, <1>5 DEF IInv
-----------------------------------------------------------------------------
(* The design carries out a message.                                        *)

LEMMA AppendOne ==
    ASSUME NEW s \in Messages, NEW m \in Message
    PROVE  s \o <<m>> = Append(s, m)
BY DEF Messages

\* The message is the first of what is left, and what is left is the rest.
LEMMA ServeLeft ==
    ASSUME WordsKept, Serve
    PROVE  /\ Left # <<>> /\ Left[1] = serving[1] /\ Left' = Tail(Left) /\ serving[1] \in Message
           /\ done' = IF Len(done) < Len(script) THEN Append(done, serving[1]) ELSE done
           /\ serving' = <<>> /\ UNCHANGED <<in_data, plan, in_reg>>
<1>1. /\ serving # <<>> /\ serving' = <<>> /\ UNCHANGED <<in_data, plan, in_reg>>
      /\ done' = IF Len(done) < Len(script) THEN done \o serving ELSE done
  BY DEF Serve, host
<1>2. serving \in Messages /\ in_data \in Messages /\ plan \in Messages /\ done \in Messages /\ Len(serving) <= 1
  BY WordsTyped DEF WordsKept
<1>3. serving[1] \in Message /\ Len(serving) = 1 /\ serving = <<serving[1]>>
  <2>1. serving[1] \in Message /\ Len(serving) \in Nat /\ Len(serving) >= 1
    BY <1>1, <1>2, TailParts
  <2>2. Len(serving) = 1
    BY <1>2, <2>1
  <2> QED
    BY <1>2, <2>1, <2>2 DEF Messages
<1> DEFINE m == serving[1]
           rest == in_data \o plan
<1>4. rest \in Messages /\ <<m>> \in Messages
  BY <1>2, <1>3, ConcatParts DEF Messages
<1>5. Left = <<m>> \o rest
  <2>1. Left = (<<m>> \o in_data) \o plan
    BY <1>3 DEF Left
  <2> QED
    BY <1>2, <1>4, <2>1, Regroup, SMTT(30)
<1>6. Left' = rest
  <2>1. Left' = (<<>> \o in_data) \o plan
    BY <1>1 DEF Left
  <2> QED
    BY <1>2, <2>1, NothingAdded
<1>7. done \o serving = Append(done, m)
  <2> HIDE DEF rest
  <2>1. done \o <<m>> = Append(done, m)
    BY <1>2, <1>3, AppendOne
  <2> QED
    BY <1>3, <2>1
<1> HIDE DEF rest, m
<1>8. <<m>> \o rest # <<>> /\ (<<m>> \o rest)[1] = m /\ Tail(<<m>> \o rest) = rest
  <2> DEFINE u == <<m>> \o rest
  <2>1. /\ u \in Messages /\ Len(rest) \in Nat /\ Len(<<m>>) = 1 /\ Len(u) = 1 + Len(rest)
        /\ \A i \in 1..Len(<<m>>) : u[i] = <<m>>[i]
        /\ \A i \in 1..Len(rest) : u[Len(<<m>>) + i] = rest[i]
    BY <1>4, ConcatParts
  <2>2. u[1] = m
    BY <2>1
  <2> HIDE DEF u
  <2>3. u # <<>>
    BY <2>1, EmptySeq
  <2>4. Tail(u) \in Messages /\ Len(Tail(u)) = Len(rest) /\ \A i \in 1..Len(rest) : Tail(u)[i] = u[i + 1]
    BY <2>1, <2>3, TailParts
  <2>5. \A i \in 1..Len(rest) : Tail(u)[i] = rest[i]
    BY <2>1, <2>4
  <2>6. Tail(u) = rest
    BY <1>4, <2>4, <2>5, SeqEqual DEF Messages
  <2> QED
    BY <2>2, <2>3, <2>6 DEF u
<1> QED
  BY <1>1, <1>3, <1>5, <1>6, <1>7, <1>8 DEF m

\* The words stay in order.
LEMMA ServeWords ==
    ASSUME WordsKept, ScriptKept, Serve
    PROVE  /\ WordsKept'
           /\ serving[1].op \in {"write", "msip"} => Len(done) < Len(script) /\ script[Len(done) + 1] = serving[1]
           /\ Len(done) = Len(script) => Len(done') = Len(script)
           /\ Len(done) < Len(script) => Len(done') = Len(done) + 1
<1> DEFINE m == serving[1]
           n == Len(done)
           l == Len(script)
           k == Len(Left)
           next == IF n < l THEN n + 1 ELSE n
<1>1. /\ Left # <<>> /\ Left[1] = m /\ Left' = Tail(Left) /\ m \in Message
      /\ done' = IF n < l THEN Append(done, m) ELSE done
      /\ serving' = <<>> /\ UNCHANGED <<in_data, plan, in_reg>> /\ script' = script
  BY ServeLeft DEF Serve, options
<1>2. Left \in Messages /\ k \in Nat /\ n \in Nat /\ l \in Nat /\ done \in Messages
  BY WordsTyped, LenProperties DEF ScriptKept
<1>3. /\ Tail(Left) \in Messages /\ k >= 1 /\ Len(Tail(Left)) = k - 1
      /\ \A i \in 1..(k - 1) : Tail(Left)[i] = Left[i + 1]
  BY <1>1, <1>2, TailParts
<1>4. /\ n <= l /\ l <= n + k
      /\ \A i \in 1..l : script[i] = IF i <= n THEN done[i] ELSE Left[i - n]
      /\ \A i \in 1..k : i + n > l => Left[i].op \in {"flush", "read"}
  BY DEF WordsKept
<1>5. /\ Append(done, m) \in Messages /\ Len(Append(done, m)) = n + 1
      /\ \A i \in 1..(n + 1) : Append(done, m)[i] = IF i <= n THEN done[i] ELSE m
  BY <1>1, <1>2 DEF Messages
<1>6. /\ done' \in Messages /\ Len(done') = next
      /\ \A i \in 1..next : done'[i] = IF i <= n THEN done[i] ELSE m
  <2>1. CASE n < l
    BY <1>1, <1>5, <2>1
  <2>2. CASE ~(n < l)
    BY <1>1, <1>2, <2>2
  <2> QED
    BY <2>1, <2>2
<1>7. n < l => script[n + 1] = m
  <2> HIDE DEF n, l, k, m
  <2>1. n < l => n + 1 \in 1..l /\ ~(n + 1 <= n) /\ (n + 1) - n = 1
    BY <1>2
  <2> QED
    BY <1>1, <1>4, <2>1
<1>8. m.op \in {"write", "msip"} => n < l
  <2> HIDE DEF n, l, k, m
  <2>1. ~(n < l) => 1 + n > l /\ 1 \in 1..k
    BY <1>2, <1>3
  <2> QED
    BY <1>1, <1>4, <2>1
<1>9. WordsKept'
  <2> DEFINE left == Left'
             d == done'
  <2>1. left = Tail(Left) /\ d \in Messages /\ Len(d) = next
        /\ \A i \in 1..next : d[i] = IF i <= n THEN done[i] ELSE m
    BY <1>1, <1>6
  <2>2. Len(left) = k - 1
    BY <1>3, <2>1
  <2>3. {serving', in_data', plan', in_reg', d} \subseteq Seq(Message) /\ Len(serving') <= 1
    BY <1>1, <2>1, EmptySeq DEF WordsKept, Messages
  <2>4. in_reg' = SubSeq(in_data', 1, IF in_data' = <<>> THEN 0 ELSE 1)
    BY <1>1 DEF WordsKept
  <2> HIDE DEF n, l, k, m, left, d
  <2>5. Len(d) <= l /\ l <= Len(d) + Len(left)
    <3>1. next <= l /\ l <= next + (k - 1)
      BY <1>2, <1>3, <1>4
    <3> QED
      BY <2>1, <2>2, <3>1
  <2>6. ASSUME NEW i \in 1..l
        PROVE  script[i] = IF i <= Len(d) THEN d[i] ELSE left[i - Len(d)]
    <3>1. CASE i <= n
      <4>1. i \in 1..next
        BY <1>2, <3>1
      <4> QED
        BY <1>2, <1>4, <2>1, <3>1, <4>1
    <3>2. CASE i = n + 1
      <4>1. n < l /\ i \in 1..next /\ ~(i <= n)
        BY <1>2, <3>2
      <4> QED
        BY <1>2, <1>7, <2>1, <3>2, <4>1
    <3>3. CASE i > n + 1
      <4>1. n < l /\ next = n + 1 /\ ~(i <= n) /\ ~(i <= next)
        BY <1>2, <3>3
      <4>2. i - next \in 1..(k - 1) /\ (i - next) + 1 = i - n
        BY <1>2, <1>3, <1>4, <3>3, <4>1
      <4>3. left[i - next] = Left[i - n]
        BY <1>3, <2>1, <4>2
      <4>4. script[i] = Left[i - n]
        BY <1>4, <4>1
      <4> QED
        BY <2>1, <4>1, <4>3, <4>4
    <3> QED
      BY <1>2, <3>1, <3>2, <3>3
  <2>7. ASSUME NEW i \in 1..Len(left), i + Len(d) > l
        PROVE  left[i].op \in {"flush", "read"}
    <3>1. i \in 1..(k - 1) /\ i + 1 \in 1..k
      BY <1>2, <1>3, <2>2
    <3>2. (i + 1) + n > l
      BY <1>2, <2>1, <2>7, <3>1
    <3>3. left[i] = Left[i + 1]
      BY <1>3, <2>1, <3>1
    <3> QED
      BY <1>4, <3>1, <3>2, <3>3
  <2> QED
    BY <1>1, <2>3, <2>4, <2>5, <2>6, <2>7 DEF WordsKept, left, d, l
<1> QED
  BY <1>4, <1>6, <1>7, <1>8, <1>9

LEMMA ServeAfter ==
    ASSUME Serve
    PROVE  flushed' = After(serving[1], flushed)
<1>1. \/ serving[1].op = "flush" /\ flushed' = flushed \cup {serving[1].addr}
      \/ serving[1].op \in {"write", "read"} /\ flushed' = {}
      \/ serving[1].op = "msip" /\ flushed' = flushed
  BY DEF Serve
<1> QED
  BY <1>1 DEF After, Accessing

\* The message's blocks are flushed before it is an access.
LEMMA ServeFlushes ==
    ASSUME WordsKept, FlushesKept, Serve
    PROVE  FlushesKept'
<1> DEFINE m == serving[1]
           l == Left'
<1>1. /\ Left # <<>> /\ Left[1] = m /\ l = Tail(Left) /\ Left \in Messages
  BY ServeLeft, WordsTyped
<1>2. cflush' = cflush /\ flushed' = After(m, flushed)
  <2>1. cflush' = cflush
    BY DEF Serve, options
  <2>2. flushed' = After(m, flushed)
    BY ServeAfter
  <2> QED
    BY <2>1, <2>2
<1>3. ASSUME cflush PROVE Guarded(l, After(m, flushed))
  BY <1>1, <1>3, TailGuarded DEF FlushesKept
<1>4. Guarded(Left, flushed)' <=> Guarded(l, After(m, flushed))
  BY <1>2 DEF Guarded, Untouched, Fresh, Blocks, Chunk, Accessing
<1> QED
  BY <1>2, <1>3, <1>4 DEF FlushesKept

\* What the message stores, loads or wakes.
LEMMA ServeStep ==
    ASSUME IInv, Serve
    PROVE  IInv'
<1> DEFINE m == serving[1]
<1>1. WordsKept /\ ScriptKept /\ FlushesKept /\ MemoryKept /\ ProgramKept /\ HartKept
  BY DEF IInv
<1>2. /\ WordsKept'
      /\ m.op \in {"write", "msip"} => Len(done) < Len(script) /\ script[Len(done) + 1] = m
      /\ Len(done) = Len(script) => Len(done') = Len(script)
      /\ Len(done) < Len(script) => Len(done') = Len(done) + 1
  BY <1>1, ServeWords
<1>3. /\ m \in Message /\ UNCHANGED <<loadmem, cflush, msip, script, code, exit>>
      /\ done' = IF Len(done) < Len(script) THEN Append(done, m) ELSE done
  BY <1>1, ServeLeft DEF Serve, options
<1>4. /\ done \in Messages /\ Len(done) \in Nat /\ Len(script) \in Nat
      /\ Append(done, m) \in Messages /\ Len(Append(done, m)) = Len(done) + 1
      /\ \A i \in 1..(Len(done) + 1) : Append(done, m)[i] = IF i <= Len(done) THEN done[i] ELSE m
  <2>1. done \in Messages /\ Len(done) \in Nat /\ Len(script) \in Nat
    BY <1>1, WordsTyped, LenProperties DEF ScriptKept
  <2> HIDE DEF m
  <2>2. /\ Append(done, m) \in Messages /\ Len(Append(done, m)) = Len(done) + 1
        /\ \A i \in 1..(Len(done) + 1) : Append(done, m)[i] = IF i <= Len(done) THEN done[i] ELSE m
    BY <1>3, <2>1 DEF Messages
  <2> QED
    BY <2>1, <2>2
<1>5. ScriptKept' /\ FlushesKept'
  BY <1>1, <1>3, ScriptUnchanged, ServeFlushes
<1>6. /\ \A a \in Addresses : Placed(a)' =>
            Placed(a) \/ (m.op = "write" /\ m.val = Text /\ a \in Chunk(m))
      /\ \A a : Replaced(a)' <=> Replaced(a)
  <2>1. \A a : Replaced(a)' <=> Replaced(a)
    BY <1>3 DEF Replaced
  <2>2. ASSUME NEW a \in Addresses, Placed(a)', ~Placed(a)
        PROVE  m.op = "write" /\ m.val = Text /\ a \in Chunk(m)
    <3>1. PICK j \in 1..Len(done') : done'[j].op = "write" /\ done'[j].val = Text /\ a \in Chunk(done'[j])
      BY <1>3, <2>2 DEF Placed
    <3> HIDE DEF m
    <3>2. Len(done) < Len(script) /\ done' = Append(done, m)
      BY <1>3, <2>2, <3>1 DEF Placed
    <3>3. j \in 1..(Len(done) + 1)
      BY <1>4, <3>1, <3>2
    <3>4. j \notin 1..Len(done)
      BY <1>4, <2>2, <3>1, <3>2, <3>3 DEF Placed
    <3>5. done'[j] = m
      BY <1>4, <3>2, <3>3, <3>4
    <3> QED
      BY <3>1, <3>5
  <2> QED
    BY <2>1, <2>2
<1>7. CASE m.op # "write"
  <2>1. UNCHANGED <<backing, initialized, fault, written>>
    BY <1>7 DEF Serve, memory
  <2>2. MemoryKept'
    BY <1>1, <1>3, <2>1, MemoryUnchanged
  <2>3. ProgramKept'
    BY <1>1, <1>6, <1>7, <2>1 DEF ProgramKept
  <2>4. woken' => Len(done') = Len(script)
    <3>1. CASE m.op = "msip"
      <4>1. Len(done) + 1 = Len(script)
        <5>1. Len(done) + 1 \in 1..Len(script) /\ script[Len(done) + 1].op = "msip"
          BY <1>2, <1>4, <3>1
        <5> QED
          BY <1>1, <5>1 DEF ScriptKept
      <4> QED
        BY <1>2, <1>4, <3>1, <4>1
    <3>2. CASE m.op # "msip"
      <4>1. woken' = woken
        BY <1>7, <3>2 DEF Serve
      <4> QED
        BY <1>1, <1>2, <4>1 DEF HartKept
    <3> QED
      BY <3>1, <3>2
  <2>5. /\ Len(out_data') <= 1
        /\ out_data' # <<>> => (out_data'[1].addr = Tohost => out_data'[1].val \in -3..3)
    <3>1. CASE m.op # "read"
      <4>1. out_data' = out_data
        BY <1>7, <3>1 DEF Serve
      <4> QED
        BY <1>1, <4>1 DEF HartKept
    <3>2. CASE m.op = "read"
      <4>1. out_data' = <<[addr |-> m.addr, val |-> Loaded(m.addr)]>> /\ Up(Chunk(m))
        BY <3>2 DEF Serve
      <4>2. ASSUME m.addr = Tohost PROVE Loaded(m.addr) \in -3..3
        <5>1. Tohost \in Addresses /\ Tohost \in Chunk(m)
          BY <1>3, <4>2, BootAssumption, SMTT(30) DEF Message, Chunk, Addresses
        <5>2. Up({Tohost})
          BY <4>1, <5>1 DEF Up
        <5> QED
          BY <1>1, <4>2, <5>1, <5>2, LoadedTyped
      <4> HIDE DEF m
      <4>3. /\ Len(out_data') = 1 /\ out_data'[1].addr = m.addr /\ out_data'[1].val = Loaded(m.addr)
        BY <4>1
      <4> QED
        BY <4>2, <4>3
    <3> QED
      BY <3>1, <3>2
  <2> QED
    BY <1>1, <1>2, <1>3, <1>5, <2>2, <2>3, <2>4, <2>5 DEF IInv, HartKept
<1>8. CASE m.op = "write"
  <2>1. /\ Up(Chunk(m)) /\ Stores(Chunk(m), m.val) /\ UNCHANGED <<initialized, fault, out_data, woken>>
    BY <1>8 DEF Serve
  <2>2. Chunk(m) \in SUBSET Addresses /\ m.val \in -3..3
    BY <1>3 DEF Chunk, Message, Zero, Text, Datum
  <2>3. /\ MemoryKept'
        /\ \A a \in Addresses : written'[a] = IF a \in Chunk(m) THEN m.val ELSE written[a]
    BY <1>1, <1>3, <2>1, <2>2, StoresMemory
  <2>4. m.val = Text \/ (m.val = Datum /\ \A a \in Chunk(m) : Replaced(a))
    <3>1. Len(done) + 1 \in 1..Len(script) /\ script[Len(done) + 1] = m
      BY <1>2, <1>4, <1>8
    <3>2. m.val \in {Text, Datum}
      BY <1>1, <1>8, <3>1 DEF ScriptKept
    <3>3. DOMAIN script = 1..Len(script)
      BY <1>1, LenProperties DEF ScriptKept
    <3> QED
      BY <1>8, <3>1, <3>2, <3>3 DEF Replaced
  <2>5. ProgramKept'
    <3> SUFFICES ASSUME fault' = "none", NEW a \in Addresses, Placed(a)', ~Replaced(a), a # Tohost
                 PROVE  written'[a] = Text
      BY <1>6 DEF ProgramKept
    <3>1. CASE a \in Chunk(m)
      BY <2>3, <2>4, <3>1
    <3>2. CASE a \notin Chunk(m)
      BY <1>1, <1>6, <2>1, <2>3, <3>2 DEF ProgramKept
    <3> QED
      BY <3>1, <3>2
  <2>6. HartKept'
    BY <1>1, <1>2, <1>3, <2>1 DEF HartKept
  <2> QED
    BY <1>2, <1>5, <2>3, <2>5, <2>6 DEF IInv
<1> QED
  BY <1>7, <1>8

LEMMA StutterStep ==
    ASSUME IInv, UNCHANGED vars
    PROVE  IInv'
<1>1. /\ UNCHANGED <<loadmem, cflush, msip, script, backing, initialized, fault, written>>
      /\ UNCHANGED <<plan, in_data, in_reg, serving, out_data, flushed, done, woken, code, exit>>
  BY DEF vars, options, memory, host, target
<1>2. ScriptKept' /\ MemoryKept' /\ ProgramKept'
  BY <1>1, ScriptUnchanged, MemoryUnchanged, ProgramUnchanged DEF IInv
<1>3. WordsKept' /\ FlushesKept' /\ HartKept'
  <2>1. Left' = Left
    BY <1>1 DEF Left
  <2> QED
    BY <1>1, <2>1 DEF IInv, WordsKept, FlushesKept, HartKept, Guarded, Untouched, Fresh
<1> QED
  BY <1>2, <1>3 DEF IInv

LEMMA InvariantHolds == Spec => []IInv
<1>1. IInv /\ [Next]_vars => IInv'
  BY MemoryInitStep, TickStep, ServeStep, HartStoreStep, HartExitStep, StutterStep DEF Next
<1> QED
  BY InitHolds, <1>1, PTL DEF Spec
-----------------------------------------------------------------------------
(* The theorems.                                                            *)

LEMMA DoneAndLeft ==
    ASSUME WordsKept
    PROVE  done \o serving \o in_data \o plan = done \o Left
<1> DEFINE words == done
           one == serving
           two == in_data
           sent == one \o two
           rest == plan
<1>1. /\ words \in Messages /\ one \in Messages /\ two \in Messages
      /\ sent \in Messages /\ rest \in Messages
  BY WordsTyped
<1> HIDE DEF words, one, two, rest
<1>2. (words \o one) \o two = words \o sent
  BY <1>1, Regroup, SMTT(30)
<1> HIDE DEF sent
<1>3. (words \o sent) \o rest = words \o (sent \o rest)
  BY <1>1, Regroup, SMTT(60)
<1>4. ((words \o one) \o two) \o rest = words \o (sent \o rest)
  BY <1>2, <1>3
<1>5. sent \o rest = Left
  BY DEF one, two, sent, rest, Left
<1>6. ((words \o one) \o two) \o rest = words \o Left
  BY <1>4, <1>5
<1> QED
  BY <1>6 DEF words, one, two, rest

LEMMA WordsInOrder ==
    ASSUME IInv
    PROVE  WordsOnce
<1> DEFINE all == done \o Left
           n == Len(script)
<1>1. /\ done \in Messages /\ Left \in Messages /\ script \in Messages
      /\ serving \in Messages /\ in_data \in Messages /\ plan \in Messages
  BY WordsTyped DEF IInv, ScriptKept, Messages
<1>2. /\ all \in Messages /\ Len(done) \in Nat /\ Len(Left) \in Nat /\ Len(all) = Len(done) + Len(Left)
      /\ \A i \in 1..(Len(done) + Len(Left)) : all[i] = IF i <= Len(done) THEN done[i] ELSE Left[i - Len(done)]
  BY <1>1, ConcatParts
<1>3. n \in Nat /\ n <= Len(all) /\ \A i \in 1..n : all[i] = script[i]
  <2>1. n \in Nat
    BY <1>1, LenProperties DEF Messages
  <2>2. /\ n <= Len(done) + Len(Left)
        /\ \A i \in 1..n : script[i] = IF i <= Len(done) THEN done[i] ELSE Left[i - Len(done)]
    BY DEF IInv, WordsKept
  <2> HIDE DEF all, n
  <2>3. n <= Len(all)
    BY <1>2, <2>1, <2>2
  <2>4. ASSUME NEW i \in 1..n PROVE all[i] = script[i]
    <3>1. i \in 1..(Len(done) + Len(Left))
      BY <1>2, <2>1, <2>2
    <3> QED
      BY <1>2, <2>2, <3>1
  <2> QED
    BY <2>1, <2>3, <2>4
<1>4. done \o serving \o in_data \o plan = all
  BY DoneAndLeft DEF IInv
<1> HIDE DEF all, n
<1>5. SubSeq(all, 1, n) = SubSeq(script, 1, n)
  <2>1. SubSeq(all, 1, n) \in Messages /\ Len(SubSeq(all, 1, n)) = n
        /\ \A i \in 1..n : SubSeq(all, 1, n)[i] = all[i]
    <3>1. \A i \in 1..n : all[i] \in Message
      BY <1>2, <1>3, ElementOfSeq DEF Messages
    <3> QED
      BY <1>3, <3>1, SubSeqProperties DEF Messages
  <2>2. SubSeq(script, 1, n) = script
    BY <1>1, SubSeqFull DEF Messages, n
  <2>3. Len(script) = n
    BY DEF n
  <2> QED
    BY <1>1, <1>3, <2>1, <2>2, <2>3, SeqEqual DEF Messages
<1> QED
  BY <1>3, <1>4, <1>5 DEF WordsOnce, IsPrefix, n

LEMMA TypesKept ==
    ASSUME IInv
    PROVE  TypeOK
<1>1. \A c \in Channels : Key(c) \in {<<chip_id[d], base>> : d \in Channels, base \in 0..(2^addr_bits - 1)}
  BY BaseTyped DEF Key
<1>2. DOMAIN backing \subseteq {<<chip_id[c], base>> : c \in Channels, base \in 0..(2^addr_bits - 1)}
  <2> DEFINE keys == {<<chip_id[c], base>> : c \in Channels, base \in 0..(2^addr_bits - 1)}
  <2>1. \A c \in Channels : Key(c) \in keys
    BY <1>1
  <2> HIDE DEF keys
  <2>2. DOMAIN backing \subseteq keys
    BY <2>1 DEF IInv, MemoryKept
  <2> QED
    BY <2>2 DEF keys
<1>3. ASSUME NEW k \in DOMAIN backing, NEW o \in DOMAIN backing[k] PROVE backing[k][o] \in -3..3
  <2>1. PICK c \in Channels : initialized[c] /\ k = Key(c)
    BY <1>3 DEF IInv, MemoryKept
  <2>2. backing[k] \in [Offsets(c) -> -3..3]
    BY <2>1 DEF IInv, MemoryKept
  <2> QED
    BY <2>2
<1>4. Len(in_reg) <= 1 /\ Len(serving) <= 1 /\ Len(out_data) <= 1
  <2>1. in_data \in Messages /\ in_reg = SubSeq(in_data, 1, IF in_data = <<>> THEN 0 ELSE 1)
    BY WordsTyped DEF IInv, WordsKept
  <2> QED
    BY <2>1, FirstParts DEF IInv, WordsKept, HartKept
<1> QED
  BY <1>2, <1>3, <1>4 DEF IInv, HartKept, MemoryKept, TypeOK

\* What a tick relies on: every word of the host reaches the design once and in order,
\* through a register that shows it a clock late.
THEOREM BootInvariant == Spec => []Inv
<1>1. IInv => Inv
  BY WordsInOrder, TypesKept DEF Inv
<1> QED
  BY <1>1, InvariantHolds, PTL

\* With +cflush_addr, no access of the host finds a block it touches unflushed, for any
\* block size and any chunks.
THEOREM AccessesAlwaysFlushed == Spec => []AccessesFlushed
<1>1. IInv => AccessesFlushed
  <2> SUFFICES ASSUME IInv, cflush, serving # <<>>, serving[1].op \in {"read", "write"},
                      NEW b \in Blocks(serving[1])
               PROVE  b \in flushed
    BY DEF AccessesFlushed, Blocks
  <2>1. Left \in Messages /\ serving \in Messages /\ in_data \in Messages /\ plan \in Messages
    BY WordsTyped DEF IInv
  <2>2. 1 \in 1..Len(Left) /\ Left[1] = serving[1]
    <3>1. in_data \o plan \in Messages /\ Left = serving \o (in_data \o plan)
      <4>1. in_data \o plan \in Messages
        BY <2>1, ConcatParts
      <4>2. (serving \o in_data) \o plan = serving \o (in_data \o plan)
        BY <2>1, Regroup
      <4> QED
        BY <4>1, <4>2 DEF Left
    <3>2. Len(serving) \in Nat /\ Len(serving) >= 1
      BY <2>1, TailParts
    <3>3. /\ Len(in_data \o plan) \in Nat
          /\ Len(serving \o (in_data \o plan)) = Len(serving) + Len(in_data \o plan)
          /\ \A i \in 1..Len(serving) : (serving \o (in_data \o plan))[i] = serving[i]
      BY <2>1, <3>1, ConcatParts
    <3> QED
      BY <3>1, <3>2, <3>3
  <2>3. (b \in flushed /\ Untouched(Left, 1)) \/ Fresh(Left, 1, b)
    BY <2>2 DEF IInv, FlushesKept, Guarded, Accessing
  <2>4. ~Fresh(Left, 1, b)
    BY DEF Fresh
  <2> QED
    BY <2>3, <2>4
<1> QED
  BY <1>1, InvariantHolds, PTL

\* When hart 0 wakes, the program is in memory and the init accesses are made, whoever
\* loads the program, in whatever order the resets are released and whatever the bases of
\* the channels, unless memory_init has copied out of bounds or aborted.
THEOREM WokenAlwaysReady == Spec => []WokenReady
<1>1. IInv => WokenReady
  <2> SUFFICES ASSUME IInv, woken, fault = "none"
               PROVE  /\ \A i \in DOMAIN Program : \A a \in Chunk(Program[i]) :
                            Up({a}) /\ ~Replaced(a) /\ a # Tohost => Loaded(a) = Text
                      /\ Len(done) = Len(script)
    BY DEF WokenReady
  <2>1. Len(done) = Len(script)
    BY DEF IInv, HartKept
  <2>2. ASSUME NEW i \in DOMAIN Program, NEW a \in Chunk(Program[i]), Up({a}), ~Replaced(a), a # Tohost
        PROVE  Loaded(a) = Text
    <3>1. a \in Addresses
      BY DEF Chunk
    <3>2. Placed(a)
      <4>1. CASE loadmem
        BY <2>2, <4>1 DEF Placed, InProgram, Chunk
      <4>2. CASE ~loadmem
        <5>1. PICK j \in 1..Len(script) :
                 script[j] = Access("write", Program[i].addr, Program[i].len, Text)
          BY <4>2 DEF IInv, ScriptKept
        <5>2. j \in 1..Len(done) /\ done[j] = script[j]
          BY <2>1, <5>1 DEF IInv, WordsKept
        <5>3. /\ Access("write", Program[i].addr, Program[i].len, Text).op = "write"
              /\ Access("write", Program[i].addr, Program[i].len, Text).val = Text
              /\ Chunk(Access("write", Program[i].addr, Program[i].len, Text)) = Chunk(Program[i])
          BY DEF Access, Chunk
        <5> QED
          BY <5>1, <5>2, <5>3 DEF Placed
      <4> QED
        BY <4>1, <4>2
    <3>3. written[a] = Text
      BY <2>2, <3>1, <3>2 DEF IInv, ProgramKept
    <3> QED
      BY <2>2, <3>1, <3>3, LoadedWritten DEF IInv
  <2> QED
    BY <2>1, <2>2
<1> QED
  BY <1>1, InvariantHolds, PTL

\* No store is lost to a channel that comes up later, and none reaches another memory,
\* however channels share chips, bases and sizes, until memory_init copies the program out
\* of bounds or finds two sizes for one memory.
THEOREM StoresAlwaysKept == Spec => []StoresKept
<1>1. IInv => StoresKept
  BY DEF IInv, MemoryKept
<1> QED
  BY <1>1, InvariantHolds, PTL

\* The channels of one memory agree on its size, and every memory has room for the program.
Fits ==
    \A c \in Channels :
        /\ \A d \in Channels : Key(c) = Key(d) => mem_size[c] = mem_size[d]
        /\ \A i \in DOMAIN Program :
              /\ Program[i].addr - Base(c) \in Offsets(c)
              /\ Program[i].addr + Program[i].len - 1 - Base(c) \in Offsets(c)

\* On a harness whose memories fit, memory_init never copies out of bounds and its assertion
\* never fails: what the theorems above exclude is a matter of the harness and the program.
THEOREM NoFaultWhenMemoriesFit == Spec => [](Fits => fault = "none")
<1> DEFINE NoFault == Fits => fault = "none"
<1>1. Init => NoFault
  BY DEF Init
<1>2. IInv /\ NoFault /\ [Next]_vars => NoFault'
  <2> SUFFICES ASSUME IInv, Fits, fault = "none", [Next]_vars PROVE fault' = "none"
    BY DEF Fits, Key, Base, Offsets
  <2>1. ASSUME NEW c \in Channels, memory_init(c) PROVE fault' = "none"
    <3>1. ~OutOfBounds(c)
      BY DEF Fits, OutOfBounds
    <3>2. ASSUME Key(c) \in DOMAIN backing PROVE DOMAIN backing[Key(c)] = Offsets(c)
      <4>1. PICK d \in Channels : initialized[d] /\ Key(d) = Key(c)
        BY <3>2 DEF IInv, MemoryKept
      <4>2. Offsets(d) = Offsets(c)
        BY <4>1 DEF Fits, Offsets
      <4> QED
        BY <4>1, <4>2, SameMemory DEF IInv
    <3> QED
      BY <2>1, <3>1, <3>2 DEF memory_init
  <2>2. CASE UNCHANGED vars
    BY <2>2 DEF vars, memory
  <2> QED
    BY <2>1, <2>2 DEF Next, tsi_tick, Serve, HartStore, HartExit, memory
<1> QED
  BY <1>1, <1>2, InvariantHolds, PTL DEF Spec
=============================================================================
