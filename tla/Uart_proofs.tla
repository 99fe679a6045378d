----------------------------- MODULE Uart_proofs -----------------------------
(* The console's characters pass both ways once and in order, and a ctrl-C is *)
(* not forgotten, for queues and outputs of any size.                         *)
EXTENDS Uart, SequenceTheorems, TLAPS

-----------------------------------------------------------------------------
(* Sequences of characters.                                                 *)

Chars == Seq(Nat)

LEMMA ConcatParts ==
    ASSUME NEW a \in Chars, NEW b \in Chars
    PROVE  /\ a \o b \in Chars
           /\ Len(a \o b) = Len(a) + Len(b)
           /\ \A i \in 1..(Len(a) + Len(b)) :
                 (a \o b)[i] = IF i <= Len(a) THEN a[i] ELSE b[i - Len(a)]
BY ConcatProperties DEF Chars

LEMMA EmptyConcat ==
    ASSUME NEW a \in Chars
    PROVE  a \o <<>> = a /\ <<>> \o a = a
BY DEF Chars

\* A character typed is the last on the line.
LEMMA ConcatAppend ==
    ASSUME NEW a \in Chars, NEW b \in Chars, NEW x \in Nat
    PROVE  a \o Append(b, x) = Append(a \o b, x)
BY DEF Chars

\* A character taken is the first.
LEMMA ConcatTail ==
    ASSUME NEW a \in Chars, NEW b \in Chars, a # <<>>
    PROVE  Head(a \o b) = Head(a) /\ Tail(a \o b) = Tail(a) \o b /\ a \o b # <<>>
BY DEF Chars

\* Moving the first character of what follows behind what is before changes nothing.
LEMMA ConcatMove ==
    ASSUME NEW a \in Chars, NEW b \in Chars, b # <<>>
    PROVE  Append(a, Head(b)) \o Tail(b) = a \o b
BY DEF Chars

LEMMA AppendOne ==
    ASSUME NEW a \in Chars, NEW x \in Nat
    PROVE  a \o <<x>> = Append(a, x)
BY DEF Chars

\* The next character typed goes behind the others.
LEMMA AppendInOrder ==
    ASSUME NEW s \in Chars, NEW from \in Nat, NEW to \in Nat, from <= to, InOrder(s, from, to)
    PROVE  InOrder(Append(s, to + 1), from, to + 1)
<1> DEFINE n == Len(s)
           t == Append(s, to + 1)
<1>1. /\ n \in Nat /\ DOMAIN s = 1..n /\ DOMAIN t = 1..(n + 1)
      /\ \A i \in 1..n : t[i] = s[i] /\ s[i] \in Nat
      /\ t[n + 1] = to + 1
  BY DEF Chars
<1> HIDE DEF n, t
<1>2. \A i \in 1..n : s[i] # CtrlC => s[i] \in (from + 1)..to
  BY <1>1 DEF InOrder
<1>3. ASSUME NEW i \in 1..(n + 1), NEW j \in 1..(n + 1), i < j, t[i] # CtrlC, t[j] # CtrlC
      PROVE  t[i] < t[j]
  <2>1. i \in 1..n
    BY <1>1, <1>3
  <2>2. CASE j = n + 1
    BY <1>1, <1>2, <1>3, <2>1, <2>2
  <2>3. CASE j # n + 1
    <3>1. i \in DOMAIN s /\ j \in DOMAIN s /\ t[i] = s[i] /\ t[j] = s[j]
      BY <1>1, <2>1, <2>3
    <3>2. QED
      BY <1>3, <3>1 DEF InOrder
  <2>4. QED
    BY <2>2, <2>3
<1>4. {t[i] : i \in 1..(n + 1)} \ {CtrlC} = (from + 1)..(to + 1)
  <2>1. {t[i] : i \in 1..(n + 1)} = {s[i] : i \in 1..n} \cup {to + 1}
    <3>1. 1..(n + 1) = (1..n) \cup {n + 1}
      BY <1>1
    <3>2. QED
      BY <1>1, <3>1
  <2>2. {s[i] : i \in 1..n} \ {CtrlC} = (from + 1)..to
    BY <1>1 DEF InOrder
  <2>3. to + 1 # CtrlC /\ (from + 1)..(to + 1) = ((from + 1)..to) \cup {to + 1}
    BY DEF CtrlC
  <2>4. QED
    BY <2>1, <2>2, <2>3
<1>5. QED
  BY <1>1, <1>3, <1>4 DEF InOrder, t

\* The first character on the line is the next one, or a ctrl-C.
LEMMA TailInOrder ==
    ASSUME NEW s \in Chars, NEW from \in Nat, NEW to \in Nat, InOrder(s, from, to), s # <<>>
    PROVE  /\ Head(s) # CtrlC => from + 1 <= to
           /\ InOrder(Tail(s), IF Head(s) = CtrlC THEN from ELSE from + 1, to)
<1> DEFINE n == Len(s)
           t == Tail(s)
           next == IF Head(s) = CtrlC THEN from ELSE from + 1
<1>1. /\ n \in Nat /\ n >= 1 /\ DOMAIN s = 1..n /\ DOMAIN t = 1..(n - 1)
      /\ \A i \in 1..(n - 1) : t[i] = s[i + 1]
      /\ \A i \in 1..n : s[i] \in Nat
      /\ Head(s) = s[1]
  BY DEF Chars
<1> HIDE DEF n, t
<1>2. /\ \A i, j \in 1..n : i < j /\ s[i] # CtrlC /\ s[j] # CtrlC => s[i] < s[j]
      /\ {s[i] : i \in 1..n} \ {CtrlC} = (from + 1)..to
  BY <1>1 DEF InOrder
<1>3. \A i, j \in 1..(n - 1) : i < j /\ t[i] # CtrlC /\ t[j] # CtrlC => t[i] < t[j]
  BY <1>1, <1>2
<1>4. {t[i] : i \in 1..(n - 1)} = {s[i] : i \in 2..n}
  <2>1. ASSUME NEW i \in 2..n PROVE \E j \in 1..(n - 1) : t[j] = s[i]
    <3>1. i - 1 \in 1..(n - 1) /\ (i - 1) + 1 = i
      BY <1>1
    <3>2. QED
      BY <1>1, <3>1
  <2>2. \A j \in 1..(n - 1) : j + 1 \in 2..n /\ t[j] = s[j + 1]
    BY <1>1
  <2>3. ASSUME NEW c PROVE (\E j \in 1..(n - 1) : c = t[j]) <=> (\E i \in 2..n : c = s[i])
    BY <2>1, <2>2, Zenon
  <2>4. QED
    BY <2>3
<1>5. {s[i] : i \in 1..n} = {s[i] : i \in 2..n} \cup {s[1]}
  <2>1. 1..n = (2..n) \cup {1}
    BY <1>1
  <2>2. QED
    BY <2>1
<1>6. CASE Head(s) = CtrlC
  <2>1. {s[i] : i \in 2..n} \ {CtrlC} = (from + 1)..to
    BY <1>1, <1>2, <1>5, <1>6
  <2>2. QED
    BY <1>1, <1>3, <1>4, <1>6, <2>1 DEF InOrder, t
<1>7. CASE Head(s) # CtrlC
  <2>1. s[1] \in (from + 1)..to
    BY <1>1, <1>2, <1>5, <1>7
  <2>2. \A i \in 2..n : s[i] # CtrlC => s[1] < s[i]
    BY <1>1, <1>2, <1>7
  <2>3. s[1] = from + 1
    <3>1. from + 1 \in (from + 1)..to
      BY <2>1
    <3>2. PICK i \in 1..n : s[i] = from + 1 /\ s[i] # CtrlC
      BY <1>2, <3>1
    <3>3. i = 1 \/ i \in 2..n
      BY <1>1
    <3>4. QED
      BY <2>1, <2>2, <3>2, <3>3
  <2>4. {s[i] : i \in 2..n} \ {CtrlC} = (from + 2)..to
    <3>1. ASSUME NEW c \in {s[i] : i \in 2..n} \ {CtrlC} PROVE c \in (from + 2)..to
      <4>1. PICK i \in 2..n : c = s[i]
        BY <3>1
      <4>2. c \in (from + 1)..to /\ c > s[1] /\ c # CtrlC
        BY <1>2, <1>5, <2>2, <3>1, <4>1
      <4>3. QED
        BY <2>3, <4>2
    <3>2. ASSUME NEW c \in (from + 2)..to PROVE c \in {s[i] : i \in 2..n} \ {CtrlC}
      <4>1. c \in (from + 1)..to /\ c # s[1]
        BY <2>3
      <4>2. c \in {s[i] : i \in 1..n} \ {CtrlC}
        BY <1>2, <4>1
      <4>3. QED
        BY <1>5, <4>1, <4>2
    <3>3. QED
      BY <3>1, <3>2
  <2>5. from + 2 = (from + 1) + 1 /\ from + 1 <= to
    BY <2>1
  <2>6. InOrder(t, from + 1, to)
    BY <1>1, <1>3, <1>4, <2>4, <2>5 DEF InOrder
  <2>7. QED
    BY <1>7, <2>5, <2>6 DEF t
<1>8. QED
  BY <1>6, <1>7

\* A ctrl-C may be put in anywhere.
LEMMA CtrlCInOrder ==
    ASSUME NEW a \in Chars, NEW b \in Chars, NEW from \in Nat, NEW to \in Nat, InOrder(a \o b, from, to)
    PROVE  InOrder(Append(a, CtrlC) \o b, from, to)
<1> DEFINE n == Len(a)
           m == Len(b)
           s == a \o b
           t == Append(a, CtrlC) \o b
           Old(i) == IF i <= n THEN i ELSE i - 1
<1>1. /\ n \in Nat /\ m \in Nat /\ DOMAIN s = 1..(n + m)
      /\ \A i \in 1..(n + m) : s[i] = IF i <= n THEN a[i] ELSE b[i - n]
  BY ConcatParts DEF Chars
<1>2. /\ DOMAIN t = 1..(n + m + 1)
      /\ \A i \in 1..(n + m + 1) : t[i] = IF i <= n THEN a[i] ELSE IF i = n + 1 THEN CtrlC ELSE b[i - (n + 1)]
  <2>1. Append(a, CtrlC) \in Chars /\ Len(Append(a, CtrlC)) = n + 1
        /\ Append(a, CtrlC)[n + 1] = CtrlC
        /\ \A i \in 1..n : Append(a, CtrlC)[i] = a[i]
    BY DEF Chars, CtrlC
  <2>2. /\ DOMAIN t = 1..((n + 1) + m)
        /\ \A i \in 1..((n + 1) + m) : t[i] = IF i <= n + 1 THEN Append(a, CtrlC)[i] ELSE b[i - (n + 1)]
    BY <2>1, ConcatParts DEF Chars
  <2> HIDE DEF n, m, t
  <2>3. QED
    BY <1>1, <2>1, <2>2
<1> HIDE DEF n, m, s, t
<1>3. \A i \in 1..(n + m + 1) : i # n + 1 => Old(i) \in 1..(n + m) /\ t[i] = s[Old(i)]
  BY <1>1, <1>2
<1>4. t[n + 1] = CtrlC /\ n + 1 \in 1..(n + m + 1)
  BY <1>1, <1>2
<1>5. /\ \A i, j \in 1..(n + m) : i < j /\ s[i] # CtrlC /\ s[j] # CtrlC => s[i] < s[j]
      /\ {s[i] : i \in 1..(n + m)} \ {CtrlC} = (from + 1)..to
  BY <1>1 DEF InOrder, s
<1>6. ASSUME NEW i \in 1..(n + m + 1), NEW j \in 1..(n + m + 1), i < j, t[i] # CtrlC, t[j] # CtrlC
      PROVE  t[i] < t[j]
  <2>1. i # n + 1 /\ j # n + 1
    BY <1>4, <1>6
  <2>2. Old(i) < Old(j)
    BY <1>1, <1>6, <2>1
  <2> HIDE DEF Old
  <2>3. QED
    BY <1>3, <1>5, <1>6, <2>1, <2>2
<1>7. {t[i] : i \in 1..(n + m + 1)} \ {CtrlC} = {s[i] : i \in 1..(n + m)} \ {CtrlC}
  <2>1. ASSUME NEW i \in 1..(n + m + 1), t[i] # CtrlC PROVE \E j \in 1..(n + m) : t[i] = s[j]
    BY <1>3, <1>4, <2>1
  <2>2. ASSUME NEW j \in 1..(n + m) PROVE \E i \in 1..(n + m + 1) : t[i] = s[j]
    <3>1. CASE j <= n
      <4>1. j \in 1..(n + m + 1) /\ j # n + 1 /\ Old(j) = j
        BY <1>1, <3>1
      <4>2. QED
        BY <1>3, <4>1
    <3>2. CASE j > n
      <4>1. j + 1 \in 1..(n + m + 1) /\ j + 1 # n + 1 /\ Old(j + 1) = j
        BY <1>1, <3>2
      <4> HIDE DEF Old
      <4>2. QED
        BY <1>3, <4>1
    <3>3. QED
      BY <1>1, <3>1, <3>2
  <2>3. QED
    BY <2>1, <2>2
<1>8. QED
  BY <1>2, <1>5, <1>6, <1>7 DEF InOrder, t
-----------------------------------------------------------------------------
(* The invariant.                                                           *)

IInv == Inv /\ TypedInOrder /\ PrintedOnce

\* What is still to be printed of the design's queue.
Unprinted == IF Printed THEN Rest(txq) ELSE txq

LEMMA NumbersParts ==
    ASSUME NEW from \in Nat, NEW to \in Nat, from <= to
    PROVE  /\ Numbers(from, to) \in Chars /\ Len(Numbers(from, to)) = to - from
           /\ Append(Numbers(from, to), to + 1) = Numbers(from, to + 1)
           /\ from < to => Tail(Numbers(from, to)) = Numbers(from + 1, to)
<1> DEFINE n == to - from
           s == Numbers(from, to)
<1>1. n \in Nat
  OBVIOUS
<1>2. /\ s \in Chars /\ Len(s) = n /\ \A k \in 1..n : s[k] = from + k
  BY <1>1 DEF Numbers, Chars
<1>3. Append(s, to + 1) = Numbers(from, to + 1)
  <2> DEFINE t == Numbers(from, to + 1)
  <2>1. t \in Chars /\ Len(t) = n + 1 /\ \A k \in 1..(n + 1) : t[k] = from + k
    BY <1>1 DEF Numbers, Chars
  <2> HIDE DEF n, s, t
  <2>2. /\ Append(s, to + 1) \in Chars /\ Len(Append(s, to + 1)) = n + 1
        /\ \A k \in 1..(n + 1) : Append(s, to + 1)[k] = IF k = n + 1 THEN to + 1 ELSE s[k]
    BY <1>1, <1>2 DEF Chars
  <2>3. \A k \in 1..(n + 1) : Append(s, to + 1)[k] = t[k]
    BY <1>1, <1>2, <2>1, <2>2 DEF n
  <2>4. Append(s, to + 1) = t
    BY <2>1, <2>2, <2>3, SeqEqual DEF Chars
  <2>5. QED
    BY <2>4 DEF t
<1>4. ASSUME from < to PROVE Tail(s) = Numbers(from + 1, to)
  <2> DEFINE t == Numbers(from + 1, to)
  <2>1. t \in Chars /\ Len(t) = n - 1 /\ \A k \in 1..(n - 1) : t[k] = from + 1 + k
    BY <1>1, <1>4 DEF Numbers, Chars
  <2>2. n >= 1
    BY <1>1, <1>4
  <2> HIDE DEF n, s, t
  <2>3. /\ Tail(s) \in Chars /\ Len(Tail(s)) = n - 1
        /\ \A k \in 1..(n - 1) : Tail(s)[k] = s[k + 1]
    BY <1>1, <1>2, <2>2 DEF Chars
  <2>4. \A k \in 1..(n - 1) : Tail(s)[k] = t[k]
    BY <1>1, <1>2, <2>1, <2>3
  <2>5. Tail(s) = t
    BY <2>1, <2>3, <2>4, SeqEqual DEF Chars
  <2>6. QED
    BY <2>5 DEF t
<1>5. QED
  BY <1>2, <1>3, <1>4

LEMMA InitHolds == Init => IInv
<1> SUFFICES ASSUME Init PROVE IInv
  OBVIOUS
<1> USE UartAssumption DEF Init
<1>1. TypeOK
  <2>1. <<>> \in Seq(Nat) /\ Len(<<>>) = 0
    OBVIOUS
  <2>2. {specialchar, owed, out_ready, out_valid, in_ready} \subseteq BOOLEAN
    OBVIOUS
  <2>3. /\ typed \in 0..MaxTyped /\ got \in 0..typed /\ presses \in 0..MaxPresses
        /\ sent \in 0..MaxSent /\ shown \in 0..sent
    OBVIOUS
  <2>4. QED
    BY <2>1, <2>2, <2>3 DEF TypeOK
<1>2. EdgeKept /\ InterruptKept
  BY DEF EdgeKept, InterruptKept
<1>3. TypedInOrder
  <2>1. rxq \o OnTheWay \o input = <<>>
    BY DEF OnTheWay
  <2>2. InOrder(<<>>, 0, 0)
    BY DEF InOrder
  <2>3. QED
    BY <2>1, <2>2 DEF TypedInOrder
<1>4. PrintedOnce
  <2>1. output \o txq = <<>> /\ ~Printed
    BY DEF Printed
  <2>2. Numbers(0, 0) = <<>>
    BY DEF Numbers
  <2>3. QED
    BY <2>1, <2>2 DEF PrintedOnce
<1>5. QED
  BY <1>1, <1>2, <1>3, <1>4 DEF IInv, Inv

\* What TypeOK says of the sequences.
LEMMA CharsTyped ==
    ASSUME TypeOK
    PROVE  /\ input \in Chars /\ rxq \in Chars /\ txq \in Chars /\ output \in Chars
           /\ inp \in Chars /\ in_reg \in Chars /\ OnTheWay \in Chars
           /\ rxq \o OnTheWay \in Chars /\ Unprinted \in Chars
           /\ typed \in Nat /\ got \in Nat /\ got <= typed
           /\ sent \in Nat /\ shown \in Nat /\ shown <= sent
<1>1. /\ input \in Chars /\ rxq \in Chars /\ txq \in Chars /\ output \in Chars
      /\ inp \in Chars /\ in_reg \in Chars
  BY DEF TypeOK, Chars
<1>2. OnTheWay \in Chars
  BY <1>1 DEF OnTheWay
<1>3. rxq \o OnTheWay \in Chars
  BY <1>1, <1>2, ConcatParts
<1>4. /\ typed \in Nat /\ got \in Nat /\ got <= typed
      /\ sent \in Nat /\ shown \in Nat /\ shown <= sent
  BY UartAssumption DEF TypeOK
<1>5. Unprinted \in Chars
  BY <1>1 DEF Unprinted, Rest, Chars
<1>6. QED
  BY <1>1, <1>2, <1>3, <1>4, <1>5

\* The line depends on what is typed and read, and what is printed on what is sent and shown.
LEMMA LineKept ==
    ASSUME TypedInOrder, UNCHANGED <<rxq, input, got, typed>>, OnTheWay' = OnTheWay
    PROVE  TypedInOrder'
BY DEF TypedInOrder

LEMMA OutputKept ==
    ASSUME PrintedOnce, UNCHANGED <<output, shown, sent>>, pc' # "exited" => pc # "exited",
           Unprinted' = Unprinted
    PROVE  PrintedOnce'
BY DEF PrintedOnce, Unprinted

LEMMA TypeStep ==
    ASSUME IInv, Type
    PROVE  IInv'
<1> USE UartAssumption
<1>1. TypeOK'
  BY DEF IInv, Inv, TypeOK, Type, config, design, signals, edge
<1>2. EdgeKept' /\ InterruptKept'
  BY DEF IInv, Inv, EdgeKept, InterruptKept, Type, config, design, signals, edge
<1>3. TypedInOrder'
  <2>1. /\ typed' = typed + 1 /\ input' = Append(input, typed + 1)
        /\ OnTheWay' = OnTheWay /\ UNCHANGED <<rxq, got>>
    BY DEF Type, OnTheWay, design, edge
  <2>2. rxq \o OnTheWay \o input \in Chars
    BY CharsTyped, ConcatParts DEF IInv, Inv
  <2>3. (rxq \o OnTheWay \o input)' = Append(rxq \o OnTheWay \o input, typed + 1)
    BY <2>1, CharsTyped, ConcatAppend, SMTT(30) DEF IInv, Inv
  <2>4. InOrder(Append(rxq \o OnTheWay \o input, typed + 1), got, typed + 1)
    BY <2>2, CharsTyped, AppendInOrder DEF IInv, Inv, TypedInOrder
  <2>5. QED
    BY <2>1, <2>3, <2>4 DEF TypedInOrder
<1>4. PrintedOnce'
  <2>1. Unprinted' = Unprinted /\ UNCHANGED <<output, shown, sent, pc>>
    BY DEF Type, Unprinted, Printed, design, edge
  <2>2. QED
    BY <2>1, OutputKept DEF IInv
<1>5. QED
  BY <1>1, <1>2, <1>3, <1>4 DEF IInv, Inv

LEMMA ShowStep ==
    ASSUME IInv, Show
    PROVE  IInv'
<1> USE UartAssumption
<1>1. /\ output # <<>> /\ output \in Chars /\ output' = Tail(output) /\ shown' = shown + 1
      /\ Tail(output) \in Chars /\ Len(Tail(output)) = Len(output) - 1 /\ Len(output) \in Nat
  BY CharsTyped DEF Show, IInv, Inv, Chars
<1>2. TypeOK'
  <2>1. shown + 1 <= sent
    BY <1>1, CharsTyped DEF IInv, Inv, EdgeKept
  <2>2. QED
    BY <1>1, <2>1 DEF IInv, Inv, TypeOK, Show, config, design, signals, edge, Chars
<1>3. EdgeKept' /\ InterruptKept'
  BY <1>1, CharsTyped DEF IInv, Inv, EdgeKept, InterruptKept, Show, config, design, signals, edge
<1>4. TypedInOrder'
  <2>1. OnTheWay' = OnTheWay /\ UNCHANGED <<rxq, input, got, typed>>
    BY DEF Show, OnTheWay, design, edge
  <2>2. QED
    BY <2>1, LineKept DEF IInv
<1>5. PrintedOnce'
  <2>1. Unprinted' = Unprinted /\ UNCHANGED <<sent, pc>>
    BY DEF Show, Unprinted, Printed, design, edge
  <2>2. ASSUME pc # "exited" PROVE Tail(output) \o Unprinted = Numbers(shown + 1, sent)
    <3>1. output \o Unprinted = Numbers(shown, sent) /\ Unprinted \in Chars
      BY <2>2, CharsTyped DEF IInv, Inv, PrintedOnce, Unprinted
    <3>2. Tail(output \o Unprinted) = Tail(output) \o Unprinted
      BY <1>1, <3>1, ConcatTail
    <3>3. shown < sent
      BY <1>1, CharsTyped DEF IInv, Inv, EdgeKept
    <3>4. Tail(Numbers(shown, sent)) = Numbers(shown + 1, sent)
      BY <3>3, CharsTyped, NumbersParts DEF IInv, Inv
    <3>5. QED
      BY <3>1, <3>2, <3>4
  <2>3. QED
    BY <1>1, <2>1, <2>2 DEF PrintedOnce, Unprinted
<1>6. QED
  BY <1>2, <1>3, <1>4, <1>5 DEF IInv, Inv

\* The handler, between any two steps.
LEMMA HandlerStep ==
    ASSUME IInv, sighand
    PROVE  IInv'
<1> USE UartAssumption
<1>1. TypeOK'
  <2>1. presses' \in 0..MaxPresses
    BY DEF IInv, Inv, TypeOK, sighand
  <2>3. pc' \in {"idle", "input", "clear", "output", "end", "exited"}
    BY DEF IInv, Inv, TypeOK, sighand
  <2>4. specialchar' \in BOOLEAN /\ owed' \in BOOLEAN
    <3>1. CASE UNCHANGED <<specialchar, owed>>
      BY <3>1 DEF IInv, Inv, TypeOK
    <3>2. CASE specialchar' = TRUE /\ owed' = TRUE
      BY <3>2
    <3>3. QED
      BY <3>1, <3>2 DEF sighand
  <2>2. UNCHANGED <<config, design, terminal, edge>>
    BY DEF sighand
  <2>5. QED
    BY <2>1, <2>2, <2>3, <2>4 DEF IInv, Inv, TypeOK, config, design, terminal, edge
<1>2. EdgeKept' /\ InterruptKept'
  BY DEF IInv, Inv, EdgeKept, InterruptKept, sighand, config, design, terminal, edge
<1>3. TypedInOrder'
  <2>1. UNCHANGED <<rxq, input, got, typed>>
    BY DEF sighand, design, terminal
  <2>2. OnTheWay' = OnTheWay
    BY DEF IInv, Inv, EdgeKept, sighand, OnTheWay, edge
  <2>3. QED
    BY <2>1, <2>2, LineKept DEF IInv
<1>4. PrintedOnce'
  BY DEF IInv, PrintedOnce, Printed, sighand, design, terminal, edge
<1>5. QED
  BY <1>1, <1>2, <1>3, <1>4 DEF IInv, Inv

\* The design takes the first of its queue.
LEMMA TakeCharStep ==
    ASSUME IInv, TakeChar
    PROVE  IInv'
<1> USE UartAssumption
<1> DEFINE line == rxq \o OnTheWay \o input
<1>1. /\ rxq # <<>> /\ rxq \in Chars /\ rxq' = Tail(rxq) /\ Len(rxq) \in Nat
      /\ Tail(rxq) \in Chars /\ Len(Tail(rxq)) = Len(rxq) - 1
      /\ got' = IF Head(rxq) = CtrlC THEN got ELSE got + 1
      /\ UNCHANGED <<input, typed>> /\ OnTheWay' = OnTheWay
  BY CharsTyped DEF TakeChar, OnTheWay, terminal, edge, IInv, Inv, Chars
<1>2. line \in Chars /\ line # <<>> /\ Head(line) = Head(rxq) /\ Tail(line) = Tail(rxq) \o OnTheWay \o input
  <2>1. /\ rxq \o OnTheWay # <<>> /\ Head(rxq \o OnTheWay) = Head(rxq)
        /\ Tail(rxq \o OnTheWay) = Tail(rxq) \o OnTheWay
    BY <1>1, CharsTyped, ConcatTail DEF IInv, Inv
  <2>2. /\ line # <<>> /\ Head(line) = Head(rxq \o OnTheWay)
        /\ Tail(line) = Tail(rxq \o OnTheWay) \o input
    BY <2>1, CharsTyped, ConcatTail DEF IInv, Inv
  <2>3. line \in Chars
    BY CharsTyped, ConcatParts DEF IInv, Inv
  <2>4. QED
    BY <2>1, <2>2, <2>3
<1>3. InOrder(line, got, typed)
  BY DEF IInv, TypedInOrder
<1> HIDE DEF line
<1>4. /\ Head(rxq) # CtrlC => got + 1 <= typed
      /\ InOrder(Tail(line), got', typed)
  BY <1>1, <1>2, <1>3, CharsTyped, TailInOrder DEF IInv, Inv
<1>5. TypeOK'
  BY <1>1, <1>4 DEF IInv, Inv, TypeOK, TakeChar, config, terminal, signals, edge, Chars
<1>6. EdgeKept' /\ InterruptKept'
  BY <1>1 DEF IInv, Inv, EdgeKept, InterruptKept, TakeChar, TypeOK, config, terminal, signals, edge
<1>7. TypedInOrder'
  BY <1>1, <1>2, <1>4 DEF TypedInOrder
<1>8. PrintedOnce'
  <2>1. Unprinted' = Unprinted /\ UNCHANGED <<output, shown, sent, pc>>
    BY DEF TakeChar, Unprinted, Printed, terminal, edge
  <2>2. QED
    BY <2>1, OutputKept DEF IInv
<1>9. QED
  BY <1>5, <1>6, <1>7, <1>8 DEF IInv, Inv

\* The design sends the next character.
LEMMA SendCharStep ==
    ASSUME IInv, SendChar
    PROVE  IInv'
<1> USE UartAssumption
<1>1. /\ txq \in Chars /\ sent' = sent + 1 /\ txq' = Append(txq, sent + 1) /\ Len(txq) \in Nat
      /\ Append(txq, sent + 1) \in Chars /\ Len(Append(txq, sent + 1)) = Len(txq) + 1
      /\ pc = "idle" /\ out_ready
  BY CharsTyped, SMTT(30) DEF SendChar, IInv, Inv, Chars
<1>2. TypeOK'
  BY <1>1 DEF IInv, Inv, TypeOK, SendChar, config, terminal, signals, edge, Chars
<1>3. EdgeKept' /\ InterruptKept'
  BY <1>1, CharsTyped, SMTT(30) DEF IInv, Inv, EdgeKept, InterruptKept, SendChar, config, terminal, signals, edge, Chars
<1>4. TypedInOrder'
  <2>1. OnTheWay' = OnTheWay /\ UNCHANGED <<rxq, input, got, typed>>
    BY DEF SendChar, OnTheWay, terminal, edge
  <2>2. QED
    BY <2>1, LineKept DEF IInv
<1>5. PrintedOnce'
  <2>1. ~Printed /\ ~Printed' /\ UNCHANGED <<output, shown, pc>>
    BY <1>1 DEF SendChar, Printed, terminal, edge
  <2>2. output \o txq = Numbers(shown, sent)
    BY <1>1, <2>1 DEF IInv, PrintedOnce
  <2>3. output \o Append(txq, sent + 1) = Append(output \o txq, sent + 1)
    BY CharsTyped, ConcatAppend DEF IInv, Inv
  <2>4. Append(Numbers(shown, sent), sent + 1) = Numbers(shown, sent + 1)
    BY CharsTyped, NumbersParts DEF IInv, Inv
  <2>5. QED
    BY <1>1, <2>1, <2>2, <2>3, <2>4 DEF PrintedOnce
<1>6. QED
  BY <1>2, <1>3, <1>4, <1>5 DEF IInv, Inv

\* What EdgeKept says of the character on its way.
LEMMA CharOnTheWay ==
    ASSUME IInv
    PROVE  /\ inp # <<>> => Len(rxq) < Depth
           /\ pc = "idle" => in_reg = inp
           /\ pc = "input" => inp = <<>>
BY DEF IInv, Inv, EdgeKept

\* The register's character enters the queue, which has a place for it.
LEMMA EdgeStep ==
    ASSUME IInv, Edge
    PROVE  IInv'
<1> USE UartAssumption
<1>1. /\ pc = "idle" /\ pc' = "input" /\ inp' = <<>> /\ in_reg = inp
      /\ out_valid' = (txq # <<>>) /\ in_ready' = InReady
      /\ UNCHANGED <<config, txq, got, sent, terminal, signals, in_reg, out_ready>>
  BY CharOnTheWay DEF Edge
<1>2. /\ rxq \in Chars /\ inp \in Chars /\ Len(rxq) \in Nat /\ Len(inp) \in 0..1 /\ Len(rxq) <= Depth
  <2>1. rxq \in Chars /\ inp \in Chars
    BY CharsTyped DEF IInv, Inv
  <2>2. Len(rxq) \in Nat /\ Len(inp) \in Nat
    BY <2>1 DEF Chars
  <2>3. Len(inp) <= 1 /\ Len(rxq) <= Depth
    BY DEF IInv, Inv, TypeOK
  <2>4. Len(inp) \in 0..1
    <3> DEFINE m == Len(inp)
    <3>1. m \in Nat /\ m <= 1
      BY <2>2, <2>3
    <3> HIDE DEF m
    <3>2. m \in 0..1
      BY <3>1
    <3>3. QED
      BY <3>2 DEF m
  <2>5. QED
    BY <2>1, <2>2, <2>3, <2>4
<1>3. rxq' = rxq \o inp /\ rxq' \in Chars /\ Len(rxq') = Len(rxq) + Len(inp)
  <2>1. CASE Len(rxq) < Depth
    BY <1>1, <1>2, <2>1, ConcatParts DEF Edge
  <2>2. CASE ~(Len(rxq) < Depth)
    <3>1. inp = <<>> /\ rxq' = rxq
      BY <2>2, CharOnTheWay DEF Edge
    <3>2. QED
      BY <1>2, <3>1, EmptyConcat, ConcatParts
  <2>3. QED
    BY <2>1, <2>2
<1>4. Len(rxq') <= Depth
  <2>1. inp # <<>> => Len(rxq) < Depth
    BY CharOnTheWay
  <2>2. inp = <<>> => Len(inp) = 0
    OBVIOUS
  <2>3. QED
    BY <1>2, <1>3, <2>1, <2>2
<1>5. TypeOK'
  <2>1. rxq' \in Seq(Nat) /\ inp' \in Seq(Nat) /\ Len(inp') <= 1
    BY <1>1, <1>3 DEF Chars
  <2>2. in_ready' \in BOOLEAN /\ out_valid' \in BOOLEAN
    BY <1>1 DEF InReady
  <2>3. {specialchar', owed', out_ready', out_valid', in_ready'} \subseteq BOOLEAN
    BY <1>1, <2>2 DEF IInv, Inv, TypeOK, signals
  <2>4. QED
    BY <1>1, <1>4, <2>1, <2>3 DEF IInv, Inv, TypeOK, config, terminal, signals
<1>6. EdgeKept' /\ InterruptKept'
  <2>1. in_ready' => Len(rxq') < Depth
    <3> DEFINE n == Len(rxq)
               m == Len(inp)
    <3>0. InReady <=> n < Depth - 1
      BY DEF InReady
    <3>4. n \in Nat /\ m \in 0..1 /\ Len(rxq') = n + m
      BY <1>2, <1>3
    <3> HIDE DEF n, m
    <3>1. InReady => Len(rxq') < Depth
      BY <3>0, <3>4
    <3>2. in_ready' => InReady
      BY <1>1
    <3>3. QED
      BY <3>1, <3>2
  <2>2. owed' => specialchar'
    BY <1>1 DEF IInv, Inv, EdgeKept, signals
  <2>3. shown' + Len(output') <= sent' /\ (txq' # <<>> => out_ready') /\ (out_valid' => txq' # <<>>)
    BY <1>1 DEF IInv, Inv, EdgeKept, terminal
  <2>4. QED
    BY <1>1, <2>1, <2>2, <2>3 DEF EdgeKept, InterruptKept
<1>7. TypedInOrder'
  <2>1. OnTheWay = inp /\ OnTheWay' = <<>>
    BY <1>1 DEF OnTheWay
  <2>2. (rxq \o OnTheWay)' = rxq \o OnTheWay
    BY <1>3, <2>1, EmptyConcat
  <2>3. UNCHANGED <<input, got, typed>>
    BY <1>1 DEF terminal
  <2>4. QED
    BY <2>2, <2>3 DEF IInv, TypedInOrder
<1>8. PrintedOnce'
  <2>1. Unprinted' = Unprinted /\ UNCHANGED <<output, shown, sent>>
    BY <1>1 DEF Unprinted, Printed, terminal
  <2>2. QED
    BY <1>1, <2>1, OutputKept DEF IInv
<1>9. QED
  BY <1>5, <1>6, <1>7, <1>8 DEF IInv, Inv

\* A special character goes in before the characters still typed; a character read
\* is the first of them.
LEMMA InputStep ==
    ASSUME IInv, Input
    PROVE  IInv'
<1> USE UartAssumption
<1>1. /\ pc = "input" /\ pc' \in {"clear", "output"} /\ inp = <<>>
      /\ UNCHANGED <<config, design, typed, output, shown, signals, in_reg, out_ready, out_valid, in_ready>>
  BY CharOnTheWay DEF Input
<1>2. /\ rxq \in Chars /\ input \in Chars /\ OnTheWay = inp /\ OnTheWay' = inp'
      /\ rxq \o OnTheWay = rxq /\ UNCHANGED <<rxq, got, typed, txq, sent>>
  BY <1>1, CharsTyped, EmptyConcat DEF OnTheWay, IInv, Inv, design
<1>3. InOrder(rxq \o input, got, typed)
  BY <1>2 DEF IInv, TypedInOrder
<1>4. /\ inp' \in Seq(Nat) /\ Len(inp') <= 1 /\ input' \in Chars
      /\ inp' # <<>> => in_ready
      /\ pc' = "clear" => inp' = <<CtrlC>>
      /\ owed /\ pc' = "output" => specialchar
      /\ InOrder(rxq \o inp' \o input', got, typed)
  <2>0. owed => specialchar
    BY <1>1 DEF IInv, Inv, InterruptKept
  <2>1. CASE ~in_ready \/ (~specialchar /\ input = <<>>)
    <3>1. inp' = <<>> /\ input' = input /\ pc' = "output"
      BY <1>1, <2>1 DEF Input, Oldest, Rest
    <3>2. QED
      BY <1>2, <1>3, <2>0, <3>1
  <2>2. CASE in_ready /\ specialchar
    <3>1. inp' = <<CtrlC>> /\ input' = input /\ pc' = "clear"
      BY <2>2 DEF Input
    <3>2. InOrder(Append(rxq, CtrlC) \o input, got, typed)
      BY <1>2, <1>3, CharsTyped, CtrlCInOrder DEF IInv, Inv
    <3>3. rxq \o <<CtrlC>> = Append(rxq, CtrlC)
      BY <1>2, AppendOne DEF CtrlC
    <3>4. CtrlC \in Nat
      BY DEF CtrlC
    <3>5. inp' \in Seq(Nat) /\ Len(inp') = 1
      BY <3>1, <3>4
    <3>6. InOrder(rxq \o inp' \o input', got, typed)
      BY <3>1, <3>2, <3>3
    <3>7. QED
      BY <1>2, <2>0, <2>2, <3>1, <3>5, <3>6
  <2>3. CASE in_ready /\ ~specialchar /\ input # <<>>
    <3>1. inp' = <<Head(input)>> /\ input' = Tail(input) /\ pc' = "output"
      BY <2>3 DEF Input, Oldest, Rest
    <3>2. Head(input) \in Nat /\ Tail(input) \in Chars
      BY <1>2, <2>3 DEF Chars
    <3>3. rxq \o <<Head(input)>> = Append(rxq, Head(input))
      BY <1>2, <3>2, AppendOne
    <3>4. Append(rxq, Head(input)) \o Tail(input) = rxq \o input
      BY <1>2, <2>3, ConcatMove
    <3>5. inp' \in Seq(Nat) /\ Len(inp') = 1
      BY <3>1, <3>2
    <3>6. InOrder(rxq \o inp' \o input', got, typed)
      BY <1>3, <3>1, <3>3, <3>4
    <3>7. QED
      BY <2>0, <2>3, <3>1, <3>2, <3>5, <3>6
  <2>4. QED
    BY <2>1, <2>2, <2>3 DEF IInv, Inv, TypeOK
<1>5. TypeOK'
  BY <1>1, <1>4 DEF IInv, Inv, TypeOK, config, design, signals, Chars
<1>6. EdgeKept' /\ InterruptKept'
  <2>1. inp' # <<>> => Len(rxq') < Depth
    BY <1>1, <1>2, <1>4 DEF IInv, Inv, EdgeKept
  <2>2. QED
    BY <1>1, <1>2, <1>4, <2>1 DEF IInv, Inv, EdgeKept, InterruptKept, signals
<1>7. TypedInOrder'
  BY <1>2, <1>4 DEF TypedInOrder
<1>8. PrintedOnce'
  <2>1. Unprinted' = Unprinted /\ UNCHANGED <<output, shown, sent>>
    BY <1>1, <1>2 DEF Unprinted, Printed
  <2>2. QED
    BY <1>1, <2>1, OutputKept DEF IInv
<1>9. QED
  BY <1>5, <1>6, <1>7, <1>8 DEF IInv, Inv

\* The flag is cleared after the ctrl-C was taken.
LEMMA ClearStep ==
    ASSUME IInv, Clear
    PROVE  IInv'
<1> USE UartAssumption
<1>1. /\ pc = "clear" /\ pc' = "output" /\ specialchar' = FALSE
      /\ UNCHANGED <<config, design, terminal, presses, owed, edge>>
  BY DEF Clear
<1>2. TypeOK'
  BY <1>1 DEF IInv, Inv, TypeOK, config, design, terminal, edge
<1>3. EdgeKept' /\ InterruptKept'
  BY <1>1 DEF IInv, Inv, EdgeKept, InterruptKept, design, terminal, edge
<1>4. TypedInOrder'
  <2>1. OnTheWay' = OnTheWay /\ UNCHANGED <<rxq, input, got, typed>>
    BY <1>1 DEF OnTheWay, design, terminal, edge
  <2>2. QED
    BY <2>1, LineKept DEF IInv
<1>5. PrintedOnce'
  <2>1. Unprinted' = Unprinted /\ UNCHANGED <<output, shown, sent>>
    BY <1>1 DEF Unprinted, Printed, design, terminal, edge
  <2>2. QED
    BY <1>1, <2>1, OutputKept DEF IInv
<1>6. QED
  BY <1>2, <1>3, <1>4, <1>5 DEF IInv, Inv

\* A character that was announced is written, or the simulator ends.
LEMMA OutputStep ==
    ASSUME IInv, Output
    PROVE  IInv'
<1> USE UartAssumption
<1>1. /\ pc = "output" /\ pc' \in {"end", "exited"}
      /\ UNCHANGED <<config, design, input, typed, shown, signals, edge>>
  BY DEF Output
<1>2. /\ output \in Chars /\ txq \in Chars /\ Len(output) \in Nat /\ Len(txq) \in Nat
  BY CharsTyped DEF IInv, Inv, Chars
<1>3. output \o txq = Numbers(shown, sent)
  BY <1>1 DEF IInv, PrintedOnce, Printed
<1>4. CASE UNCHANGED output /\ (pc' = "exited" \/ ~out_valid)
  <2>1. TypeOK'
    BY <1>1, <1>4 DEF IInv, Inv, TypeOK, config, design, signals, edge
  <2>2. EdgeKept' /\ InterruptKept'
    BY <1>1, <1>4 DEF IInv, Inv, EdgeKept, InterruptKept, design, signals, edge
  <2>3. PrintedOnce'
    BY <1>1, <1>3, <1>4 DEF PrintedOnce, Printed, design, edge
  <2>4. QED
    <3>1. OnTheWay' = OnTheWay /\ UNCHANGED <<rxq, input, got, typed>>
      BY <1>1 DEF OnTheWay, design, edge
    <3>2. QED
      BY <2>1, <2>2, <2>3, <3>1, LineKept DEF IInv, Inv
<1>5. CASE out_valid /\ pc' = "end" /\ output' = Append(output, Head(txq))
  <2>1. txq # <<>>
    BY <1>1, <1>5 DEF IInv, Inv, EdgeKept
  <2>2. Head(txq) \in Nat /\ Tail(txq) \in Chars /\ Len(txq) >= 1
    BY <1>2, <2>1 DEF Chars
  <2>3. output' \in Chars /\ Len(output') = Len(output) + 1
    BY <1>2, <1>5, <2>2 DEF Chars
  <2>4. TypeOK'
    BY <1>1, <1>5, <2>3 DEF IInv, Inv, TypeOK, config, design, signals, edge, Chars
  <2>5. Len(output) + Len(txq) = sent - shown
    <3>1. Len(output \o txq) = Len(output) + Len(txq)
      BY <1>2, ConcatParts
    <3>2. QED
      BY <1>3, <3>1, CharsTyped, NumbersParts DEF IInv, Inv
  <2>6. shown + Len(output') <= sent
    BY <1>2, <2>2, <2>3, <2>5, CharsTyped DEF IInv, Inv
  <2>7. EdgeKept' /\ InterruptKept'
    BY <1>1, <1>5, <2>6 DEF IInv, Inv, EdgeKept, InterruptKept, design, signals, edge
  <2>8. Append(output, Head(txq)) \o Tail(txq) = output \o txq
    BY <1>2, <2>1, ConcatMove
  <2>9. PrintedOnce'
    BY <1>1, <1>3, <1>5, <2>1, <2>8 DEF PrintedOnce, Printed, Rest, design, edge
  <2>10. QED
    <3>1. OnTheWay' = OnTheWay /\ UNCHANGED <<rxq, input, got, typed>>
      BY <1>1, <1>5 DEF OnTheWay, design, edge
    <3>2. QED
      BY <2>4, <2>7, <2>9, <3>1, LineKept DEF IInv, Inv
<1>6. QED
  BY <1>4, <1>5 DEF Output

\* The character that was printed leaves the design's queue.
LEMMA EndStep ==
    ASSUME IInv, End
    PROVE  IInv'
<1> USE UartAssumption
<1>1. /\ pc = "end" /\ pc' = "idle" /\ in_reg' = inp /\ out_ready' = TRUE
      /\ owed' = (owed /\ inp # <<CtrlC>>)
      /\ UNCHANGED <<config, rxq, got, sent, terminal, specialchar, presses, inp, out_valid, in_ready>>
  BY DEF End
<1>2. out_valid => txq # <<>> /\ out_ready
  BY <1>1 DEF IInv, Inv, EdgeKept
<1>3. txq' = Unprinted
  BY <1>1, <1>2 DEF End, Unprinted, Printed, Rest
<1>4. txq \in Chars /\ txq' \in Chars /\ Len(txq') <= Len(txq) /\ Len(txq) \in Nat /\ Len(txq') \in Nat
  <2>1. txq \in Chars /\ txq' \in Chars
    BY <1>3, CharsTyped DEF IInv, Inv
  <2>2. Len(txq) \in Nat /\ Len(txq') \in Nat
    BY <2>1 DEF Chars
  <2>3. txq # <<>> => Len(Tail(txq)) = Len(txq) - 1
    BY <2>1 DEF Chars
  <2>4. txq' = txq \/ (txq # <<>> /\ txq' = Tail(txq))
    BY <1>2 DEF End
  <2>5. QED
    BY <2>1, <2>2, <2>3, <2>4
<1>5. TypeOK'
  <2>1. owed' \in BOOLEAN
    BY <1>1 DEF IInv, Inv, TypeOK
  <2>2. {specialchar', owed', out_ready', out_valid', in_ready'} \subseteq BOOLEAN
    BY <1>1, <2>1 DEF IInv, Inv, TypeOK
  <2>3. txq' \in Seq(Nat) /\ Len(txq') <= Depth
    BY <1>4 DEF IInv, Inv, TypeOK, Chars
  <2>4. in_reg' \in Seq(Nat) /\ Len(in_reg') <= 1
    BY <1>1 DEF IInv, Inv, TypeOK
  <2>5. QED
    BY <1>1, <2>2, <2>3, <2>4 DEF IInv, Inv, TypeOK, config, terminal
<1>6. EdgeKept' /\ InterruptKept'
  <2>1. owed' => specialchar'
    BY <1>1 DEF IInv, Inv, InterruptKept
  <2>2. shown' + Len(output') <= sent' /\ (inp' # <<>> => Len(rxq') < Depth)
    BY <1>1 DEF IInv, Inv, EdgeKept, terminal
  <2>3. QED
    BY <1>1, <2>1, <2>2 DEF EdgeKept, InterruptKept
<1>7. TypedInOrder'
  <2>1. OnTheWay' = OnTheWay /\ UNCHANGED <<rxq, input, got, typed>>
    BY <1>1 DEF OnTheWay, terminal
  <2>2. QED
    BY <2>1, LineKept DEF IInv
<1>8. PrintedOnce'
  <2>1. Unprinted' = Unprinted /\ UNCHANGED <<output, shown, sent>>
    BY <1>1, <1>3 DEF Unprinted, Printed, terminal
  <2>2. QED
    BY <1>1, <2>1, OutputKept DEF IInv
<1>9. QED
  BY <1>5, <1>6, <1>7, <1>8 DEF IInv, Inv

LEMMA StutterStep ==
    ASSUME IInv, UNCHANGED vars
    PROVE  IInv'
BY DEF IInv, Inv, TypeOK, EdgeKept, InterruptKept, TypedInOrder, OnTheWay, PrintedOnce, Printed,
       vars, config, design, terminal, signals, edge

LEMMA InvariantHolds == Spec => []IInv
<1>1. IInv /\ [Next]_vars => IInv'
  BY TypeStep, ShowStep, HandlerStep, TakeCharStep, SendCharStep, EdgeStep, InputStep,
     ClearStep, OutputStep, EndStep, StutterStep DEF Next
<1>2. QED
  BY InitHolds, <1>1, PTL DEF Spec

\* The steps of a tick, and of the handler between them, leave what the later ones rely
\* on: the adapter keeps a place for the character read, a character announced is there
\* to be printed, and a ctrl-C pressed is flagged or on its way.
THEOREM ConsoleInvariant == Spec => []Inv
<1>1. IInv => Inv
  BY DEF IInv
<1>2. QED
  BY InvariantHolds, <1>1, PTL

\* Every character typed reaches the design once and in order, whatever ctrl-C are pressed
\* and however slowly the design takes them.
THEOREM TypedAlwaysInOrder == Spec => []TypedInOrder
<1>1. IInv => TypedInOrder
  BY DEF IInv
<1>2. QED
  BY InvariantHolds, <1>1, PTL

\* Every character the design sends is written once and in order while the simulator lives.
THEOREM PrintedAlwaysOnce == Spec => []PrintedOnce
<1>1. IInv => PrintedOnce
  BY DEF IInv
<1>2. QED
  BY InvariantHolds, <1>1, PTL
=============================================================================
