------------------------- MODULE VcdActivity_proofs -------------------------
(* What the extractor's tables say, in every reachable state: the bucket of a *)
(* signal, the bound of its activity, its path, its place in the tables, its *)
(* toggles and the totals of the buckets and regions.                        *)
EXTENDS VcdActivity, FiniteSetTheorems, SequenceTheorems, WellFoundedInduction, TLAPS

-----------------------------------------------------------------------------
(* What no hierarchy map can change about the buckets of the signals.       *)

LEMMA LessIsWellFounded == IsWellFoundedOn({p \in Nat \X Nat : p[1] < p[2]}, Nat)
BY NatLessThanWellFounded, Zenon DEF OpToRel

LEMMA MinIsLeast ==
    ASSUME NEW S \in SUBSET Nat, S # {}
    PROVE  /\ Min(S) \in S
           /\ \A i \in S : Min(S) <= i
<1> DEFINE Less == {p \in Nat \X Nat : p[1] < p[2]}
<1>1. PICK m \in S : \A i \in S : <<i, m>> \notin Less
  <2> HIDE DEF Less
  <2> QED  BY LessIsWellFounded, WFMin, Zenon DEF Less
<1>2. ASSUME NEW i \in S PROVE m <= i
  <2>1. i \in Nat /\ m \in Nat
    OBVIOUS
  <2>2. i < m => <<i, m>> \in Less
    BY <2>1
  <2> QED
    BY <1>1, <2>1, <2>2
<1> QED
  BY <1>2 DEF Min

LEMMA OccursTransitive ==
    ASSUME NEW x, NEW y, NEW z, <<x, y>> \in Occurs, <<y, z>> \in Occurs
    PROVE  <<x, z>> \in Occurs
<1> DEFINE p == <<x, y>>
           q == <<y, z>>
<1>1. p[1] = x /\ p[2] = y /\ q[1] = y /\ q[2] = z
  OBVIOUS
<1>2. p \in Occurs /\ q \in Occurs
  OBVIOUS
<1> HIDE DEF p, q
<1> QED
  BY <1>1, <1>2, OccursAssumption, Zenon

-----------------------------------------------------------------------------
\* The default dictionary by position.
LEMMA DefaultFacts ==
    /\ DOMAIN DefaultOrder = 1..7
    /\ DefaultOrder[1] = "pe_array"
    /\ \A i \in 1..7 : DefaultOrder[i] # "gemmini_other" /\ DefaultOrder[i] # "other"
    /\ \A i, j \in 1..7 : DefaultOrder[i] = DefaultOrder[j] => i = j
BY DEF DefaultOrder

LEMMA PeArrayTerms ==
    ASSUME NEW terms
    PROVE  "gemmini" \in Terms(terms, "pe_array")
BY DEF Terms, Defaults, DefaultTerms

LEMMA MapAddsHits ==
    ASSUME NEW terms, NEW path, NEW c, Hits(path, NoMap, c)
    PROVE  Hits(path, terms, c)
BY DEF Hits, Holds, Terms, NoMap

\* A path with a default keyword of pe_array in it is in pe_array, whatever the
\* map says: the dictionary of load_category_terms starts with pe_array, and
\* classify returns at the first hit.
THEOREM PeArrayComesFirst ==
    ASSUME NEW terms, NEW path, Hits(path, NoMap, "pe_array")
    PROVE  Classify(path, terms) = "pe_array"
<1> DEFINE early == {i \in DOMAIN DefaultOrder : Hits(path, terms, DefaultOrder[i])}
<1>1. 1 \in early
  BY MapAddsHits, DefaultFacts
<1>2. early \in SUBSET Nat /\ \A i \in early : i >= 1
  BY DefaultFacts
<1>3. Min(early) = 1
  <2> HIDE DEF early
  <2>1. Min(early) \in early /\ Min(early) <= 1
    BY <1>1, <1>2, MinIsLeast
  <2>2. Min(early) \in Nat /\ Min(early) >= 1
    BY <1>2, <2>1, Zenon
  <2> QED
    BY <2>1, <2>2
<1>4. early # {}
  BY <1>1
<1> QED
  BY <1>3, <1>4, DefaultFacts, Zenon DEF Classify

\* The map moves a path to an earlier default bucket or leaves it where it was.
THEOREM MapOnlyMovesForward ==
    ASSUME NEW terms, NEW path, NEW i \in DOMAIN DefaultOrder,
           Classify(path, NoMap) = DefaultOrder[i]
    PROVE  \E j \in 1..i : Classify(path, terms) = DefaultOrder[j]
<1> DEFINE plain == {k \in DOMAIN DefaultOrder : Hits(path, NoMap, DefaultOrder[k])}
           early == {k \in DOMAIN DefaultOrder : Hits(path, terms, DefaultOrder[k])}
           late  == {k \in DOMAIN terms.order : /\ terms.order[k] \in DOMAIN terms.modules \ Defaults
                                                /\ Hits(path, terms, terms.order[k])}
<1>1. i \in plain
  <2>1. {k \in DOMAIN NoMap.order : /\ NoMap.order[k] \in DOMAIN NoMap.modules \ Defaults
                                  /\ Hits(path, NoMap, NoMap.order[k])} = {}
    BY DEF NoMap
  <2>2. CASE plain = {}
    <3>1. Classify(path, NoMap) = "other"
      BY <2>1, <2>2, Zenon DEF Classify
    <3> QED
      BY <3>1, DefaultFacts
  <2>3. CASE plain # {}
    <3>1. Classify(path, NoMap) = DefaultOrder[Min(plain)]
      BY <2>3, Zenon DEF Classify
    <3>2. Min(plain) \in plain
      BY <2>3, DefaultFacts, MinIsLeast
    <3>3. Min(plain) \in 1..7
      BY <3>2, DefaultFacts, Zenon
    <3>4. Min(plain) = i
      BY <3>1, <3>3, DefaultFacts
    <3> QED
      BY <3>2, <3>4, Zenon
  <2> QED
    BY <2>2, <2>3
<1>2. i \in early
  BY <1>1, MapAddsHits
<1>3. Min(early) \in early /\ Min(early) <= i
  <2>1. early \in SUBSET Nat
    BY DefaultFacts
  <2> HIDE DEF early
  <2> QED
    BY <1>2, <2>1, MinIsLeast
<1>4. Min(early) \in 1..7
  BY <1>3, DefaultFacts, Zenon
<1>5. Min(early) \in 1..i
  BY <1>3, <1>4, DefaultFacts
<1>6. Classify(path, terms) = DefaultOrder[Min(early)]
  BY <1>2, Zenon DEF Classify
<1> QED
  BY <1>5, <1>6, Zenon

-----------------------------------------------------------------------------
\* The inspector puts nothing into gemmini_other that lacks "gemmini" in its name.
LEMMA GemminiOtherHasGemmini ==
    ASSUME NEW m, CategoryFor(m) = "gemmini_other"
    PROVE  <<"gemmini", m>> \in Occurs
<1> DEFINE matching == {i \in DOMAIN InspectorOrder : Holds(m, InspectorRules[InspectorOrder[i]])}
<1>1. DOMAIN InspectorOrder = 1..6 /\ \A i \in 1..6 : InspectorOrder[i] # "gemmini_other"
  BY DEF InspectorOrder
<1>2. CASE matching # {}
  <2>1. Min(matching) \in matching
    BY <1>1, <1>2, MinIsLeast
  <2>2. Min(matching) \in 1..6
    BY <1>1, <2>1, Zenon
  <2>3. CategoryFor(m) = InspectorOrder[Min(matching)]
    BY <1>2, Zenon DEF CategoryFor
  <2> QED
    BY <1>1, <2>2, <2>3
<1>3. CASE matching = {} /\ Holds(m, {"gemmini"})
  BY <1>3, Zenon DEF Holds
<1>4. CASE matching = {} /\ ~Holds(m, {"gemmini"})
  <2>1. CategoryFor(m) = "non_gemmini_context"
    BY <1>4, Zenon DEF CategoryFor
  <2> QED
    BY <2>1
<1> QED
  BY <1>2, <1>3, <1>4

\* With a map written by the inspector no signal is ever in gemmini_other: the
\* modules the map lists there have "gemmini" in their names, which is a default
\* keyword of pe_array, and pe_array is tried first.  The bucket's row, its stripe
\* of the floorplan and its power are those of no signal at all.
THEOREM GemminiOtherIsNeverHit ==
    ASSUME NEW modules, NEW path
    PROVE  Classify(path, WriteMap(modules)) # "gemmini_other"
<1> DEFINE terms == WriteMap(modules)
           early == {k \in DOMAIN DefaultOrder : Hits(path, terms, DefaultOrder[k])}
           late == {k \in DOMAIN terms.order : /\ terms.order[k] \in DOMAIN terms.modules \ Defaults
                                               /\ Hits(path, terms, terms.order[k])}
<1> HIDE DEF terms
<1>1. CASE early # {}
  <2>1. Min(early) \in early
    BY <1>1, DefaultFacts, MinIsLeast
  <2>2. Min(early) \in 1..7
    BY <2>1, DefaultFacts, Zenon
  <2>3. Classify(path, terms) = DefaultOrder[Min(early)]
    BY <1>1, Zenon DEF Classify
  <2> QED
    BY <2>2, <2>3, DefaultFacts DEF terms
<1>2. CASE early = {} /\ late # {}
  <2>1. ~Hits(path, terms, "pe_array")
    BY <1>2, DefaultFacts
  <2>2. ~Hits(path, terms, "gemmini_other")
    <3>1. SUFFICES ASSUME NEW i \in DOMAIN path,
                          NEW m \in Terms(terms, "gemmini_other"), <<m, path[i]>> \in Occurs
                   PROVE  FALSE
      BY Zenon DEF Hits, Holds
    <3>2. CategoryFor(m) = "gemmini_other"
      BY <3>1 DEF terms, WriteMap, Terms, Defaults, DefaultTerms
    <3>3. <<"gemmini", path[i]>> \in Occurs
      BY <3>1, <3>2, GemminiOtherHasGemmini, OccursTransitive
    <3> QED
      BY <2>1, <3>3, PeArrayTerms, Zenon DEF Hits, Holds
  <2>3. Min(late) \in late
    <3>1. late \in SUBSET Nat
      BY DEF terms, WriteMap, Alphabetical
    <3> QED
      BY <1>2, <3>1, MinIsLeast
  <2>4. Classify(path, terms) = terms.order[Min(late)]
    BY <1>2, Zenon DEF Classify
  <2> QED
    BY <2>2, <2>3, <2>4, Zenon DEF terms
<1>3. CASE early = {} /\ late = {}
  <2>1. Classify(path, terms) = "other"
    BY <1>3, Zenon DEF Classify
  <2> QED
    BY <2>1 DEF terms
<1> QED
  BY <1>1, <1>2, <1>3

-----------------------------------------------------------------------------
(* The extractor.                                                           *)

\* Whatever maps, names and signals there are: giving the extractor a hierarchy
\* map never moves a signal to a later default bucket than it has without one.
THEOREM MapsMoveSignalsForward == Spec => []MapMovesForward
<1>1. MapMovesForward
  <2>1. SUFFICES ASSUME NEW c \in DOMAIN signals, NEW i \in DOMAIN DefaultOrder,
                        Classify(signals[c].path, NoMap) = DefaultOrder[i]
                 PROVE  \E j \in 1..i : BucketOf(c) = DefaultOrder[j]
    BY Zenon DEF MapMovesForward
  <2> QED
    BY <2>1, MapOnlyMovesForward, Zenon DEF BucketOf
<1> QED
  BY <1>1, PTL

(***************************************************************************)
(* ActivityBounded is not inductive: the bound grows with the time stamps,   *)
(* the toggles with the changes between two of them.                         *)
(***************************************************************************)

\* A signal has no value yet, has changed in this time step, or has still a
\* whole step to spare.
Paced(c) ==
    /\ Len(signals[c].last) <= WidthOf[c]
    /\ \/ signals[c].last = <<>> /\ signals[c].toggles = 0
       \/ c \in ThisStep /\ signals[c].toggles <= WidthOf[c] * (timeSteps - 1)
       \/ timeSteps > 1 /\ signals[c].toggles <= WidthOf[c] * (timeSteps - 2)

TogglesPaced ==
    /\ body # <<>> => timeSteps > 0
    /\ ~cut => \A c \in DOMAIN signals : Paced(c)

PacedInv == TypeOK /\ TogglesPaced

LEMMA LargestIsWidth ==
  ASSUME NEW a \in Nat, NEW b \in Nat, NEW w \in Nat, a <= w, b <= w
  PROVE  Max({a, b, w}) = w
<1>1. \E x \in {a, b, w} : \A y \in {a, b, w} : x >= y
  OBVIOUS
<1>2. /\ Max({a, b, w}) \in {a, b, w}
      /\ \A y \in {a, b, w} : Max({a, b, w}) >= y
  BY <1>1 DEF Max
<1> QED
  BY <1>2

LEMMA LargestIsNat ==
  ASSUME NEW a \in Nat, NEW b \in Nat, NEW w \in Nat
  PROVE  Max({a, b, w}) \in Nat
<1>1. \E x \in {a, b, w} : \A y \in {a, b, w} : x >= y
  OBVIOUS
<1> QED
  BY <1>1 DEF Max

\* No value differs from another in more bits than the signal is wide.
LEMMA DeltaBounded ==
  ASSUME NEW u \in Value, NEW v \in Value, NEW w \in Nat \ {0}
  PROVE  /\ ToggleDelta(u, v, w) \in Nat
         /\ Len(u) <= w /\ Len(v) <= w => ToggleDelta(u, v, w) <= w
<1> DEFINE n == Max({Len(u), Len(v), w})
           D == {i \in 1..n : Pad(u, n)[i] # Pad(v, n)[i]}
<1>1. Len(u) \in Nat /\ Len(v) \in Nat
  BY DEF Value
<1>2. n \in Nat
  BY <1>1, LargestIsNat
<1>3. IsFiniteSet(1..n) /\ Cardinality(1..n) = n
  <2> HIDE DEF n
  <2> QED
    BY <1>2, FS_Interval
<1>4. Cardinality(D) \in Nat /\ Cardinality(D) <= n
  <2>1. D \in SUBSET (1..n)
    OBVIOUS
  <2> HIDE DEF D, n
  <2>2. IsFiniteSet(D) /\ Cardinality(D) <= Cardinality(1..n)
    BY <2>1, <1>3, FS_Subset
  <2> QED
    BY <2>2, <1>3, FS_CardinalityType
<1>5. ToggleDelta(u, v, w) \in {0, 1, Cardinality(D)}
  BY Zenon DEF ToggleDelta
<1>6. Len(u) <= w /\ Len(v) <= w => n = w
  BY <1>1, LargestIsWidth
<1> HIDE DEF n, D
<1> QED
  BY <1>2, <1>4, <1>5, <1>6

LEMMA CountedTyped ==
  ASSUME VcdAssumption, NEW c \in Codes, NEW v \in Value, c \in DOMAIN signals,
         signals \in [DOMAIN signals -> Signal]
  PROVE  Counted(c, v) \in Signal
<1>1. WidthOf[c] \in Nat \ {0}
  BY DEF VcdAssumption
<1>2. signals[c] \in Signal
  OBVIOUS
<1>3. ToggleDelta(signals[c].last, v, WidthOf[c]) \in Nat
  BY <1>1, <1>2, DeltaBounded DEF Signal
<1> DEFINE delta == IF signals[c].last = <<>> THEN 0 ELSE ToggleDelta(signals[c].last, v, WidthOf[c])
<1>4. delta \in Nat
  BY <1>3
<1> DEFINE more == IF delta > 0 THEN 1 ELSE 0
           old == signals[c]
<1>5. Counted(c, v) = [old EXCEPT !.last = v, !.toggles = @ + delta, !.changes = @ + more]
  BY Zenon DEF Counted
<1>6. more \in Nat
  OBVIOUS
<1> HIDE DEF delta, more
<1>7. old = [path |-> old.path, last |-> old.last, toggles |-> old.toggles, changes |-> old.changes]
      /\ old.path \in Seq(ScopeNames \cup SignalNames)
      /\ old.toggles \in Nat /\ old.changes \in Nat
  BY <1>2 DEF Signal
<1> HIDE DEF old
<1>8. Counted(c, v) = [path |-> old.path, last |-> v, toggles |-> old.toggles + delta,
                       changes |-> old.changes + more]
  BY <1>5, <1>7
<1> QED
  BY <1>4, <1>6, <1>7, <1>8 DEF Signal

LEMMA StepTyped == VcdAssumption /\ TypeOK /\ [Next]_vars => TypeOK'
<1> SUFFICES ASSUME VcdAssumption, TypeOK, [Next]_vars PROVE TypeOK'
  OBVIOUS
<1> USE DEF TypeOK
<1>1. ASSUME NEW n \in ScopeNames, ReadScope(n) PROVE TypeOK'
  BY <1>1 DEF ReadScope, MoreHeader, tables
<1>2. CASE ReadUpscope
  <2>1. scopes' \in Seq(ScopeNames)
    BY <1>2 DEF ReadUpscope, Front
  <2> QED
    BY <1>2, <2>1 DEF ReadUpscope, MoreHeader, tables
<1>3. ASSUME NEW c \in Codes, NEW n \in SignalNames, ReadVar(c, n) PROVE TypeOK'
  <2>1. CASE c \in DOMAIN signals
    BY <1>3, <2>1 DEF ReadVar, MoreHeader, tables
  <2>2. CASE c \notin DOMAIN signals
    <3>1. Fresh(Append(scopes, n)) \in Signal
      <4>1. Append(scopes, n) \in Seq(ScopeNames \cup SignalNames)
        OBVIOUS
      <4>2. <<>> \in Value
        BY DEF Value
      <4> QED
        BY <4>1, <4>2 DEF Fresh, Signal
    <3>2. signals' = [d \in DOMAIN signals \cup {c} |->
                        IF d = c THEN Fresh(Append(scopes, n)) ELSE signals[d]]
      BY <1>3, <2>2 DEF ReadVar
    <3>3. order' \in Seq(Codes)
      <4>1. order' = Append(order, c)
        BY <1>3, <2>2 DEF ReadVar
      <4> QED
        BY <4>1
    <3>4. DOMAIN signals' \subseteq Codes /\ signals' \in [DOMAIN signals' -> Signal]
      BY <3>1, <3>2
    <3> QED
      BY <1>3, <3>3, <3>4 DEF ReadVar, MoreHeader, tables
  <2> QED
    BY <2>1, <2>2
<1>4. CASE EndDefinitions
  BY <1>4 DEF EndDefinitions, tables, lines
<1>5. CASE ReadTime
  BY <1>5 DEF ReadTime, MoreBody, tables, BodyLine
<1>6. ASSUME NEW c \in Codes, NEW v \in ValuesOf[c], ReadChange(c, v) PROVE TypeOK'
  <2>1. v \in Value /\ c \in DOMAIN signals
    BY <1>6 DEF VcdAssumption, ReadChange, Writable
  <2>2. Counted(c, v) \in Signal
    BY <2>1, CountedTyped
  <2>3. DOMAIN signals' \subseteq Codes /\ signals' \in [DOMAIN signals' -> Signal]
    BY <1>6, <2>1, <2>2 DEF ReadChange
  <2>4. <<"change", c, v>> \in BodyLine
    BY <2>1 DEF BodyLine
  <2> QED
    BY <1>6, <2>3, <2>4 DEF ReadChange, MoreBody, tables
<1>7. ASSUME NEW c \in Codes, NEW v \in ValuesOf[c], CutChange(c, v) PROVE TypeOK'
  <2>1. DOMAIN signals' \subseteq Codes /\ signals' \in [DOMAIN signals' -> Signal]
    <3>1. CASE UNCHANGED signals
      BY <3>1
    <3>2. ASSUME NEW d \in CutTo[c] \cap DOMAIN signals, signals' = [signals EXCEPT ![d] = Counted(d, v)]
          PROVE  DOMAIN signals' \subseteq Codes /\ signals' \in [DOMAIN signals' -> Signal]
      <4>1. v \in Value
        BY DEF VcdAssumption
      <4>2. Counted(d, v) \in Signal
        BY <4>1, CountedTyped
      <4> QED
        BY <3>2, <4>2
    <3> QED
      BY <1>7, <3>1, <3>2 DEF CutChange
  <2> QED
    BY <1>7, <2>1 DEF CutChange, MoreBody, tables
<1>8. CASE CutTime
  BY <1>8 DEF CutTime, MoreBody, tables
<1>9. CASE WriteOutputs
  BY <1>9 DEF WriteOutputs, reader, lines
<1>10. CASE UNCHANGED vars
  BY <1>10 DEF vars, reader, tables, lines
<1> QED
  BY <1>1, <1>2, <1>3, <1>4, <1>5, <1>6, <1>7, <1>8, <1>9, <1>10 DEF Next

LEMMA InitTyped == Init => TypeOK
<1> SUFFICES ASSUME Init PROVE TypeOK
  OBVIOUS
<1>1. DOMAIN signals = {} /\ signals = [c \in {} |-> signals[c]]
  BY DEF Init
<1>2. DOMAIN signals \subseteq Codes /\ signals \in [DOMAIN signals -> Signal]
  BY <1>1, Zenon
<1>3. scopes \in Seq(ScopeNames) /\ order \in Seq(Codes) /\ body \in Seq(BodyLine)
  BY DEF Init
<1>4. map \in Maps /\ inHeader = TRUE /\ cut = FALSE /\ written = FALSE /\ timeSteps = 0
  BY DEF Init
<1> QED
  BY <1>2, <1>3, <1>4 DEF TypeOK

\* Type correctness of the extractor, whatever file it is given and wherever it ends.
THEOREM ExtractorTypeCorrect == Spec => []TypeOK
<1>1. TypeOK /\ [Next]_vars => TypeOK'
  BY StepTyped, VcdAssumption
<1> QED
  BY <1>1, InitTyped, PTL DEF Spec

LEMMA ThisStepGrows ==
  ASSUME body \in Seq(BodyLine), NEW c \in Codes, NEW v,
         body' = Append(body, <<"change", c, v>>)
  PROVE  ThisStep \subseteq ThisStep' /\ c \in ThisStep'
<1>1. Len(body) \in Nat /\ Len(body') = Len(body) + 1
  OBVIOUS
<1>2. body'[Len(body) + 1] = <<"change", c, v>>
  OBVIOUS
<1>3. \A i \in 1..Len(body) : body'[i] = body[i]
  OBVIOUS
<1>4. DOMAIN body = 1..Len(body) /\ DOMAIN body' = 1..(Len(body) + 1)
  BY <1>1
<1>5. c \in ThisStep'
  <2>1. \A j \in (Len(body) + 1)..Len(body') : j = Len(body) + 1
    BY <1>1
  <2>2. body'[Len(body) + 1][1] = "change" /\ body'[Len(body) + 1][2] = c
    BY <1>2
  <2> QED
    BY <1>1, <1>4, <2>1, <2>2 DEF ThisStep
<1>6. ASSUME NEW d \in ThisStep PROVE d \in ThisStep'
  <2>1. PICK i \in DOMAIN body : /\ body[i][1] = "change" /\ body[i][2] = d
                                /\ \A j \in i..Len(body) : body[j][1] # "time"
    BY DEF ThisStep
  <2>2. i \in DOMAIN body' /\ body'[i][1] = "change" /\ body'[i][2] = d
    BY <1>1, <1>3, <1>4, <2>1
  <2>3. ASSUME NEW j \in i..Len(body') PROVE body'[j][1] # "time"
    <3>1. CASE j = Len(body) + 1
      BY <1>2, <3>1
    <3>2. CASE j # Len(body) + 1
      <4>1. j \in i..Len(body) /\ j \in 1..Len(body)
        BY <1>1, <1>4, <3>2
      <4> QED
        BY <1>3, <2>1, <4>1
    <3> QED
      BY <3>1, <3>2
  <2> QED
    BY <2>2, <2>3 DEF ThisStep
<1> QED
  BY <1>5, <1>6

LEMMA OneStepMore ==
  ASSUME NEW w \in Nat, NEW t \in Nat
  PROVE  /\ w * (t - 1) = w * (t - 2) + w
         /\ w * (t - 2) \in Int
         /\ t > 0 => w * (t - 1) \in Nat
<1>1. w * (t - 1) = w * (t - 2) + w
  BY SMT
<1>2. \A k \in Nat : w * k \in Nat
  BY SMT
<1>3. t > 0 => w * (t - 1) \in Nat
  BY <1>2
<1> QED
  BY <1>1, <1>3

\* A change of a signal that has not changed in this step.
LEMMA ChangePaced ==
  ASSUME VcdAssumption, TypeOK, TogglesPaced, ~cut,
         NEW c \in Codes, NEW v \in ValuesOf[c], ReadChange(c, v)
  PROVE  TogglesPaced'
<1>1. /\ WidthOf[c] \in Nat \ {0}
      /\ v \in Value /\ Len(v) \in 1..WidthOf[c]
  BY DEF VcdAssumption
<1>2. /\ c \in DOMAIN signals /\ c \notin ThisStep /\ body # <<>>
      /\ body \in Seq(BodyLine) /\ body' = Append(body, <<"change", c, v>>)
      /\ signals' = [signals EXCEPT ![c] = Counted(c, v)]
      /\ timeSteps' = timeSteps /\ timeSteps \in Nat
  BY DEF ReadChange, Writable, TypeOK
<1>3. timeSteps > 0
  BY <1>2 DEF TogglesPaced
<1>4. ThisStep \subseteq ThisStep' /\ c \in ThisStep'
  BY <1>2, ThisStepGrows
<1>5. Paced(c)'
  <2> DEFINE s == signals[c]
             delta == IF s.last = <<>> THEN 0 ELSE ToggleDelta(s.last, v, WidthOf[c])
  <2>1. s.last \in Value /\ s.toggles \in Nat /\ s \in Signal
    <3>1. s \in Signal
      BY <1>2 DEF TypeOK
    <3> QED
      BY <3>1 DEF Signal
  <2>2. /\ Len(s.last) <= WidthOf[c]
        /\ \/ s.last = <<>> /\ s.toggles = 0
           \/ timeSteps > 1 /\ s.toggles <= WidthOf[c] * (timeSteps - 2)
    BY <1>2 DEF TogglesPaced, Paced
  <2>3. Len(v) <= WidthOf[c]
    BY <1>1
  <2>4. delta \in Nat /\ delta <= WidthOf[c] /\ (s.last = <<>> => delta = 0)
    BY <1>1, <2>1, <2>2, <2>3, DeltaBounded
  <2>5. signals'[c].last = v /\ signals'[c].toggles = s.toggles + delta
    <3>1. signals'[c] = Counted(c, v)
      BY <1>2
    <3>2. Counted(c, v).last = v /\ Counted(c, v).toggles = s.toggles + delta
      BY <2>1 DEF Counted, Signal
    <3> QED
      BY <3>1, <3>2
  <2> HIDE DEF s, delta
  <2>6. s.toggles + delta <= WidthOf[c] * (timeSteps - 1)
    <3>1. CASE s.last = <<>> /\ s.toggles = 0
      <4>1. WidthOf[c] * (timeSteps - 1) \in Nat
        BY <1>1, <1>2, <1>3, OneStepMore
      <4> QED
        BY <2>4, <3>1, <4>1
    <3>2. CASE timeSteps > 1 /\ s.toggles <= WidthOf[c] * (timeSteps - 2)
      <4>1. /\ WidthOf[c] * (timeSteps - 1) = WidthOf[c] * (timeSteps - 2) + WidthOf[c]
            /\ WidthOf[c] * (timeSteps - 2) \in Int
        BY <1>1, <1>2, OneStepMore
      <4> QED
        BY <1>1, <1>2, <2>1, <2>4, <3>2, <4>1, SMTT(30)
    <3> QED
      BY <2>2, <3>1, <3>2
  <2> QED
    BY <1>2, <1>4, <2>3, <2>5, <2>6 DEF Paced
<1>6. ASSUME NEW d \in DOMAIN signals, d # c PROVE Paced(d)'
  <2>1. signals'[d] = signals[d]
    BY <1>2, <1>6
  <2>2. Paced(d)
    BY DEF TogglesPaced
  <2> QED
    BY <1>2, <1>4, <2>1, <2>2 DEF Paced
<1>7. DOMAIN signals' = DOMAIN signals
  BY <1>2
<1> QED
  BY <1>2, <1>3, <1>5, <1>6, <1>7 DEF TogglesPaced

\* A time stamp gives every signal a step to spare.
LEMMA TimePaced ==
  ASSUME VcdAssumption, TypeOK, TogglesPaced, ~cut, ReadTime
  PROVE  TogglesPaced'
<1>1. timeSteps \in Nat /\ timeSteps' = timeSteps + 1 /\ signals' = signals
  BY DEF TypeOK, ReadTime
<1>2. ASSUME NEW c \in DOMAIN signals PROVE Paced(c)'
  <2>1. WidthOf[c] \in Nat \ {0} /\ signals[c].toggles \in Nat
    <3>1. c \in Codes /\ signals[c] \in Signal
      BY DEF TypeOK
    <3> QED
      BY <3>1 DEF VcdAssumption, Signal
  <2>2. Paced(c)
    BY DEF TogglesPaced
  <2>3. CASE c \in ThisStep /\ signals[c].toggles <= WidthOf[c] * (timeSteps - 1)
    <3>1. body # <<>>
      BY <2>3 DEF ThisStep
    <3>2. timeSteps > 0
      BY <3>1 DEF TogglesPaced
    <3>3. timeSteps' > 1 /\ timeSteps' - 2 = timeSteps - 1
      BY <1>1, <3>2
    <3> QED
      BY <1>1, <2>2, <2>3, <3>3 DEF Paced
  <2>4. CASE timeSteps > 1 /\ signals[c].toggles <= WidthOf[c] * (timeSteps - 2)
    <3>1. /\ WidthOf[c] * (timeSteps - 1) = WidthOf[c] * (timeSteps - 2) + WidthOf[c]
          /\ WidthOf[c] * (timeSteps - 2) \in Int
      BY <1>1, <2>1, OneStepMore
    <3>2. timeSteps' > 1 /\ timeSteps' - 2 = timeSteps - 1
      BY <1>1, <2>4
    <3>3. signals[c].toggles <= WidthOf[c] * (timeSteps' - 2)
      BY <2>1, <2>4, <3>1, <3>2
    <3> QED
      BY <1>1, <2>2, <3>2, <3>3 DEF Paced
  <2>5. CASE signals[c].last = <<>> /\ signals[c].toggles = 0
    BY <1>1, <2>2, <2>5 DEF Paced
  <2> QED
    BY <2>2, <2>3, <2>4, <2>5 DEF Paced
<1> QED
  BY <1>1, <1>2 DEF TogglesPaced

LEMMA StepPaced == VcdAssumption /\ PacedInv /\ [Next]_vars => TogglesPaced'
<1> SUFFICES ASSUME VcdAssumption, TypeOK, TogglesPaced, [Next]_vars PROVE TogglesPaced'
  BY DEF PacedInv
<1>1. ASSUME UNCHANGED <<body, timeSteps, signals>>, cut' = cut PROVE TogglesPaced'
  BY <1>1 DEF TogglesPaced, Paced, ThisStep
<1>2. ASSUME NEW n \in ScopeNames, ReadScope(n) PROVE TogglesPaced'
  BY <1>1, <1>2 DEF ReadScope, MoreHeader
<1>3. CASE ReadUpscope
  BY <1>1, <1>3 DEF ReadUpscope, MoreHeader
<1>4. ASSUME NEW c \in Codes, NEW n \in SignalNames, ReadVar(c, n) PROVE TogglesPaced'
  <2>1. CASE c \in DOMAIN signals
    BY <1>1, <1>4, <2>1 DEF ReadVar, MoreHeader
  <2>2. CASE c \notin DOMAIN signals
    <3>1. /\ body' = body /\ timeSteps' = timeSteps /\ cut' = cut
          /\ signals' = [d \in DOMAIN signals \cup {c} |->
                           IF d = c THEN Fresh(Append(scopes, n)) ELSE signals[d]]
      BY <1>4, <2>2 DEF ReadVar, MoreHeader
    <3>2. ThisStep' = ThisStep
      BY <3>1 DEF ThisStep
    <3>3. Paced(c)'
      <4>1. signals'[c].last = <<>> /\ signals'[c].toggles = 0
        BY <3>1 DEF Fresh
      <4>2. Len(<<>>) <= WidthOf[c]
        BY DEF VcdAssumption
      <4> QED
        BY <4>1, <4>2 DEF Paced
    <3>4. ASSUME NEW d \in DOMAIN signals, ~cut PROVE Paced(d)'
      <4>1. signals'[d] = signals[d]
        BY <2>2, <3>1
      <4>2. Paced(d)
        BY <3>4 DEF TogglesPaced
      <4> QED
        BY <3>1, <3>2, <4>1, <4>2 DEF Paced
    <3> QED
      BY <3>1, <3>3, <3>4 DEF TogglesPaced
  <2> QED
    BY <2>1, <2>2
<1>5. CASE EndDefinitions
  BY <1>1, <1>5 DEF EndDefinitions, lines
<1>6. CASE ReadTime
  BY <1>6, TimePaced DEF ReadTime, MoreBody
<1>7. ASSUME NEW c \in Codes, NEW v \in ValuesOf[c], ReadChange(c, v) PROVE TogglesPaced'
  BY <1>7, ChangePaced DEF ReadChange, MoreBody
<1>8. ASSUME NEW c \in Codes, NEW v \in ValuesOf[c], CutChange(c, v) PROVE TogglesPaced'
  BY <1>8 DEF CutChange, TogglesPaced
<1>9. CASE CutTime
  BY <1>9 DEF CutTime, TogglesPaced, TypeOK
<1>10. CASE WriteOutputs
  BY <1>1, <1>10 DEF WriteOutputs, reader, lines
<1>11. CASE UNCHANGED vars
  BY <1>1, <1>11 DEF vars, reader, lines
<1> QED
  BY <1>2, <1>3, <1>4, <1>5, <1>6, <1>7, <1>8, <1>9, <1>10, <1>11 DEF Next

\* No normalized activity of a dump that is not cut exceeds 1, whatever its
\* signals, widths and length: the toggles value_toggle_delta counts against the
\* denominator of write_outputs.
THEOREM ActivityAlwaysBounded == Spec => []ActivityBounded
<1>1. Init => PacedInv
  <2>1. Init => TogglesPaced
    BY DEF Init, TogglesPaced
  <2>2. Init => TypeOK
    BY InitTyped
  <2> QED
    BY <2>1, <2>2 DEF PacedInv
<1>2. PacedInv /\ [Next]_vars => PacedInv'
  BY StepTyped, StepPaced, VcdAssumption DEF PacedInv
<1>3. PacedInv => ActivityBounded
  <2> SUFFICES ASSUME PacedInv, ~cut, NEW c \in DOMAIN signals
               PROVE  signals[c].toggles <= WidthOf[c] * (IF timeSteps = 0 THEN 0 ELSE timeSteps - 1)
    BY DEF ActivityBounded
  <2>1. WidthOf[c] \in Nat \ {0} /\ signals[c].toggles \in Nat /\ timeSteps \in Nat
    <3>1. c \in Codes /\ signals[c] \in Signal
      BY DEF PacedInv, TypeOK
    <3> QED
      BY <3>1, VcdAssumption DEF VcdAssumption, Signal, PacedInv, TypeOK
  <2>2. Paced(c)
    BY DEF PacedInv, TogglesPaced
  <2>3. c \in ThisStep => timeSteps > 0
    BY DEF ThisStep, PacedInv, TogglesPaced
  <2>4. CASE signals[c].last = <<>> /\ signals[c].toggles = 0
    <3>1. timeSteps > 0 => WidthOf[c] * (timeSteps - 1) \in Nat
      BY <2>1, OneStepMore
    <3> QED
      BY <2>1, <2>4, <3>1
  <2>5. CASE c \in ThisStep /\ signals[c].toggles <= WidthOf[c] * (timeSteps - 1)
    BY <2>1, <2>3, <2>5
  <2>6. CASE timeSteps > 1 /\ signals[c].toggles <= WidthOf[c] * (timeSteps - 2)
    <3>1. /\ WidthOf[c] * (timeSteps - 1) = WidthOf[c] * (timeSteps - 2) + WidthOf[c]
          /\ WidthOf[c] * (timeSteps - 2) \in Int
      BY <2>1, OneStepMore
    <3> QED
      BY <2>1, <2>6, <3>1
  <2> QED
    BY <2>2, <2>4, <2>5, <2>6 DEF Paced
<1> QED
  BY <1>1, <1>2, <1>3, PTL DEF Spec

-----------------------------------------------------------------------------
(* The elements of a set in order.                                          *)

IsOrder(less, S) ==
    /\ \A x, y \in S : x # y => <<x, y>> \in less \/ <<y, x>> \in less
    /\ \A x \in S : <<x, x>> \notin less
    /\ \A x, y, z \in S : <<x, y>> \in less /\ <<y, z>> \in less => <<x, z>> \in less

Place(S, less, x) == Cardinality({y \in S : <<y, x>> \in less})

LEMMA PlaceParts ==
    ASSUME NEW S, IsFiniteSet(S), NEW less, IsOrder(less, S)
    PROVE  /\ Cardinality(S) \in Nat
           /\ \A x \in S : Place(S, less, x) \in 0..(Cardinality(S) - 1)
           /\ \A x, y \in S : <<x, y>> \in less => Place(S, less, x) < Place(S, less, y)
<1> DEFINE n == Cardinality(S)
           before(x) == {y \in S : <<y, x>> \in less}
<1>1. n \in Nat
  BY FS_CardinalityType
<1>2. ASSUME NEW x \in S PROVE IsFiniteSet(before(x)) /\ Cardinality(before(x)) \in Nat
  <2>1. before(x) \in SUBSET S
    OBVIOUS
  <2> HIDE DEF before
  <2> QED
    BY <2>1, FS_Subset, FS_CardinalityType
<1>3. ASSUME NEW x \in S PROVE Cardinality(before(x)) \in 0..(n - 1)
  <2>1. before(x) \in SUBSET (S \ {x})
    BY DEF IsOrder
  <2>2. IsFiniteSet(S \ {x}) /\ Cardinality(S \ {x}) = n - 1
    BY FS_RemoveElement
  <2> HIDE DEF before, n
  <2>3. Cardinality(before(x)) <= n - 1
    BY <2>1, <2>2, FS_Subset
  <2> QED
    BY <1>1, <1>2, <2>3
<1>4. ASSUME NEW x \in S, NEW y \in S, <<x, y>> \in less
      PROVE  Cardinality(before(x)) < Cardinality(before(y))
  <2>1. before(x) \in SUBSET before(y) /\ x \in before(y) /\ x \notin before(x)
    BY <1>4 DEF IsOrder
  <2> HIDE DEF before
  <2>2. /\ Cardinality(before(x)) <= Cardinality(before(y))
        /\ Cardinality(before(y)) = Cardinality(before(x)) => before(y) = before(x)
    BY <1>2, <2>1, FS_Subset
  <2> QED
    BY <1>2, <2>1, <2>2
<1> QED
  BY <1>1, <1>3, <1>4 DEF Place

LEMMA PlaceTaken ==
    ASSUME NEW S, IsFiniteSet(S), NEW less, IsOrder(less, S)
    PROVE  /\ \A x, y \in S : Place(S, less, x) = Place(S, less, y) => x = y
           /\ \A k \in 1..Cardinality(S) : \E x \in S : Place(S, less, x) = k - 1
<1> DEFINE n == Cardinality(S)
           T == 0..(n - 1)
           f == [x \in S |-> Place(S, less, x)]
<1>1. /\ n \in Nat /\ \A x \in S : Place(S, less, x) \in T
      /\ \A x, y \in S : <<x, y>> \in less => Place(S, less, x) < Place(S, less, y)
  BY PlaceParts
<1>2. ASSUME NEW x \in S, NEW y \in S, Place(S, less, x) = Place(S, less, y) PROVE x = y
  <2>1. <<x, y>> \notin less /\ <<y, x>> \notin less
    BY <1>1, <1>2
  <2> QED
    BY <2>1 DEF IsOrder
<1>3. f \in Injection(S, T)
  BY <1>1, <1>2 DEF Injection, IsInjective
<1>4. IsFiniteSet(T) /\ Cardinality(T) = n
  <2> HIDE DEF n
  <2> QED
    BY <1>1, FS_Interval
<1>5. f \in Surjection(S, T)
  <2> HIDE DEF f, T
  <2> QED
    BY <1>3, <1>4, FS_Injection
<1>6. ASSUME NEW k \in 1..n PROVE \E x \in S : Place(S, less, x) = k - 1
  <2>1. k - 1 \in T
    BY <1>1
  <2>2. PICK x \in S : f[x] = k - 1
    BY <1>5, <2>1 DEF Surjection
  <2> QED
    BY <2>2
<1> QED
  BY <1>2, <1>6

\* Every element is there once, the lesser ones first.
LEMMA OrderedParts ==
    ASSUME NEW S, IsFiniteSet(S), NEW less, IsOrder(less, S)
    PROVE  /\ Cardinality(S) \in Nat
           /\ Ordered(S, less) \in [1..Cardinality(S) -> S]
           /\ \A i, j \in 1..Cardinality(S) : i < j => <<Ordered(S, less)[i], Ordered(S, less)[j]>> \in less
           /\ \A x \in S : \E k \in 1..Cardinality(S) : Ordered(S, less)[k] = x
<1> DEFINE n == Cardinality(S)
           o == Ordered(S, less)
<1>1. /\ n \in Nat /\ \A x \in S : Place(S, less, x) \in 0..(n - 1)
      /\ \A x, y \in S : <<x, y>> \in less => Place(S, less, x) < Place(S, less, y)
  BY PlaceParts
<1>2. /\ \A x, y \in S : Place(S, less, x) = Place(S, less, y) => x = y
      /\ \A k \in 1..n : \E x \in S : Place(S, less, x) = k - 1
  BY PlaceTaken
<1>3. o = [k \in 1..n |-> CHOOSE x \in S : Place(S, less, x) = k - 1]
  BY DEF Ordered, Place
<1> HIDE DEF o
<1>4. ASSUME NEW k \in 1..n PROVE o[k] \in S /\ Place(S, less, o[k]) = k - 1
  <2>1. o[k] = CHOOSE x \in S : Place(S, less, x) = k - 1
    BY <1>3
  <2> QED
    BY <1>2, <2>1
<1>5. o \in [1..n -> S]
  BY <1>3, <1>4
<1>6. ASSUME NEW i \in 1..n, NEW j \in 1..n, i < j PROVE <<o[i], o[j]>> \in less
  <2>1. Place(S, less, o[i]) < Place(S, less, o[j])
    BY <1>4, <1>6
  <2>2. o[i] # o[j] /\ <<o[j], o[i]>> \notin less
    BY <1>1, <1>4, <2>1
  <2> QED
    BY <1>4, <2>2 DEF IsOrder
<1>7. ASSUME NEW x \in S PROVE \E k \in 1..n : o[k] = x
  <2> DEFINE k == Place(S, less, x) + 1
  <2>1. k \in 1..n /\ k - 1 = Place(S, less, x)
    BY <1>1
  <2> HIDE DEF k
  <2>2. o[k] = x
    BY <1>2, <1>4, <2>1
  <2> QED
    BY <2>1, <2>2
<1> QED
  BY <1>1, <1>5, <1>6, <1>7 DEF o

\* p gives the m elements of S in order.
Lists(p, m, S, less) ==
    /\ p \in [1..m -> S]
    /\ \A i, j \in 1..m : i < j => <<p[i], p[j]>> \in less
    /\ \A x \in S : \E k \in 1..m : p[k] = x

\* Whatever lists the elements in order is Ordered.
LEMMA OrderedUnique ==
    ASSUME NEW S, NEW less, IsOrder(less, S), NEW m \in Nat, NEW p, Lists(p, m, S, less)
    PROVE  IsFiniteSet(S) /\ Cardinality(S) = m /\ Ordered(S, less) = p
<1> SUFFICES ASSUME p \in [1..m -> S],
                    \A i, j \in 1..m : i < j => <<p[i], p[j]>> \in less,
                    \A x \in S : \E k \in 1..m : p[k] = x
             PROVE  IsFiniteSet(S) /\ Cardinality(S) = m /\ Ordered(S, less) = p
  BY DEF Lists
<1>1. ASSUME NEW i \in 1..m, NEW j \in 1..m, p[i] = p[j] PROVE i = j
  <2>1. <<p[i], p[i]>> \notin less
    BY DEF IsOrder
  <2>2. ~(i < j) /\ ~(j < i)
    BY <1>1, <2>1
  <2> QED
    BY <2>2
<1>2. IsFiniteSet(1..m) /\ Cardinality(1..m) = m
  BY FS_Interval
<1>3. p \in Bijection(1..m, S)
  BY <1>1 DEF Bijection, Injection, Surjection, IsInjective
<1>4. IsFiniteSet(S) /\ Cardinality(S) = m
  <2>1. ExistsBijection(1..m, S)
    BY <1>3 DEF ExistsBijection
  <2> QED
    BY <1>2, <2>1, FS_Bijection
<1>5. ASSUME NEW k \in 1..m PROVE Place(S, less, p[k]) = k - 1
  <2> DEFINE T == {y \in S : <<y, p[k]>> \in less}
             q == [i \in 1..(k - 1) |-> p[i]]
  <2>1. ASSUME NEW i \in 1..(k - 1) PROVE q[i] \in T
    <3>1. i \in 1..m /\ i < k /\ q[i] = p[i]
      OBVIOUS
    <3> QED
      BY <3>1
  <2>2. ASSUME NEW y \in T PROVE \E i \in 1..(k - 1) : q[i] = y
    <3>1. PICK i \in 1..m : p[i] = y
      OBVIOUS
    <3>2. y \in S /\ <<y, p[k]>> \in less /\ p[k] \in S
      OBVIOUS
    <3>3. ~(k < i) /\ k # i
      BY <3>1, <3>2 DEF IsOrder
    <3>4. i \in 1..(k - 1)
      BY <3>3
    <3> QED
      BY <3>1, <3>4
  <2>3. q \in Bijection(1..(k - 1), T)
    <3>1. q \in [1..(k - 1) -> T]
      BY <2>1
    <3>2. \A i, j \in 1..(k - 1) : q[i] = q[j] => i = j
      BY <1>1
    <3> HIDE DEF q, T
    <3> QED
      BY <2>2, <3>1, <3>2 DEF Bijection, Injection, Surjection, IsInjective
  <2>4. IsFiniteSet(1..(k - 1)) /\ Cardinality(1..(k - 1)) = k - 1
    BY FS_Interval
  <2> HIDE DEF q, T
  <2>5. Cardinality(T) = k - 1
    <3>1. ExistsBijection(1..(k - 1), T)
      BY <2>3 DEF ExistsBijection
    <3> QED
      BY <2>4, <3>1, FS_Bijection
  <2> QED
    BY <2>5 DEF Place, T
<1>6. \A x, y \in S : Place(S, less, x) = Place(S, less, y) => x = y
  BY <1>4, PlaceTaken
<1> DEFINE e(k) == CHOOSE x \in S : Place(S, less, x) = k - 1
<1>7. Ordered(S, less) = [k \in 1..m |-> e(k)]
  BY <1>4 DEF Ordered, Place
<1>8. ASSUME NEW k \in 1..m PROVE e(k) = p[k]
  <2>1. p[k] \in S
    OBVIOUS
  <2> QED
    BY <1>5, <1>6, <2>1
<1> HIDE DEF e
<1> QED
  BY <1>4, <1>7, <1>8

Natural(I) == {p \in I \X I : p[1] < p[2]}

\* p gives the positions I in order.
Enumerates(p, m, I) ==
    /\ p \in [1..m -> I]
    /\ \A i, j \in 1..m : i < j => p[i] < p[j]
    /\ \A i \in I : \E k \in 1..m : p[k] = i

LEMMA NaturalIsOrder ==
    ASSUME NEW I \in SUBSET Nat
    PROVE  /\ IsOrder(Natural(I), I)
           /\ \A i, j \in I : <<i, j>> \in Natural(I) <=> i < j
<1>1. \A i, j \in I : <<i, j>> \in Natural(I) <=> i < j
  BY DEF Natural
<1> QED
  BY <1>1 DEF IsOrder

LEMMA PickedUnique ==
    ASSUME NEW s, NEW I \in SUBSET Nat, NEW m \in Nat, NEW p, Enumerates(p, m, I)
    PROVE  /\ IsFiniteSet(I) /\ Cardinality(I) = m
           /\ Picked(s, I) = [k \in 1..m |-> s[p[k]]]
<1>1. p \in [1..m -> I]
  BY DEF Enumerates
<1>2. \A i, j \in 1..m : i < j => <<p[i], p[j]>> \in Natural(I)
  BY NaturalIsOrder DEF Enumerates
<1>3. \A x \in I : \E k \in 1..m : p[k] = x
  BY DEF Enumerates
<1>4. IsFiniteSet(I) /\ Cardinality(I) = m /\ Ordered(I, Natural(I)) = p
  <2>1. IsOrder(Natural(I), I)
    BY NaturalIsOrder
  <2>2. Lists(p, m, I, Natural(I))
    BY <1>1, <1>2, <1>3 DEF Lists
  <2> QED
    BY <2>1, <2>2, OrderedUnique
<1> QED
  BY <1>1, <1>4 DEF Picked, Natural

LEMMA PositionsEnumerated ==
    ASSUME NEW n \in Nat, NEW I \in SUBSET (1..n)
    PROVE  Cardinality(I) \in Nat /\ \E p : Enumerates(p, Cardinality(I), I)
<1>1. IsFiniteSet(I)
  <2>1. IsFiniteSet(1..n)
    BY FS_Interval
  <2> QED
    BY <2>1, FS_Subset
<1>2. I \in SUBSET Nat
  OBVIOUS
<1> DEFINE p == Ordered(I, Natural(I))
           m == Cardinality(I)
<1>3. IsOrder(Natural(I), I)
  BY <1>2, NaturalIsOrder
<1>4. /\ m \in Nat /\ p \in [1..m -> I]
      /\ \A i, j \in 1..m : i < j => <<p[i], p[j]>> \in Natural(I)
      /\ \A x \in I : \E k \in 1..m : p[k] = x
  BY <1>1, <1>3, OrderedParts
<1> HIDE DEF p, m
<1>5. Enumerates(p, m, I)
  BY <1>2, <1>4, NaturalIsOrder DEF Enumerates
<1> QED
  BY <1>4, <1>5 DEF m

\* A position after the others is enumerated last.
LEMMA EnumerationGrows ==
    ASSUME NEW m \in Nat, NEW I \in SUBSET Nat, NEW p, Enumerates(p, m, I),
           NEW n \in Nat, \A i \in I : i < n
    PROVE  Enumerates([k \in 1..(m + 1) |-> IF k = m + 1 THEN n ELSE p[k]], m + 1, I \cup {n})
<1> DEFINE q == [k \in 1..(m + 1) |-> IF k = m + 1 THEN n ELSE p[k]]
           J == I \cup {n}
<1>1. p \in [1..m -> I] /\ \A i, j \in 1..m : i < j => p[i] < p[j]
  BY DEF Enumerates
<1>2. ASSUME NEW k \in 1..(m + 1) PROVE q[k] = (IF k = m + 1 THEN n ELSE p[k]) /\ (k # m + 1 => k \in 1..m)
  OBVIOUS
<1>3. \A k \in 1..(m + 1) : q[k] \in J
  BY <1>1, <1>2
<1>4. ASSUME NEW i \in 1..(m + 1), NEW j \in 1..(m + 1), i < j PROVE q[i] < q[j]
  <2>1. i \in 1..m /\ i # m + 1
    BY <1>4
  <2>2. CASE j = m + 1
    BY <1>1, <1>2, <2>1, <2>2
  <2>3. CASE j # m + 1
    BY <1>1, <1>2, <1>4, <2>1, <2>3
  <2> QED
    BY <2>2, <2>3
<1>5. ASSUME NEW i \in J PROVE \E k \in 1..(m + 1) : q[k] = i
  <2>1. CASE i = n
    BY <1>2, <2>1
  <2>2. CASE i # n
    <3>1. PICK k \in 1..m : p[k] = i
      BY <2>2 DEF Enumerates
    <3>2. k \in 1..(m + 1) /\ k # m + 1
      OBVIOUS
    <3> QED
      BY <1>2, <3>1, <3>2
  <2> QED
    BY <2>1, <2>2
<1>6. q \in [1..(m + 1) -> J]
  BY <1>3
<1> HIDE DEF q, J
<1>7. Enumerates(q, m + 1, J)
  BY <1>4, <1>5, <1>6 DEF Enumerates
<1> QED
  BY <1>7 DEF q, J

\* Without the last position the others are enumerated.
LEMMA EnumerationShrinks ==
    ASSUME NEW m \in Nat \ {0}, NEW I \in SUBSET Nat, NEW p, Enumerates(p, m, I)
    PROVE  Enumerates([k \in 1..(m - 1) |-> p[k]], m - 1, I \ {p[m]})
<1> DEFINE q == [k \in 1..(m - 1) |-> p[k]]
           J == I \ {p[m]}
<1>1. p \in [1..m -> I] /\ \A i, j \in 1..m : i < j => p[i] < p[j]
  BY DEF Enumerates
<1>2. m \in 1..m /\ \A k \in 1..(m - 1) : k \in 1..m /\ k < m /\ q[k] = p[k]
  OBVIOUS
<1>3. ASSUME NEW k \in 1..(m - 1) PROVE q[k] \in J
  <2>1. p[k] \in Nat /\ p[m] \in Nat /\ p[k] < p[m]
    BY <1>1, <1>2
  <2> QED
    BY <1>1, <1>2, <2>1
<1>4. \A i, j \in 1..(m - 1) : i < j => q[i] < q[j]
  BY <1>1, <1>2
<1>5. ASSUME NEW i \in J PROVE \E k \in 1..(m - 1) : q[k] = i
  <2>1. PICK k \in 1..m : p[k] = i
    BY DEF Enumerates
  <2>2. k # m
    BY <2>1
  <2>3. k \in 1..(m - 1)
    BY <2>2
  <2> QED
    BY <1>2, <2>1, <2>3
<1>6. q \in [1..(m - 1) -> J]
  BY <1>3
<1> HIDE DEF q, J
<1>7. Enumerates(q, m - 1, J)
  BY <1>4, <1>5, <1>6 DEF Enumerates
<1> QED
  BY <1>7 DEF q, J

\* Picking keeps the type, and takes the elements at the positions and no others.
LEMMA PickedTyped ==
    ASSUME NEW T, NEW s \in Seq(T), NEW I \in SUBSET (1..Len(s))
    PROVE  /\ Cardinality(I) \in Nat /\ Picked(s, I) \in Seq(T) /\ Len(Picked(s, I)) = Cardinality(I)
           /\ DOMAIN Picked(s, I) = 1..Cardinality(I)
           /\ \A k \in 1..Cardinality(I) : \E i \in I : Picked(s, I)[k] = s[i]
           /\ \A i \in I : \E k \in 1..Cardinality(I) : Picked(s, I)[k] = s[i]
<1> DEFINE m == Cardinality(I)
<1>1. Len(s) \in Nat /\ \A i \in I : s[i] \in T
  OBVIOUS
<1>2. m \in Nat
  BY <1>1, PositionsEnumerated
<1>3. PICK p : Enumerates(p, m, I)
  BY <1>1, PositionsEnumerated
<1>4. Picked(s, I) = [k \in 1..m |-> s[p[k]]]
  BY <1>1, <1>2, <1>3, PickedUnique
<1> HIDE DEF m
<1>5. \A k \in 1..m : p[k] \in I /\ s[p[k]] \in T
  BY <1>1, <1>3 DEF Enumerates
<1>6. \A i \in I : \E k \in 1..m : p[k] = i
  BY <1>3 DEF Enumerates
<1>7. Picked(s, I) \in [1..m -> T]
  BY <1>4, <1>5
<1>8. Picked(s, I) \in Seq(T) /\ Len(Picked(s, I)) = m /\ DOMAIN Picked(s, I) = 1..m
  <2> DEFINE u == Picked(s, I)
  <2>1. u \in [1..m -> T]
    BY <1>7
  <2> HIDE DEF u
  <2>2. u \in Seq(T) /\ Len(u) = m /\ DOMAIN u = 1..m
    BY <1>2, <2>1
  <2> QED
    BY <2>2 DEF u
<1>9. \A k \in 1..m : Picked(s, I)[k] = s[p[k]]
  BY <1>4
<1>10. \A k \in 1..m : \E i \in I : Picked(s, I)[k] = s[i]
  BY <1>5, <1>9
<1>11. \A i \in I : \E k \in 1..m : Picked(s, I)[k] = s[i]
  BY <1>6, <1>9
<1> QED
  BY <1>2, <1>8, <1>10, <1>11 DEF m

\* An element more does not change what is picked before it.
LEMMA PickedKept ==
    ASSUME NEW T, NEW s \in Seq(T), NEW e \in T, NEW I \in SUBSET (1..Len(s))
    PROVE  Picked(Append(s, e), I) = Picked(s, I)
<1> DEFINE m == Cardinality(I)
           t == Append(s, e)
<1>1. Len(s) \in Nat /\ I \in SUBSET Nat /\ \A i \in I : t[i] = s[i]
  OBVIOUS
<1>2. m \in Nat
  BY <1>1, PositionsEnumerated
<1>3. PICK p : Enumerates(p, m, I)
  BY <1>1, PositionsEnumerated
<1> HIDE DEF m, t
<1>4. Picked(s, I) = [k \in 1..m |-> s[p[k]]] /\ Picked(t, I) = [k \in 1..m |-> t[p[k]]]
  BY <1>1, <1>2, <1>3, PickedUnique
<1>5. \A k \in 1..m : t[p[k]] = s[p[k]]
  BY <1>1, <1>3 DEF Enumerates
<1> QED
  BY <1>4, <1>5 DEF t

\* An element more at a position picked is one more.
LEMMA PickedGrows ==
    ASSUME NEW T, NEW s \in Seq(T), NEW e \in T, NEW I \in SUBSET (1..Len(s))
    PROVE  Picked(Append(s, e), I \cup {Len(s) + 1}) = Append(Picked(s, I), e)
<1> DEFINE m == Cardinality(I)
           n == Len(s) + 1
           t == Append(s, e)
           J == I \cup {n}
<1>1. /\ Len(s) \in Nat /\ I \in SUBSET Nat /\ J \in SUBSET Nat /\ n \notin I
      /\ t[n] = e /\ \A i \in I : t[i] = s[i] /\ i < n
  <2>1. Len(s) \in Nat /\ t[n] = e /\ \A i \in 1..Len(s) : t[i] = s[i]
    OBVIOUS
  <2> HIDE DEF t
  <2>2. \A i \in I : i \in 1..Len(s) /\ i < n
    BY <2>1
  <2>3. I \in SUBSET Nat /\ n \in Nat /\ n \notin I
    BY <2>1, <2>2
  <2>4. J \in SUBSET Nat
    BY <2>3
  <2> HIDE DEF J, n
  <2> QED
    BY <2>1, <2>2, <2>3, <2>4
<1>2. m \in Nat
  BY <1>1, PositionsEnumerated
<1>3. PICK p : Enumerates(p, m, I)
  BY <1>1, PositionsEnumerated
<1> HIDE DEF m, t
<1> DEFINE q == [k \in 1..(m + 1) |-> IF k = m + 1 THEN n ELSE p[k]]
<1>4. p \in [1..m -> I] /\ \A i, j \in 1..m : i < j => p[i] < p[j]
  BY <1>3 DEF Enumerates
<1>5. Enumerates(q, m + 1, J)
  BY <1>1, <1>2, <1>3, EnumerationGrows
<1>6. Picked(s, I) = [k \in 1..m |-> s[p[k]]]
  BY <1>1, <1>2, <1>3, PickedUnique
<1>7. Cardinality(J) = m + 1 /\ Picked(t, J) = [k \in 1..(m + 1) |-> t[q[k]]]
  <2>1. J \in SUBSET Nat /\ m + 1 \in Nat
    BY <1>1, <1>2
  <2> HIDE DEF q, J, n
  <2> QED
    BY <1>5, <2>1, PickedUnique
<1>8. Picked(s, I) \in Seq(T) /\ Len(Picked(s, I)) = m
  BY PickedTyped DEF m
<1> DEFINE u == Picked(s, I)
<1>9. ASSUME NEW k \in 1..(m + 1) PROVE t[q[k]] = Append(u, e)[k]
  <2>1. Append(u, e)[k] = IF k = m + 1 THEN e ELSE u[k]
    <3> HIDE DEF u
    <3> QED
      BY <1>2, <1>8 DEF u
  <2>2. CASE k = m + 1
    BY <1>1, <2>1, <2>2
  <2>3. CASE k # m + 1
    <3>1. k \in 1..m /\ q[k] = p[k]
      BY <1>2, <2>3
    <3>2. p[k] \in I
      BY <1>4, <3>1
    <3> QED
      BY <1>1, <1>6, <2>1, <2>3, <3>1, <3>2
  <2> QED
    BY <2>2, <2>3
<1>10. Append(u, e) \in Seq(T) /\ Len(Append(u, e)) = m + 1
  <2> HIDE DEF u
  <2> QED
    BY <1>8 DEF u
<1>11. Picked(t, J) \in Seq(T) /\ Len(Picked(t, J)) = m + 1
  <2>1. t \in Seq(T) /\ Len(t) = n
    BY DEF t
  <2>2. J \in SUBSET (1..n)
    BY <1>1
  <2> HIDE DEF J, n
  <2> QED
    BY <1>7, <2>1, <2>2, PickedTyped
<1> HIDE DEF u, q, J, n
<1>12. Picked(t, J) = Append(u, e)
  BY <1>2, <1>7, <1>9, <1>10, <1>11, SeqEqual
<1> QED
  BY <1>12 DEF u, t, J, n

-----------------------------------------------------------------------------
(* The header: scopes and declarations.                                     *)

HeaderLine == ({"scope"} \X ScopeNames) \cup {<<"upscope">>} \cup ({"var"} \X Codes \X SignalNames)

\* Between, OpenAt and PathAt of a header h.
Lines(h, i, j, kind) == Cardinality({l \in (i + 1)..j : h[l][1] = kind})

Opened(h, k) ==
    {i \in 1..(k - 1) : /\ h[i][1] = "scope"
                        /\ \A j \in i..(k - 1) : Lines(h, i, j, "upscope") <= Lines(h, i, j, "scope")}

PathFrom(h, k) ==
    LET open == Picked(h, Opened(h, k)) IN [i \in DOMAIN open |-> open[i][2]] \o <<h[k][3]>>

\* p has the lines that opened the scopes s on the stack; after each, the scopes
\* opened and not closed are those above it.
Stack(h, s, p) ==
    /\ Enumerates(p, Len(s), Opened(h, Len(h) + 1))
    /\ \A i \in 1..Len(s) :
          /\ h[p[i]][2] = s[i]
          /\ Lines(h, p[i], Len(h), "scope")
               = Lines(h, p[i], Len(h), "upscope") + (Len(s) - i)

\* g starts with the n lines of h.
Continues(g, h, n) == \A l \in 1..n : g[l] = h[l]

\* The lines of a header with one more.
LEMMA LineAppended ==
    ASSUME NEW n \in Nat, NEW line, header \in Seq(HeaderLine), Len(header) = n,
           line \in HeaderLine, header' = Append(header, line)
    PROVE  /\ header' \in Seq(HeaderLine) /\ Len(header') = n + 1
           /\ DOMAIN header = 1..n /\ DOMAIN header' = 1..(n + 1)
           /\ header'[n + 1] = line
           /\ Continues(header', header, n)
<1> DEFINE S == HeaderLine
<1>1. header \in Seq(S) /\ line \in S
  OBVIOUS
<1> HIDE DEF S
<1>2. /\ header' \in Seq(S) /\ Len(header') = n + 1
      /\ DOMAIN header = 1..n /\ DOMAIN header' = 1..(n + 1)
      /\ header'[n + 1] = line
      /\ \A i \in 1..n : header'[i] = header[i]
  BY <1>1
<1> QED
  BY <1>2 DEF S, Continues

LEMMA BetweenTyped ==
    ASSUME NEW i \in Nat, NEW j \in Nat, NEW kind
    PROVE  /\ Lines(header, i, j, kind) \in Nat /\ IsFiniteSet({l \in (i + 1)..j : header[l][1] = kind})
           /\ i = j => Lines(header, i, j, kind) = 0
<1> DEFINE T == {l \in (i + 1)..j : header[l][1] = kind}
<1>1. T \in SUBSET ((i + 1)..j) /\ (i = j => T = {})
  OBVIOUS
<1>2. IsFiniteSet((i + 1)..j)
  BY FS_Interval
<1>3. Lines(header, i, j, kind) = Cardinality(T)
  BY DEF Lines
<1> HIDE DEF T
<1>4. IsFiniteSet(T) /\ Cardinality(T) \in Nat /\ (T = {} => Cardinality(T) = 0)
  BY <1>1, <1>2, FS_Subset, FS_CardinalityType, FS_EmptySet
<1> QED
  BY <1>1, <1>3, <1>4 DEF T

LEMMA BetweenKept ==
    ASSUME NEW n \in Nat, Continues(header', header, n),
           NEW i \in Nat, NEW j \in 0..n, NEW kind
    PROVE  Lines(header', i, j, kind) = Lines(header, i, j, kind)
<1>1. \A l \in (i + 1)..j : header'[l] = header[l]
  BY DEF Continues
<1>2. {l \in (i + 1)..j : header'[l][1] = kind} = {l \in (i + 1)..j : header[l][1] = kind}
  BY <1>1
<1> QED
  BY <1>2 DEF Lines

LEMMA BetweenGrows ==
    ASSUME NEW n \in Nat, Continues(header', header, n),
           NEW i \in 0..n, NEW kind
    PROVE  Lines(header', i, n + 1, kind) = Lines(header, i, n, kind) + (IF header'[n + 1][1] = kind THEN 1 ELSE 0)
<1> DEFINE T == {l \in (i + 1)..n : header[l][1] = kind}
           U == {l \in (i + 1)..(n + 1) : header'[l][1] = kind}
<1>1. IsFiniteSet(T) /\ Lines(header, i, n, kind) = Cardinality(T) /\ Cardinality(T) \in Nat
  <2>1. i \in Nat
    OBVIOUS
  <2>2. Lines(header, i, n, kind) = Cardinality(T)
    BY DEF Lines
  <2>3. IsFiniteSet(T) /\ Lines(header, i, n, kind) \in Nat
    BY <2>1, BetweenTyped
  <2> QED
    BY <2>2, <2>3
<1>2. \A l \in (i + 1)..(n + 1) : l = n + 1 \/ (l \in (i + 1)..n /\ header'[l] = header[l])
  BY DEF Continues
<1>3. n + 1 \notin T /\ n + 1 \in (i + 1)..(n + 1) /\ \A l \in (i + 1)..n : l \in (i + 1)..(n + 1) /\ header'[l] = header[l]
  BY DEF Continues
<1>4. U = IF header'[n + 1][1] = kind THEN T \cup {n + 1} ELSE T
  BY <1>2, <1>3
<1>5. Lines(header', i, n + 1, kind) = Cardinality(U)
  BY DEF Lines
<1> HIDE DEF T, U
<1>6. Cardinality(T \cup {n + 1}) = Cardinality(T) + 1
  BY <1>1, <1>3, FS_AddElement
<1> QED
  BY <1>1, <1>4, <1>5, <1>6

\* A line more opens and closes nothing before it.
LEMMA OpenKept ==
    ASSUME NEW n \in Nat, Continues(header', header, n), NEW k \in 1..(n + 1)
    PROVE  Opened(header', k) = Opened(header, k) /\ Opened(header, k) \in SUBSET (1..n)
<1>1. ASSUME NEW i \in 1..(k - 1), NEW j \in i..(k - 1), NEW kind
      PROVE  Lines(header', i, j, kind) = Lines(header, i, j, kind)
  <2>1. i \in Nat /\ j \in 0..n
    OBVIOUS
  <2> QED
    BY <2>1, BetweenKept
<1>2. \A i \in 1..(k - 1) : i \in 1..n /\ header'[i] = header[i]
  BY DEF Continues
<1>3. \A i \in 1..(k - 1) : \A j \in i..(k - 1) :
         /\ Lines(header', i, j, "upscope") = Lines(header, i, j, "upscope")
         /\ Lines(header', i, j, "scope") = Lines(header, i, j, "scope")
  BY <1>1
<1>4. Opened(header', k) = {i \in 1..(k - 1) : /\ header'[i][1] = "scope"
                                      /\ \A j \in i..(k - 1) : Lines(header', i, j, "upscope") <= Lines(header', i, j, "scope")}
  BY DEF Opened
<1> QED
  BY <1>2, <1>3, <1>4 DEF Opened

\* What is open after the line.
LEMMA OpenGrows ==
    ASSUME NEW n \in Nat, Continues(header', header, n)
    PROVE  Opened(header', n + 2) = {i \in Opened(header, n + 1) :
                                       Lines(header', i, n + 1, "upscope") <= Lines(header', i, n + 1, "scope")}
                               \cup (IF header'[n + 1][1] = "scope" THEN {n + 1} ELSE {})
<1> DEFINE closed(x, i, j) == Lines(x, i, j, "upscope") <= Lines(x, i, j, "scope")
<1>1. ASSUME NEW i \in 1..n, NEW j \in i..n PROVE closed(header', i, j) <=> closed(header, i, j)
  <2>1. i \in Nat /\ j \in 0..n
    OBVIOUS
  <2> QED
    BY <2>1, BetweenKept
<1>2. closed(header', n + 1, n + 1)
  <2>1. /\ {l \in ((n + 1) + 1)..(n + 1) : header'[l][1] = "upscope"} = {}
        /\ {l \in ((n + 1) + 1)..(n + 1) : header'[l][1] = "scope"} = {}
    OBVIOUS
  <2>2. Lines(header', n + 1, n + 1, "upscope") = 0 /\ Lines(header', n + 1, n + 1, "scope") = 0
    BY <2>1, FS_EmptySet DEF Lines
  <2> QED
    BY <2>2
<1>3. Opened(header', n + 2) = {i \in 1..(n + 1) : header'[i][1] = "scope" /\ \A j \in i..(n + 1) : closed(header', i, j)}
  BY DEF Opened
<1>4. Opened(header, n + 1) = {i \in 1..n : header[i][1] = "scope" /\ \A j \in i..n : closed(header, i, j)}
  BY DEF Opened
<1> HIDE DEF closed
<1>5. \A i \in 1..n : i \in Opened(header', n + 2) <=> i \in Opened(header, n + 1) /\ closed(header', i, n + 1)
  <2> TAKE i \in 1..n
  <2>1. i..(n + 1) = (i..n) \cup {n + 1} /\ i \in 1..(n + 1)
    OBVIOUS
  <2>2. (\A j \in i..(n + 1) : closed(header', i, j)) <=> (\A j \in i..n : closed(header', i, j)) /\ closed(header', i, n + 1)
    BY <2>1
  <2>3. (\A j \in i..n : closed(header', i, j)) <=> (\A j \in i..n : closed(header, i, j))
    BY <1>1
  <2>4. header'[i] = header[i]
    BY DEF Continues
  <2> QED
    BY <1>3, <1>4, <2>1, <2>2, <2>3, <2>4
<1>6. n + 1 \in Opened(header', n + 2) <=> header'[n + 1][1] = "scope"
  <2>1. \A j \in (n + 1)..(n + 1) : j = n + 1
    OBVIOUS
  <2> QED
    BY <1>2, <1>3, <2>1
<1>7. Opened(header', n + 2) \subseteq 1..(n + 1) /\ Opened(header, n + 1) \subseteq 1..n /\ 1..(n + 1) = (1..n) \cup {n + 1}
  BY <1>3, <1>4
<1> QED
  BY <1>5, <1>6, <1>7 DEF closed

\* A line that was read keeps its path.
LEMMA PathAtKept ==
    ASSUME NEW n \in Nat, NEW line, header \in Seq(HeaderLine), Len(header) = n,
           line \in HeaderLine, header' = Append(header, line), NEW k \in 1..n
    PROVE  PathFrom(header', k) = PathFrom(header, k)
<1>1. /\ Continues(header', header, n)
      /\ k \in 1..(n + 1)
  BY LineAppended
<1>2. Opened(header', k) = Opened(header, k) /\ Opened(header, k) \in SUBSET (1..n)
  BY <1>1, OpenKept
<1> DEFINE I == Opened(header, k)
<1>3. Picked(header', I) = Picked(header, I)
  <2>1. I \in SUBSET (1..Len(header))
    BY <1>2
  <2> DEFINE S == HeaderLine
  <2>2. header \in Seq(S) /\ line \in S
    OBVIOUS
  <2> HIDE DEF I, S
  <2> QED
    BY <2>1, <2>2, PickedKept
<1>4. Picked(header', Opened(header', k)) = Picked(header, Opened(header, k)) /\ header'[k] = header[k]
  BY <1>1, <1>2, <1>3 DEF Continues
<1> QED
  BY <1>4 DEF PathFrom

\* A name declared after the scopes on the stack.
LEMMA PathIsStack ==
    ASSUME NEW n \in Nat, NEW c, NEW name, header \in Seq(HeaderLine), Len(header) = n,
           scopes \in Seq(ScopeNames), NEW p, Stack(header, scopes, p),
           <<"var", c, name>> \in HeaderLine, header' = Append(header, <<"var", c, name>>)
    PROVE  PathFrom(header', n + 1) = Append(scopes, name)
<1> DEFINE m == Len(scopes)
           I == Opened(header, n + 1)
           line == <<"var", c, name>>
<1>1. /\ Continues(header', header, n)
      /\ header'[n + 1] = line /\ n + 1 \in 1..(n + 1) /\ line[3] = name
  <2>1. line \in HeaderLine /\ header' = Append(header, line) /\ line[3] = name
    OBVIOUS
  <2> HIDE DEF line
  <2>2. Continues(header', header, n) /\ header'[n + 1] = line
    BY <2>1, LineAppended
  <2> QED
    BY <2>1, <2>2
<1>2. Opened(header', n + 1) = I /\ I \in SUBSET (1..n)
  BY <1>1, OpenKept
<1>3. /\ Enumerates(p, m, I) /\ m \in Nat
      /\ \A i \in 1..m : header[p[i]][2] = scopes[i]
  BY DEF Stack
<1>4. Picked(header', I) = [k \in 1..m |-> header'[p[k]]]
  <2>1. I \in SUBSET Nat
    BY <1>2
  <2>2. Enumerates(p, m, I) /\ m \in Nat
    BY <1>3
  <2> HIDE DEF I, m
  <2>3. ASSUME NEW u PROVE Picked(u, I) = [k \in 1..m |-> u[p[k]]]
    BY <2>1, <2>2, PickedUnique
  <2> QED
    BY <2>3
<1>5. \A k \in 1..m : p[k] \in 1..n
  <2>1. p \in [1..m -> I]
    BY <1>3 DEF Enumerates
  <2>2. I \in SUBSET (1..n)
    BY <1>2
  <2> HIDE DEF I, m
  <2> QED
    BY <2>1, <2>2
<1> DEFINE open == Picked(header', I)
<1>6. DOMAIN open = 1..m /\ \A k \in 1..m : open[k][2] = scopes[k]
  <2>1. open = [k \in 1..m |-> header'[p[k]]]
    BY <1>4
  <2>2. ASSUME NEW k \in 1..m PROVE header'[p[k]][2] = scopes[k]
    <3>1. p[k] \in 1..n /\ header[p[k]][2] = scopes[k]
      BY <1>3, <1>5
    <3>2. header'[p[k]] = header[p[k]]
      BY <1>1, <3>1 DEF Continues
    <3> QED
      BY <3>1, <3>2
  <2> HIDE DEF open, m
  <2> QED
    BY <2>1, <2>2
<1>7. [i \in DOMAIN open |-> open[i][2]] = scopes
  <2>1. scopes = [i \in 1..m |-> scopes[i]]
    <3>1. scopes \in [1..m -> ScopeNames]
      OBVIOUS
    <3> HIDE DEF m
    <3> QED
      BY <3>1
  <2> HIDE DEF open, m
  <2> QED
    BY <1>6, <2>1
<1>8. PathFrom(header', n + 1) = [i \in DOMAIN open |-> open[i][2]] \o <<header'[n + 1][3]>>
  BY <1>2 DEF PathFrom
<1> HIDE DEF open
<1>9. PathFrom(header', n + 1) = scopes \o <<name>>
  BY <1>1, <1>7, <1>8
<1>10. scopes \o <<name>> = Append(scopes, name)
  <2> DEFINE S == ScopeNames \cup {name}
  <2>1. scopes \in Seq(S) /\ name \in S
    OBVIOUS
  <2> HIDE DEF S
  <2> QED
    BY <2>1
<1> QED
  BY <1>9, <1>10

-----------------------------------------------------------------------------
\* The scopes opened and closed after each line of the stack, with one line more.
LineAdded(h, g, s, p, n, line) ==
    /\ Len(s) \in Nat /\ Enumerates(p, Len(s), Opened(h, n + 1)) /\ Len(g) = n + 1
    /\ Opened(h, n + 1) \in SUBSET (1..n)
    /\ \A i \in 1..Len(s) :
          /\ p[i] \in 1..n /\ g[p[i]][2] = s[i]
          /\ Lines(h, p[i], n, "upscope") \in Nat
          /\ Lines(h, p[i], n, "scope") = Lines(h, p[i], n, "upscope") + (Len(s) - i)
          /\ Lines(g, p[i], n + 1, "scope")
               = Lines(h, p[i], n, "scope") + (IF line[1] = "scope" THEN 1 ELSE 0)
          /\ Lines(g, p[i], n + 1, "upscope")
               = Lines(h, p[i], n, "upscope") + (IF line[1] = "upscope" THEN 1 ELSE 0)
    /\ Opened(g, n + 2) = {i \in Opened(h, n + 1) : Lines(g, i, n + 1, "upscope") <= Lines(g, i, n + 1, "scope")}
                          \cup (IF line[1] = "scope" THEN {n + 1} ELSE {})

LEMMA StackGrows ==
    ASSUME NEW n \in Nat, NEW line, header \in Seq(HeaderLine), Len(header) = n,
           scopes \in Seq(ScopeNames), NEW p, Stack(header, scopes, p),
           line \in HeaderLine, header' = Append(header, line)
    PROVE  LineAdded(header, header', scopes, p, n, line)
<1> DEFINE m == Len(scopes)
<1>1. /\ Continues(header', header, n)
      /\ header'[n + 1] = line /\ n + 1 \in 1..(n + 1) /\ Len(header') = n + 1
  BY LineAppended
<1>2. Opened(header, n + 1) \in SUBSET (1..n)
  BY <1>1, OpenKept
<1>3. /\ Enumerates(p, m, Opened(header, n + 1)) /\ m \in Nat
      /\ \A i \in 1..m : /\ header[p[i]][2] = scopes[i]
                         /\ Lines(header, p[i], n, "scope") = Lines(header, p[i], n, "upscope") + (m - i)
  BY DEF Stack
<1>4. \A k \in 1..m : p[k] \in 1..n
  BY <1>2, <1>3 DEF Enumerates
<1>5. ASSUME NEW i \in 1..m
      PROVE  /\ Lines(header, p[i], n, "upscope") \in Nat
             /\ Lines(header', p[i], n + 1, "scope")
                  = Lines(header, p[i], n, "scope") + (IF line[1] = "scope" THEN 1 ELSE 0)
             /\ Lines(header', p[i], n + 1, "upscope")
                  = Lines(header, p[i], n, "upscope") + (IF line[1] = "upscope" THEN 1 ELSE 0)
  <2> DEFINE q == p[i]
  <2>1. q \in Nat /\ q \in 0..n
    BY <1>4
  <2> HIDE DEF q
  <2>2. Lines(header, q, n, "upscope") \in Nat
    BY <2>1, BetweenTyped
  <2>3. /\ Lines(header', q, n + 1, "scope") = Lines(header, q, n, "scope") + (IF line[1] = "scope" THEN 1 ELSE 0)
        /\ Lines(header', q, n + 1, "upscope") = Lines(header, q, n, "upscope") + (IF line[1] = "upscope" THEN 1 ELSE 0)
    BY <1>1, <2>1, BetweenGrows
  <2>4. Lines(header', p[i], n + 1, "scope") = Lines(header', q, n + 1, "scope")
    BY DEF q
  <2> QED
    BY <2>2, <2>3 DEF q
<1>6. Opened(header', n + 2) = {i \in Opened(header, n + 1) :
                                  Lines(header', i, n + 1, "upscope") <= Lines(header', i, n + 1, "scope")}
                         \cup (IF line[1] = "scope" THEN {n + 1} ELSE {})
  BY <1>1, OpenGrows
<1> HIDE DEF m
<1>7. \A i \in 1..m : p[i] \in 1..n /\ header'[p[i]][2] = scopes[i]
  BY <1>1, <1>3, <1>4 DEF Continues
<1> QED
  BY <1>1, <1>2, <1>3, <1>5, <1>6, <1>7 DEF m, LineAdded

LEMMA StackAfterScope ==
    ASSUME NEW n \in Nat, NEW name, header \in Seq(HeaderLine), Len(header) = n,
           scopes \in Seq(ScopeNames), \E p : Stack(header, scopes, p), name \in ScopeNames,
           header' = Append(header, <<"scope", name>>), scopes' = Append(scopes, name)
    PROVE  \E q : Stack(header', scopes', q)
<1> DEFINE m == Len(scopes)
           line == <<"scope", name>>
<1>0. m \in Nat
  OBVIOUS
<1>1. PICK p : Stack(header, scopes, p)
  OBVIOUS
<1>2. line \in HeaderLine /\ line[1] = "scope" /\ line[2] = name
  BY DEF HeaderLine
<1>3. /\ m \in Nat /\ Enumerates(p, m, Opened(header, n + 1)) /\ Len(header') = n + 1
      /\ Opened(header, n + 1) \in SUBSET (1..n)
      /\ \A i \in 1..m :
            /\ p[i] \in 1..n /\ header'[p[i]][2] = scopes[i]
            /\ Lines(header, p[i], n, "upscope") \in Nat
            /\ Lines(header, p[i], n, "scope") = Lines(header, p[i], n, "upscope") + (m - i)
            /\ Lines(header', p[i], n + 1, "scope") = Lines(header, p[i], n, "scope") + 1
            /\ Lines(header', p[i], n + 1, "upscope") = Lines(header, p[i], n, "upscope")
      /\ Opened(header', n + 2) = {i \in Opened(header, n + 1) :
                                     Lines(header', i, n + 1, "upscope") <= Lines(header', i, n + 1, "scope")}
                            \cup {n + 1}
  <2> HIDE DEF line
  <2>1. LineAdded(header, header', scopes, p, n, line)
    BY <1>1, <1>2, StackGrows DEF line
  <2> HIDE DEF m
  <2>2. ASSUME NEW i \in 1..m PROVE Lines(header, p[i], n, "upscope") + 0 = Lines(header, p[i], n, "upscope")
    BY <2>1 DEF LineAdded, m
  <2> QED
    BY <1>2, <2>1, <2>2 DEF LineAdded, m
<1> HIDE DEF m, line
<1>4. ASSUME NEW i \in Opened(header, n + 1) PROVE Lines(header', i, n + 1, "upscope") <= Lines(header', i, n + 1, "scope")
  <2>1. PICK k \in 1..m : p[k] = i
    BY <1>3 DEF Enumerates
  <2>2. /\ Lines(header, p[k], n, "upscope") \in Nat
        /\ Lines(header, p[k], n, "scope") = Lines(header, p[k], n, "upscope") + (m - k)
        /\ Lines(header', p[k], n + 1, "scope") = Lines(header, p[k], n, "scope") + 1
        /\ Lines(header', p[k], n + 1, "upscope") = Lines(header, p[k], n, "upscope")
    BY <1>3
  <2>3. Lines(header', p[k], n + 1, "upscope") <= Lines(header', p[k], n + 1, "scope")
    BY <1>3, <2>2
  <2> QED
    BY <2>1, <2>3
<1>5. Opened(header', n + 2) = Opened(header, n + 1) \cup {n + 1}
  BY <1>3, <1>4
<1> DEFINE q == [k \in 1..(m + 1) |-> IF k = m + 1 THEN n + 1 ELSE p[k]]
<1>6. Enumerates(q, m + 1, Opened(header, n + 1) \cup {n + 1})
  <2> DEFINE I == Opened(header, n + 1)
  <2>1. I \in SUBSET Nat /\ n + 1 \in Nat /\ \A i \in I : i < n + 1
    BY <1>3
  <2>2. Enumerates(p, m, I) /\ m \in Nat
    BY <1>3
  <2> HIDE DEF I
  <2>3. Enumerates(q, m + 1, I \cup {n + 1})
    BY <2>1, <2>2, EnumerationGrows
  <2> QED
    BY <2>3 DEF I
<1>7. Len(scopes') = m + 1 /\ scopes'[m + 1] = name /\ \A i \in 1..m : scopes'[i] = scopes[i]
  BY DEF m
<1>8. /\ Lines(header', n + 1, n + 1, "scope") = 0
      /\ Lines(header', n + 1, n + 1, "upscope") = 0
      /\ header'[n + 1] = line
  <2>1. header'[n + 1] = line
    BY DEF line
  <2>2. /\ {l \in ((n + 1) + 1)..(n + 1) : header'[l][1] = "upscope"} = {}
        /\ {l \in ((n + 1) + 1)..(n + 1) : header'[l][1] = "scope"} = {}
    OBVIOUS
  <2> QED
    BY <2>1, <2>2, FS_EmptySet DEF Lines
<1>9. ASSUME NEW i \in 1..(m + 1)
      PROVE  /\ header'[q[i]][2] = scopes'[i]
             /\ Lines(header', q[i], n + 1, "scope") = Lines(header', q[i], n + 1, "upscope") + ((m + 1) - i)
  <2>1. CASE i = m + 1
    <3>1. q[i] = n + 1
      BY <2>1
    <3> HIDE DEF q
    <3> QED
      BY <1>2, <1>3, <1>7, <1>8, <2>1, <3>1
  <2>2. CASE i # m + 1
    <3>1. i \in 1..m /\ q[i] = p[i]
      BY <1>3, <2>2
    <3> HIDE DEF q
    <3>2. /\ header'[p[i]][2] = scopes[i] /\ Lines(header, p[i], n, "upscope") \in Nat
          /\ Lines(header, p[i], n, "scope") = Lines(header, p[i], n, "upscope") + (m - i)
          /\ Lines(header', p[i], n + 1, "scope") = Lines(header, p[i], n, "scope") + 1
          /\ Lines(header', p[i], n + 1, "upscope") = Lines(header, p[i], n, "upscope")
      BY <1>3, <3>1
    <3>3. Lines(header', p[i], n + 1, "scope") = Lines(header', p[i], n + 1, "upscope") + ((m + 1) - i)
      BY <1>0, <3>1, <3>2
    <3>4. scopes'[i] = scopes[i]
      BY <1>7, <3>1
    <3> QED
      BY <3>1, <3>2, <3>3, <3>4
  <2> QED
    BY <2>1, <2>2
<1> HIDE DEF q
<1>10. Stack(header', scopes', q)
  <2>1. Len(header') + 1 = n + 2 /\ Len(scopes') = m + 1 /\ Len(header') = n + 1
    BY <1>3, <1>7
  <2>2. Enumerates(q, Len(scopes'), Opened(header', Len(header') + 1))
    BY <1>5, <1>6, <2>1
  <2>3. \A i \in 1..Len(scopes') :
          /\ header'[q[i]][2] = scopes'[i]
          /\ Lines(header', q[i], Len(header'), "scope") = Lines(header', q[i], Len(header'), "upscope") + (Len(scopes') - i)
    BY <1>9, <2>1
  <2> QED
    BY <2>2, <2>3 DEF Stack
<1> QED
  BY <1>10

LEMMA StackAfterUpscope ==
    ASSUME NEW n \in Nat, header \in Seq(HeaderLine), Len(header) = n,
           scopes \in Seq(ScopeNames), \E p : Stack(header, scopes, p),
           header' = Append(header, <<"upscope">>),
           scopes' = IF scopes = <<>> THEN scopes ELSE Front(scopes)
    PROVE  \E q : Stack(header', scopes', q)
<1> DEFINE m == Len(scopes)
           line == <<"upscope">>
<1>0. m \in Nat
  OBVIOUS
<1>1. PICK p : Stack(header, scopes, p)
  OBVIOUS
<1>2. line \in HeaderLine /\ line[1] = "upscope"
  BY DEF HeaderLine
<1>3. /\ m \in Nat /\ Enumerates(p, m, Opened(header, n + 1)) /\ Len(header') = n + 1
      /\ Opened(header, n + 1) \in SUBSET (1..n)
      /\ \A i \in 1..m :
            /\ p[i] \in 1..n /\ header'[p[i]][2] = scopes[i]
            /\ Lines(header, p[i], n, "upscope") \in Nat
            /\ Lines(header, p[i], n, "scope") = Lines(header, p[i], n, "upscope") + (m - i)
            /\ Lines(header', p[i], n + 1, "scope") = Lines(header, p[i], n, "scope")
            /\ Lines(header', p[i], n + 1, "upscope") = Lines(header, p[i], n, "upscope") + 1
      /\ Opened(header', n + 2) = {i \in Opened(header, n + 1) :
                                     Lines(header', i, n + 1, "upscope") <= Lines(header', i, n + 1, "scope")}
  <2> HIDE DEF line
  <2>1. LineAdded(header, header', scopes, p, n, line)
    BY <1>1, <1>2, StackGrows DEF line
  <2> HIDE DEF m
  <2>2. ASSUME NEW i \in 1..m PROVE Lines(header, p[i], n, "scope") + 0 = Lines(header, p[i], n, "scope")
    BY <2>1 DEF LineAdded, m
  <2> QED
    BY <1>2, <2>1, <2>2 DEF LineAdded, m
<1> HIDE DEF line
<1>4. ASSUME NEW k \in 1..m
      PROVE  Lines(header', p[k], n + 1, "upscope") <= Lines(header', p[k], n + 1, "scope") <=> k # m
  <2> HIDE DEF m
  <2>1. /\ Lines(header, p[k], n, "upscope") \in Nat
        /\ Lines(header, p[k], n, "scope") = Lines(header, p[k], n, "upscope") + (m - k)
        /\ Lines(header', p[k], n + 1, "scope") = Lines(header, p[k], n, "scope")
        /\ Lines(header', p[k], n + 1, "upscope") = Lines(header, p[k], n, "upscope") + 1
    BY <1>3
  <2> QED
    BY <1>0, <2>1
<1>5. CASE m = 0
  <2>1. scopes = <<>> /\ scopes' = scopes
    BY <1>5
  <2>2. Opened(header, n + 1) = {}
    <3>1. \A i \in Opened(header, n + 1) : \E k \in 1..m : p[k] = i
      BY <1>3 DEF Enumerates
    <3> QED
      BY <1>5, <3>1
  <2>3. Opened(header', n + 2) = Opened(header, n + 1)
    BY <1>3, <2>2
  <2>4. Stack(header', scopes', p)
    <3>1. Len(header') + 1 = n + 2 /\ Len(scopes') = m
      BY <1>3, <2>1
    <3>2. Enumerates(p, Len(scopes'), Opened(header', Len(header') + 1))
      BY <1>3, <2>3, <3>1
    <3>3. \A i \in 1..Len(scopes') : FALSE
      BY <1>5, <3>1
    <3> QED
      BY <3>2, <3>3 DEF Stack
  <2> QED
    BY <2>4
<1>6. CASE m # 0
  <2>1. scopes' = Front(scopes) /\ Len(scopes') = m - 1 /\ \A i \in 1..(m - 1) : scopes'[i] = scopes[i]
    <3>1. scopes # <<>>
      BY <1>6
    <3>2. scopes' = [i \in 1..(m - 1) |-> scopes[i]]
      BY <3>1 DEF Front, SubSeq
    <3>3. scopes' \in Seq(ScopeNames) /\ Len(scopes') = m - 1
      BY <1>6, <3>2
    <3> QED
      BY <3>1, <3>2, <3>3
  <2> HIDE DEF m
  <2>2. m \in Nat \ {0} /\ m \in 1..m
    BY <1>3, <1>6
  <2>3. /\ p \in [1..m -> Opened(header, n + 1)]
        /\ \A i, j \in 1..m : i < j => p[i] < p[j]
        /\ \A i \in Opened(header, n + 1) : \E k \in 1..m : p[k] = i
    BY <1>3 DEF Enumerates
  <2>4. ASSUME NEW i \in Opened(header, n + 1)
        PROVE  Lines(header', i, n + 1, "upscope") <= Lines(header', i, n + 1, "scope") <=> i # p[m]
    <3>1. PICK k \in 1..m : p[k] = i
      BY <2>3
    <3>2. p[k] = p[m] => k = m
      <4>1. p[k] \in Nat /\ p[m] \in Nat
        <5>1. Opened(header, n + 1) \in SUBSET Nat
          BY <1>3
        <5>2. p[k] \in Opened(header, n + 1) /\ p[m] \in Opened(header, n + 1)
          BY <2>2, <2>3
        <5> QED
          BY <5>1, <5>2
      <4>2. k < m => p[k] < p[m]
        BY <2>2, <2>3
      <4> QED
        BY <2>2, <4>1, <4>2
    <3>3. Lines(header', p[k], n + 1, "upscope") <= Lines(header', p[k], n + 1, "scope") <=> k # m
      BY <1>4
    <3> QED
      BY <3>1, <3>2, <3>3
  <2>5. Opened(header', n + 2) = Opened(header, n + 1) \ {p[m]}
    BY <1>3, <2>4
  <2> DEFINE q == [k \in 1..(m - 1) |-> p[k]]
  <2>6. Enumerates(q, m - 1, Opened(header, n + 1) \ {p[m]})
    <3> DEFINE I == Opened(header, n + 1)
    <3>1. I \in SUBSET Nat /\ Enumerates(p, m, I)
      BY <1>3
    <3> HIDE DEF I
    <3>2. Enumerates(q, m - 1, I \ {p[m]})
      BY <2>2, <3>1, EnumerationShrinks
    <3> QED
      BY <3>2 DEF I
  <2>7. ASSUME NEW i \in 1..(m - 1)
        PROVE  /\ header'[q[i]][2] = scopes'[i]
               /\ Lines(header', q[i], n + 1, "scope") = Lines(header', q[i], n + 1, "upscope") + ((m - 1) - i)
    <3>1. i \in 1..m /\ q[i] = p[i]
      BY <2>2
    <3> HIDE DEF q
    <3>2. /\ header'[p[i]][2] = scopes[i] /\ Lines(header, p[i], n, "upscope") \in Nat
          /\ Lines(header, p[i], n, "scope") = Lines(header, p[i], n, "upscope") + (m - i)
          /\ Lines(header', p[i], n + 1, "scope") = Lines(header, p[i], n, "scope")
          /\ Lines(header', p[i], n + 1, "upscope") = Lines(header, p[i], n, "upscope") + 1
      BY <1>3, <3>1
    <3>3. Lines(header', p[i], n + 1, "scope") = Lines(header', p[i], n + 1, "upscope") + ((m - 1) - i)
      BY <2>2, <3>1, <3>2
    <3>4. scopes'[i] = scopes[i]
      BY <2>1
    <3> QED
      BY <3>1, <3>2, <3>3, <3>4
  <2> HIDE DEF q
  <2>8. Stack(header', scopes', q)
    <3>1. Len(header') + 1 = n + 2 /\ Len(scopes') = m - 1 /\ Len(header') = n + 1
      BY <1>3, <2>1
    <3>2. Enumerates(q, Len(scopes'), Opened(header', Len(header') + 1))
      BY <2>5, <2>6, <3>1
    <3>3. \A i \in 1..Len(scopes') :
            /\ header'[q[i]][2] = scopes'[i]
            /\ Lines(header', q[i], Len(header'), "scope") = Lines(header', q[i], Len(header'), "upscope") + (Len(scopes') - i)
      BY <2>7, <3>1
    <3> QED
      BY <3>2, <3>3 DEF Stack
  <2> QED
    BY <2>8
<1> QED
  BY <1>5, <1>6

LEMMA StackAfterVar ==
    ASSUME NEW n \in Nat, NEW c \in Codes, NEW name \in SignalNames,
           header \in Seq(HeaderLine), Len(header) = n,
           scopes \in Seq(ScopeNames), \E p : Stack(header, scopes, p),
           header' = Append(header, <<"var", c, name>>), scopes' = scopes
    PROVE  \E q : Stack(header', scopes', q)
<1> DEFINE m == Len(scopes)
           line == <<"var", c, name>>
<1>0. m \in Nat
  OBVIOUS
<1>1. PICK p : Stack(header, scopes, p)
  OBVIOUS
<1>2. line \in HeaderLine /\ line[1] # "scope" /\ line[1] # "upscope"
  BY DEF HeaderLine
<1>3. /\ m \in Nat /\ Enumerates(p, m, Opened(header, n + 1)) /\ Len(header') = n + 1
      /\ \A i \in 1..m :
            /\ header'[p[i]][2] = scopes[i]
            /\ Lines(header, p[i], n, "upscope") \in Nat
            /\ Lines(header, p[i], n, "scope") = Lines(header, p[i], n, "upscope") + (m - i)
            /\ Lines(header', p[i], n + 1, "scope") = Lines(header, p[i], n, "scope")
            /\ Lines(header', p[i], n + 1, "upscope") = Lines(header, p[i], n, "upscope")
      /\ Opened(header', n + 2) = {i \in Opened(header, n + 1) :
                                     Lines(header', i, n + 1, "upscope") <= Lines(header', i, n + 1, "scope")}
  <2> HIDE DEF line
  <2>1. LineAdded(header, header', scopes, p, n, line)
    BY <1>1, <1>2, StackGrows DEF line
  <2> HIDE DEF m
  <2>2. ASSUME NEW i \in 1..m
        PROVE  /\ Lines(header, p[i], n, "scope") + 0 = Lines(header, p[i], n, "scope")
               /\ Lines(header, p[i], n, "upscope") + 0 = Lines(header, p[i], n, "upscope")
    BY <2>1 DEF LineAdded, m
  <2> QED
    BY <1>2, <2>1, <2>2 DEF LineAdded, m
<1> HIDE DEF m, line
<1>4. ASSUME NEW i \in Opened(header, n + 1) PROVE Lines(header', i, n + 1, "upscope") <= Lines(header', i, n + 1, "scope")
  <2>1. PICK k \in 1..m : p[k] = i
    BY <1>3 DEF Enumerates
  <2>2. /\ Lines(header, p[k], n, "upscope") \in Nat
        /\ Lines(header, p[k], n, "scope") = Lines(header, p[k], n, "upscope") + (m - k)
        /\ Lines(header', p[k], n + 1, "scope") = Lines(header, p[k], n, "scope")
        /\ Lines(header', p[k], n + 1, "upscope") = Lines(header, p[k], n, "upscope")
    BY <1>3
  <2>3. Lines(header', p[k], n + 1, "upscope") <= Lines(header', p[k], n + 1, "scope")
    BY <1>3, <2>2
  <2> QED
    BY <2>1, <2>3
<1>5. Opened(header', n + 2) = Opened(header, n + 1)
  BY <1>3, <1>4
<1>6. Stack(header', scopes', p)
  <2>1. Len(header') + 1 = n + 2 /\ Len(scopes') = m /\ Len(header') = n + 1 /\ scopes' = scopes
    BY <1>3 DEF m
  <2>2. Enumerates(p, Len(scopes'), Opened(header', Len(header') + 1))
    BY <1>3, <1>5, <2>1
  <2>3. \A i \in 1..m :
          /\ header'[p[i]][2] = scopes'[i]
          /\ Lines(header', p[i], n + 1, "scope") = Lines(header', p[i], n + 1, "upscope") + (m - i)
    BY <1>3, <2>1
  <2>4. \A i \in 1..Len(scopes') :
          /\ header'[p[i]][2] = scopes'[i]
          /\ Lines(header', p[i], Len(header'), "scope") = Lines(header', p[i], Len(header'), "upscope") + (Len(scopes') - i)
    BY <2>1, <2>3
  <2> QED
    BY <2>2, <2>4 DEF Stack
<1> QED
  BY <1>6

Declaring(h, c) == {k \in DOMAIN h : h[k][1] = "var" /\ h[k][2] = c}

\* Every declared code is known by the path of its first declaration.
PathsKept ==
    /\ header \in Seq(HeaderLine)
    /\ \E p : Stack(header, scopes, p)
    /\ DOMAIN signals = Declared /\ Range(order) = Declared
    /\ IsInjective(order)
    /\ \A c \in Declared : signals[c].path = PathOf(c)

HeaderPaths ==
    /\ Declared = {c \in Codes : Declaring(header, c) # {}}
    /\ \A c : PathOf(c) = PathFrom(header, Min(Declaring(header, c)))

LEMMA HeaderRead == HeaderPaths
<1>1. \A k : OpenAt(k) = Opened(header, k)
  BY DEF OpenAt, Opened, Between, Lines
<1>2. \A k : PathAt(k) = PathFrom(header, k)
  BY <1>1 DEF PathAt, PathFrom
<1>3. \A c : Declarations(c) = Declaring(header, c)
  BY DEF Declarations, Declaring
<1>4. \A c : PathOf(c) = PathFrom(header, Min(Declaring(header, c)))
  BY <1>2, <1>3 DEF PathOf
<1>5. Declared = {c \in Codes : Declaring(header, c) # {}}
  BY <1>3 DEF Declared
<1> QED
  BY <1>4, <1>5 DEF HeaderPaths

LEMMA HeaderReadNext ==
    /\ Declared' = {c \in Codes : Declaring(header', c) # {}}
    /\ \A c : PathOf(c)' = PathFrom(header', Min(Declaring(header', c)))
<1>1. HeaderPaths'
  BY HeaderRead, PTL
<1> QED
  BY <1>1 DEF HeaderPaths

LEMMA DeclarationsGrow ==
    ASSUME NEW n \in Nat, NEW line, header \in Seq(HeaderLine), Len(header) = n,
           line \in HeaderLine, header' = Append(header, line), NEW c
    PROVE  /\ Declaring(header, c) \in SUBSET (1..n)
           /\ Declaring(header', c) = Declaring(header, c)
                                        \cup (IF line[1] = "var" /\ line[2] = c THEN {n + 1} ELSE {})
<1>1. /\ DOMAIN header = 1..n /\ DOMAIN header' = 1..(n + 1)
      /\ header'[n + 1] = line /\ Continues(header', header, n)
  BY LineAppended
<1>2. \A k \in 1..(n + 1) : k = n + 1 \/ k \in 1..n
  OBVIOUS
<1>3. \A k \in 1..n : k \in 1..(n + 1) /\ header'[k] = header[k]
  BY <1>1 DEF Continues
<1>4. n + 1 \in 1..(n + 1)
  OBVIOUS
<1> QED
  BY <1>1, <1>2, <1>3, <1>4 DEF Declaring

\* A code that was declared keeps its path, whatever line comes.
LEMMA PathsGrow ==
    ASSUME NEW n \in Nat, NEW line, header \in Seq(HeaderLine), Len(header) = n,
           line \in HeaderLine, header' = Append(header, line)
    PROVE  /\ Declared' = Declared \cup {c \in Codes : line[1] = "var" /\ line[2] = c}
           /\ \A c \in Declared : PathOf(c)' = PathOf(c)
           /\ \A c \in Codes \ Declared :
                 line[1] = "var" /\ line[2] = c => PathOf(c)' = PathFrom(header', n + 1)
<1>1. ASSUME NEW c
      PROVE  /\ Declaring(header, c) \in SUBSET (1..n)
             /\ Declaring(header', c) = Declaring(header, c)
                                          \cup (IF line[1] = "var" /\ line[2] = c THEN {n + 1} ELSE {})
  BY DeclarationsGrow
<1>2. /\ Declared = {c \in Codes : Declaring(header, c) # {}}
      /\ \A c : PathOf(c) = PathFrom(header, Min(Declaring(header, c)))
  BY HeaderRead DEF HeaderPaths
<1>3. /\ Declared' = {c \in Codes : Declaring(header', c) # {}}
      /\ \A c : PathOf(c)' = PathFrom(header', Min(Declaring(header', c)))
  BY HeaderReadNext
<1>4. Declared' = Declared \cup {c \in Codes : line[1] = "var" /\ line[2] = c}
  BY <1>1, <1>2, <1>3
<1>5. ASSUME NEW c \in Declared PROVE PathOf(c)' = PathOf(c)
  <2> DEFINE D == Declaring(header, c)
             E == Declaring(header', c)
             k == Min(D)
  <2>1. D # {} /\ D \in SUBSET (1..n) /\ (E = D \/ E = D \cup {n + 1})
    BY <1>1, <1>2
  <2> HIDE DEF D, E
  <2>2. k \in D /\ \A i \in D : k <= i
    <3>1. D \in SUBSET Nat
      BY <2>1
    <3> QED
      BY <2>1, <3>1, MinIsLeast
  <2> HIDE DEF k
  <2>3. k \in 1..n /\ k \in E /\ \A i \in E : k <= i
    <3>1. k \in 1..n /\ k \in E
      BY <2>1, <2>2
    <3>2. ASSUME NEW i \in E PROVE k <= i
      <4>1. i \in D \/ i = n + 1
        BY <2>1
      <4> QED
        BY <2>2, <3>1, <4>1
    <3> QED
      BY <3>1, <3>2
  <2>4. Min(E) \in E /\ \A i \in E : Min(E) <= i
    <3>1. E \in SUBSET Nat
      <4>1. D \cup {n + 1} \in SUBSET Nat /\ D \in SUBSET Nat
        BY <2>1
      <4> QED
        BY <2>1, <4>1
    <3> QED
      BY <2>3, <3>1, MinIsLeast
  <2>5. Min(E) = k
    <3>1. Min(E) <= k /\ k <= Min(E)
      BY <2>3, <2>4
    <3>2. Min(E) \in Nat /\ k \in Nat
      <4>1. \A i \in D \cup {n + 1} : i \in Nat
        BY <2>1
      <4> QED
        BY <2>1, <2>3, <2>4, <4>1
    <3> QED
      BY <3>1, <3>2
  <2>6. PathFrom(header', k) = PathFrom(header, k)
    BY <2>3, PathAtKept
  <2>7. PathOf(c) = PathFrom(header, k) /\ PathOf(c)' = PathFrom(header', Min(E))
    BY <1>2, <1>3 DEF k, D, E
  <2> QED
    BY <2>5, <2>6, <2>7
<1>6. ASSUME NEW c \in Codes \ Declared, line[1] = "var", line[2] = c
      PROVE  PathOf(c)' = PathFrom(header', n + 1)
  <2>1. Declaring(header', c) = {n + 1}
    BY <1>1, <1>2, <1>6
  <2>2. Min({n + 1}) = n + 1
    <3> DEFINE E == {n + 1}
    <3>1. E \in SUBSET Nat /\ E # {}
      OBVIOUS
    <3> HIDE DEF E
    <3>2. Min(E) \in E
      BY <3>1, MinIsLeast
    <3> QED
      BY <3>2 DEF E
  <2>3. PathOf(c)' = PathFrom(header', Min(Declaring(header', c)))
    BY <1>3
  <2> QED
    BY <2>1, <2>2, <2>3
<1> QED
  BY <1>4, <1>5, <1>6

\* A line that declares nothing new.
LEMMA PathsKeptByLine ==
    ASSUME PathsKept, TypeOK, NEW line \in HeaderLine, header' = Append(header, line),
           \A c \in Codes \ Declared : ~(line[1] = "var" /\ line[2] = c),
           UNCHANGED <<signals, order>>, (\E p : Stack(header, scopes, p))'
    PROVE  PathsKept'
<1> DEFINE n == Len(header)
<1>1. header \in Seq(HeaderLine) /\ n \in Nat /\ Len(header) = n
  BY DEF PathsKept
<1> HIDE DEF n
<1>2. header' \in Seq(HeaderLine)
  BY <1>1, LineAppended
<1>3. /\ Declared' = Declared \cup {c \in Codes : line[1] = "var" /\ line[2] = c}
      /\ \A c \in Declared : PathOf(c)' = PathOf(c)
  BY <1>1, PathsGrow
<1>4. Declared' = Declared
  BY <1>3 DEF Declared
<1>5. \A c \in Declared : signals'[c].path = PathOf(c)'
  BY <1>3 DEF PathsKept
<1>6. DOMAIN signals' = Declared' /\ Range(order') = Declared' /\ IsInjective(order')
  BY <1>4 DEF PathsKept
<1> QED
  BY <1>2, <1>4, <1>5, <1>6 DEF PathsKept

LEMMA PathsKeptByScope ==
    ASSUME PathsKept, TypeOK, NEW name \in ScopeNames, ReadScope(name)
    PROVE  PathsKept'
<1> DEFINE line == <<"scope", name>>
<1>1. line \in HeaderLine /\ line[1] # "var"
  BY DEF HeaderLine
<1>2. /\ header' = Append(header, line) /\ scopes' = Append(scopes, name)
      /\ UNCHANGED <<signals, order>>
  BY DEF ReadScope, MoreHeader
<1>3. (\E p : Stack(header, scopes, p))'
  <2>1. /\ header \in Seq(HeaderLine) /\ Len(header) \in Nat /\ scopes \in Seq(ScopeNames)
        /\ \E p : Stack(header, scopes, p)
    BY DEF PathsKept, TypeOK
  <2> QED
    BY <1>2, <2>1, StackAfterScope
<1> HIDE DEF line
<1> QED
  BY <1>1, <1>2, <1>3, PathsKeptByLine

LEMMA PathsKeptByUpscope ==
    ASSUME PathsKept, TypeOK, ReadUpscope
    PROVE  PathsKept'
<1> DEFINE line == <<"upscope">>
<1>1. line \in HeaderLine /\ line[1] # "var"
  BY DEF HeaderLine
<1>2. /\ header' = Append(header, line)
      /\ scopes' = IF scopes = <<>> THEN scopes ELSE Front(scopes)
      /\ UNCHANGED <<signals, order>>
  BY DEF ReadUpscope, MoreHeader
<1>3. (\E p : Stack(header, scopes, p))'
  <2>1. /\ header \in Seq(HeaderLine) /\ Len(header) \in Nat /\ scopes \in Seq(ScopeNames)
        /\ \E p : Stack(header, scopes, p)
    BY DEF PathsKept, TypeOK
  <2> QED
    BY <1>2, <2>1, StackAfterUpscope
<1> HIDE DEF line
<1> QED
  BY <1>1, <1>2, <1>3, PathsKeptByLine

LEMMA PathsKeptByVar ==
    ASSUME PathsKept, TypeOK, NEW c \in Codes, NEW name \in SignalNames, ReadVar(c, name)
    PROVE  PathsKept'
<1> DEFINE line == <<"var", c, name>>
           n == Len(header)
<1>1. line \in HeaderLine /\ line[1] = "var" /\ line[2] = c
  BY DEF HeaderLine
<1>2. header' = Append(header, line) /\ scopes' = scopes
  BY DEF ReadVar, MoreHeader
<1>3. /\ header \in Seq(HeaderLine) /\ n \in Nat /\ Len(header) = n /\ scopes \in Seq(ScopeNames)
      /\ \E p : Stack(header, scopes, p)
  BY DEF PathsKept, TypeOK
<1>4. (\E p : Stack(header, scopes, p))'
  BY <1>2, <1>3, StackAfterVar
<1>5. CASE c \in DOMAIN signals
  <2>1. UNCHANGED <<signals, order>>
    BY <1>5 DEF ReadVar
  <2>2. c \in Declared
    BY <1>5 DEF PathsKept
  <2> HIDE DEF line
  <2> QED
    BY <1>1, <1>2, <1>4, <2>1, <2>2, PathsKeptByLine
<1>6. CASE c \notin DOMAIN signals
  <2>1. /\ c \notin Declared /\ DOMAIN signals = Declared /\ Range(order) = Declared /\ IsInjective(order)
        /\ \A d \in Declared : signals[d].path = PathOf(d)
    BY <1>6 DEF PathsKept
  <2>2. /\ signals' = [d \in DOMAIN signals \cup {c} |->
                         IF d = c THEN Fresh(Append(scopes, name)) ELSE signals[d]]
        /\ order' = Append(order, c)
    BY <1>6 DEF ReadVar
  <2>3. PathFrom(header', n + 1) = Append(scopes, name)
    <3>1. PICK p : Stack(header, scopes, p)
      BY <1>3
    <3> HIDE DEF n
    <3> QED
      BY <1>1, <1>2, <1>3, <3>1, PathIsStack
  <2> HIDE DEF line, n
  <2>4. header' \in Seq(HeaderLine)
    BY <1>1, <1>2, <1>3, LineAppended
  <2>5. /\ Declared' = Declared \cup {d \in Codes : line[1] = "var" /\ line[2] = d}
        /\ \A d \in Declared : PathOf(d)' = PathOf(d)
        /\ \A d \in Codes \ Declared :
              line[1] = "var" /\ line[2] = d => PathOf(d)' = PathFrom(header', n + 1)
    BY <1>1, <1>2, <1>3, PathsGrow
  <2>6. Declared' = Declared \cup {c} /\ PathOf(c)' = Append(scopes, name)
    BY <1>1, <2>1, <2>3, <2>5
  <2>7. DOMAIN signals' = Declared'
    BY <2>1, <2>2, <2>6
  <2>8. ASSUME NEW d \in Declared' PROVE signals'[d].path = PathOf(d)'
    <3>1. CASE d = c
      BY <2>2, <2>6, <3>1 DEF Fresh
    <3>2. CASE d # c
      <4>1. d \in Declared /\ signals'[d] = signals[d]
        BY <2>1, <2>2, <2>6, <3>2
      <4> QED
        BY <2>1, <2>5, <4>1
    <3> QED
      BY <3>1, <3>2
  <2>9. Range(order') = Declared' /\ IsInjective(order')
    <3>1. order \in Seq(Codes)
      BY DEF TypeOK
    <3>2. /\ DOMAIN order = 1..Len(order) /\ DOMAIN order' = 1..(Len(order) + 1) /\ Len(order) \in Nat
          /\ order'[Len(order) + 1] = c
          /\ \A i \in 1..Len(order) : order'[i] = order[i]
      BY <2>2, <3>1
    <3> DEFINE k == Len(order)
    <3> HIDE DEF k
    <3>3. \A i \in 1..(k + 1) : i = k + 1 \/ i \in 1..k
      BY <3>2 DEF k
    <3>4. \A i \in 1..k : order[i] \in Declared /\ order[i] # c /\ i \in 1..(k + 1)
      BY <2>1, <3>2 DEF Range, k
    <3>5. \A d \in Declared : \E i \in 1..k : order[i] = d
      BY <2>1, <3>2 DEF Range, k
    <3>6. k + 1 \in 1..(k + 1)
      BY <3>2 DEF k
    <3>7. \A i, j \in 1..k : order[i] = order[j] => i = j
      BY <2>1, <3>2 DEF IsInjective, k
    <3>8. /\ DOMAIN order' = 1..(k + 1) /\ order'[k + 1] = c
          /\ \A i \in 1..k : order'[i] = order[i]
      BY <3>2 DEF k
    <3>9. IsInjective(order')
      BY <3>3, <3>4, <3>7, <3>8 DEF IsInjective
    <3>10. Range(order') = Declared \cup {c}
      BY <3>3, <3>4, <3>5, <3>6, <3>8 DEF Range
    <3> QED
      BY <2>6, <3>9, <3>10
  <2> QED
    BY <1>4, <2>4, <2>7, <2>8, <2>9 DEF PathsKept
<1> QED
  BY <1>5, <1>6

\* A value changes no path.
LEMMA PathsKeptByValues ==
    ASSUME PathsKept, UNCHANGED <<scopes, order, header>>, DOMAIN signals' = DOMAIN signals,
           \A c \in DOMAIN signals : signals'[c].path = signals[c].path
    PROVE  PathsKept'
<1>1. Declared' = Declared
  BY DEF Declared, Declarations
<1>2. \A c : PathOf(c)' = PathOf(c)
  BY DEF PathOf, PathAt, OpenAt, Between, Declarations
<1>3. \A c \in Declared : signals'[c].path = PathOf(c)'
  BY <1>2 DEF PathsKept
<1>4. (\E p : Stack(header, scopes, p))' <=> \E p : Stack(header, scopes, p)
  OBVIOUS
<1> QED
  BY <1>1, <1>3, <1>4 DEF PathsKept

LEMMA CountedPath ==
    ASSUME TypeOK, NEW c \in DOMAIN signals, NEW v, signals' = [signals EXCEPT ![c] = Counted(c, v)]
    PROVE  /\ DOMAIN signals' = DOMAIN signals
           /\ \A d \in DOMAIN signals : signals'[d].path = signals[d].path
<1>1. signals[c] \in Signal
  BY DEF TypeOK
<1>2. Counted(c, v).path = signals[c].path
  BY <1>1 DEF Counted, Signal
<1> QED
  BY <1>2

LEMMA StepKeepsPaths == VcdAssumption /\ TypeOK /\ PathsKept /\ [Next]_vars => PathsKept'
<1> SUFFICES ASSUME VcdAssumption, TypeOK, PathsKept, [Next]_vars PROVE PathsKept'
  OBVIOUS
<1>1. ASSUME UNCHANGED <<scopes, order, header, signals>> PROVE PathsKept'
  BY <1>1, PathsKeptByValues
<1>2. ASSUME NEW n \in ScopeNames, ReadScope(n) PROVE PathsKept'
  BY <1>2, PathsKeptByScope
<1>3. CASE ReadUpscope
  BY <1>3, PathsKeptByUpscope
<1>4. ASSUME NEW c \in Codes, NEW n \in SignalNames, ReadVar(c, n) PROVE PathsKept'
  BY <1>4, PathsKeptByVar
<1>5. CASE EndDefinitions
  BY <1>1, <1>5 DEF EndDefinitions, lines
<1>6. CASE ReadTime
  BY <1>1, <1>6 DEF ReadTime, MoreBody
<1>7. ASSUME NEW c \in Codes, NEW v \in ValuesOf[c], ReadChange(c, v) PROVE PathsKept'
  <2>1. /\ c \in DOMAIN signals /\ signals' = [signals EXCEPT ![c] = Counted(c, v)]
        /\ UNCHANGED <<scopes, order, header>>
    BY <1>7 DEF ReadChange, Writable, MoreBody
  <2> QED
    BY <2>1, CountedPath, PathsKeptByValues
<1>8. ASSUME NEW c \in Codes, NEW v \in ValuesOf[c], CutChange(c, v) PROVE PathsKept'
  <2>1. UNCHANGED <<scopes, order, header>>
    BY <1>8 DEF CutChange, MoreBody
  <2>2. CASE UNCHANGED signals
    BY <1>1, <2>1, <2>2
  <2>3. ASSUME NEW d \in CutTo[c] \cap DOMAIN signals, signals' = [signals EXCEPT ![d] = Counted(d, v)]
        PROVE  PathsKept'
    BY <2>1, <2>3, CountedPath, PathsKeptByValues
  <2> QED
    BY <1>8, <2>2, <2>3 DEF CutChange
<1>9. CASE CutTime
  BY <1>1, <1>9 DEF CutTime, MoreBody
<1>10. CASE WriteOutputs
  BY <1>1, <1>10 DEF WriteOutputs, reader, lines
<1>11. CASE UNCHANGED vars
  BY <1>1, <1>11 DEF vars, reader, lines
<1> QED
  BY <1>2, <1>3, <1>4, <1>5, <1>6, <1>7, <1>8, <1>9, <1>10, <1>11 DEF Next

LEMMA InitKeepsPaths == Init => PathsKept
<1> SUFFICES ASSUME Init PROVE PathsKept
  OBVIOUS
<1>1. header = <<>> /\ scopes = <<>> /\ signals = <<>> /\ order = <<>>
  BY DEF Init
<1>2. Declared = {}
  BY <1>1 DEF Declared, Declarations
<1>3. Stack(header, scopes, <<>>)
  <2>1. Opened(header, Len(header) + 1) = {} /\ Len(scopes) = 0 /\ 1..Len(scopes) = {}
    BY <1>1 DEF Opened
  <2>2. Enumerates(<<>>, 0, {})
    BY DEF Enumerates
  <2> QED
    BY <2>1, <2>2 DEF Stack
<1>4. DOMAIN signals = {} /\ Range(order) = {} /\ IsInjective(order)
  BY <1>1 DEF Range, IsInjective
<1>5. header \in Seq(HeaderLine)
  BY <1>1
<1> QED
  BY <1>2, <1>3, <1>4, <1>5 DEF PathsKept

\* Every net is known by the path of its first declaration, whatever the header
\* nests and declares again: the scope stack and setdefault of iter_vcd.
THEOREM PathsAlwaysMatchHeader == Spec => []PathsMatchHeader
<1>1. TypeOK /\ PathsKept /\ [Next]_vars => PathsKept'
  BY StepKeepsPaths, VcdAssumption
<1>2. PathsKept => PathsMatchHeader
  BY DEF PathsKept, PathsMatchHeader
<1> QED
  BY <1>1, <1>2, InitKeepsPaths, ExtractorTypeCorrect, PTL DEF Spec

-----------------------------------------------------------------------------
(* The signal table.                                                        *)

LEMMA KeptParts ==
    ASSUME TypeOK, PathsKept
    PROVE  /\ Kept \in Seq(Codes) /\ IsInjective(Kept) /\ Range(Kept) = Reported
           /\ IsFiniteSet(Reported) /\ Cardinality(Reported) = Len(Kept)
           /\ Reported \subseteq DOMAIN signals
<1> DEFINE I == {i \in DOMAIN order : ~(ExcludeClocks /\ IsClock(signals[order[i]].path))}
           n == Len(order)
           m == Cardinality(I)
<1>1. /\ order \in Seq(Codes) /\ n \in Nat /\ DOMAIN order = 1..n
      /\ DOMAIN signals = Declared /\ Range(order) = Declared /\ IsInjective(order)
      /\ \A c \in Declared : signals[c].path = PathOf(c)
  BY DEF TypeOK, PathsKept
<1>2. I \in SUBSET (1..n)
  BY <1>1
<1>3. \A i \in 1..n : order[i] \in Declared /\ (i \in I <=> order[i] \in Reported)
  <2> TAKE i \in 1..n
  <2>1. order[i] \in Declared
    BY <1>1 DEF Range
  <2>2. signals[order[i]].path = PathOf(order[i])
    BY <1>1, <2>1
  <2> QED
    BY <1>1, <2>1, <2>2 DEF Reported
<1>4. \A c \in Reported : \E i \in I : order[i] = c
  <2> TAKE c \in Reported
  <2>1. PICK i \in 1..n : order[i] = c
    BY <1>1 DEF Reported, Range
  <2> QED
    BY <1>3, <2>1
<1>5. Kept = Picked(order, I)
  BY DEF Kept
<1>6. m \in Nat
  <2> HIDE DEF n, I
  <2> QED
    BY <1>1, <1>2, PositionsEnumerated
<1>7. PICK p : Enumerates(p, m, I)
  <2> HIDE DEF n, I
  <2> QED
    BY <1>1, <1>2, PositionsEnumerated DEF m
<1> HIDE DEF I, n, m
<1>8. Kept = [k \in 1..m |-> order[p[k]]]
  <2>1. I \in SUBSET Nat
    BY <1>2
  <2>2. ASSUME NEW u PROVE Picked(u, I) = [k \in 1..m |-> u[p[k]]]
    BY <1>6, <1>7, <2>1, PickedUnique
  <2> QED
    BY <1>5, <2>2
<1>9. /\ \A k \in 1..m : p[k] \in I /\ p[k] \in 1..n
      /\ \A i, j \in 1..m : i < j => p[i] < p[j]
      /\ \A i \in I : \E k \in 1..m : p[k] = i
  BY <1>2, <1>7 DEF Enumerates
<1> DEFINE t == [k \in 1..m |-> order[p[k]]]
<1>10. ASSUME NEW k \in 1..m PROVE t[k] \in Reported /\ t[k] \in Codes
  BY <1>3, <1>9 DEF Reported, Declared
<1>11. ASSUME NEW i \in 1..m, NEW j \in 1..m, t[i] = t[j] PROVE i = j
  <2>1. p[i] = p[j]
    BY <1>1, <1>9, <1>11 DEF IsInjective
  <2>2. ~(i < j) /\ ~(j < i)
    <3>1. p[i] \in Int /\ p[j] \in Int
      BY <1>9
    <3> QED
      BY <1>9, <2>1, <3>1
  <2> QED
    BY <1>6, <2>2
<1>12. ASSUME NEW c \in Reported PROVE \E k \in 1..m : t[k] = c
  <2>1. PICK i \in I : order[i] = c
    BY <1>4
  <2>2. PICK k \in 1..m : p[k] = i
    BY <1>9
  <2> QED
    BY <2>1, <2>2
<1>13. DOMAIN t = 1..m /\ t \in [1..m -> Codes] /\ t \in [1..m -> Reported]
  BY <1>10
<1> HIDE DEF t
<1>14. t \in Seq(Codes) /\ Len(t) = m
  BY <1>6, <1>13
<1>15. IsInjective(t)
  BY <1>11, <1>13 DEF IsInjective
<1>16. Range(t) = Reported
  BY <1>10, <1>12, <1>13 DEF Range
<1>17. IsFiniteSet(Reported) /\ Cardinality(Reported) = m
  <2>1. t \in Bijection(1..m, Reported)
    BY <1>11, <1>12, <1>13 DEF Bijection, Injection, Surjection, IsInjective
  <2>2. ExistsBijection(1..m, Reported)
    BY <2>1 DEF ExistsBijection
  <2>3. IsFiniteSet(1..m) /\ Cardinality(1..m) = m
    BY <1>6, FS_Interval
  <2> QED
    BY <2>2, <2>3, FS_Bijection
<1>18. Kept = t
  BY <1>8 DEF t
<1>19. Reported \subseteq DOMAIN signals
  BY <1>1 DEF Reported
<1> QED
  BY <1>14, <1>15, <1>16, <1>17, <1>18, <1>19

\* The busiest first, equal ones in the order they are given.
LEMMA BusiestParts ==
    ASSUME TypeOK, NEW codes \in Seq(Codes), IsInjective(codes), Range(codes) \subseteq DOMAIN signals,
           VcdAssumption
    PROVE  /\ Busiest(codes) \in Seq(Codes)
           /\ IsInjective(Busiest(codes)) /\ Range(Busiest(codes)) \subseteq Range(codes)
           /\ Len(Busiest(codes)) = IF TopSignals = 0 THEN Len(codes) ELSE Min({TopSignals, Len(codes)})
           /\ \A i \in DOMAIN Busiest(codes) : \A c \in Range(codes) :
                signals[c].toggles > signals[Busiest(codes)[i]].toggles
                  => \E j \in 1..(i - 1) : Busiest(codes)[j] = c
<1> DEFINE count(i) == signals[codes[i]].toggles
           S == DOMAIN codes
           before == {p \in S \X S : \/ count(p[1]) > count(p[2])
                                     \/ count(p[1]) = count(p[2]) /\ p[1] < p[2]}
           rank == Ordered(S, before)
           m == Len(codes)
           n == IF TopSignals = 0 THEN m ELSE Min({TopSignals, m})
           r == [k \in 1..n |-> codes[rank[k]]]
<1>1. /\ m \in Nat /\ S = 1..m /\ TopSignals \in Nat
      /\ \A i \in S : codes[i] \in Codes /\ codes[i] \in DOMAIN signals
  BY DEF VcdAssumption, Range
<1>2. \A i \in S : count(i) \in Nat
  <2>1. \A c \in DOMAIN signals : signals[c].toggles \in Nat
    BY DEF TypeOK, Signal
  <2> QED
    BY <1>1, <2>1
<1>3. \A i, j \in S : <<i, j>> \in before <=> \/ count(i) > count(j)
                                              \/ count(i) = count(j) /\ i < j
  OBVIOUS
<1>4. n \in 0..m
  <2>1. CASE TopSignals # 0
    <3> DEFINE T == {TopSignals, m}
    <3>1. T \in SUBSET Nat /\ T # {}
      BY <1>1
    <3> HIDE DEF T
    <3>2. Min(T) \in T /\ \A i \in T : Min(T) <= i
      BY <3>1, MinIsLeast
    <3>3. m \in T
      BY DEF T
    <3>4. Min(T) \in Nat /\ Min(T) <= m
      BY <3>1, <3>2, <3>3
    <3>5. n = Min(T)
      BY <2>1 DEF T
    <3> HIDE DEF n, m
    <3> QED
      BY <1>1, <3>4, <3>5
  <2> QED
    BY <1>1, <2>1
<1>5. Busiest(codes) = r
  BY DEF Busiest
<1> HIDE DEF n, m
<1>6. IsFiniteSet(S) /\ Cardinality(S) = m
  BY <1>1, FS_Interval
<1>7. IsOrder(before, S)
  <2> HIDE DEF before, count, S
  <2>1. \A x, y \in S : x # y => <<x, y>> \in before \/ <<y, x>> \in before
    BY <1>1, <1>2, <1>3
  <2>2. \A x \in S : <<x, x>> \notin before
    BY <1>1, <1>2, <1>3
  <2>3. \A x, y, z \in S : <<x, y>> \in before /\ <<y, z>> \in before => <<x, z>> \in before
    BY <1>1, <1>2, <1>3
  <2> QED
    BY <2>1, <2>2, <2>3 DEF IsOrder
<1> HIDE DEF before, count, S
<1>8. /\ rank \in [1..m -> S]
      /\ \A i, j \in 1..m : i < j => <<rank[i], rank[j]>> \in before
      /\ \A x \in S : \E k \in 1..m : rank[k] = x
  BY <1>6, <1>7, OrderedParts
<1> HIDE DEF rank
<1>9. \A k \in 1..n : k \in 1..m /\ rank[k] \in S
  BY <1>1, <1>4, <1>8
<1>10. DOMAIN r = 1..n /\ \A k \in 1..n : r[k] = codes[rank[k]]
  OBVIOUS
<1>11. r \in [1..n -> Codes]
  BY <1>1, <1>9
<1> HIDE DEF r
<1>12. r \in Seq(Codes) /\ Len(r) = n
  BY <1>4, <1>11
<1>13. ASSUME NEW i \in 1..n, NEW j \in 1..n, r[i] = r[j] PROVE i = j
  <2>1. rank[i] = rank[j]
    BY <1>9, <1>10, <1>13 DEF IsInjective, S
  <2>2. <<rank[i], rank[j]>> \notin before /\ <<rank[j], rank[i]>> \notin before
    BY <1>7, <1>9, <2>1 DEF IsOrder
  <2>3. ~(i < j) /\ ~(j < i)
    BY <1>8, <1>9, <2>2
  <2> QED
    BY <1>4, <2>3
<1>14. IsInjective(r)
  BY <1>10, <1>13 DEF IsInjective
<1>15. Range(r) \subseteq Range(codes)
  BY <1>9, <1>10 DEF Range, S
<1>16. ASSUME NEW i \in 1..n, NEW c \in Range(codes), signals[c].toggles > signals[r[i]].toggles
       PROVE  \E j \in 1..(i - 1) : r[j] = c
  <2>1. PICK x \in S : codes[x] = c
    BY DEF Range, S
  <2>2. PICK j \in 1..m : rank[j] = x
    BY <1>8
  <2>3. count(x) > count(rank[i]) /\ rank[i] \in S /\ i \in 1..m
    BY <1>9, <1>10, <1>16, <2>1 DEF count
  <2>4. <<rank[i], x>> \notin before /\ x # rank[i]
    BY <1>2, <1>3, <2>3
  <2>5. ~(i < j) /\ j # i
    BY <1>8, <2>2, <2>3, <2>4
  <2>6. j \in 1..(i - 1) /\ j \in 1..n
    BY <1>1, <1>4, <2>5
  <2> QED
    BY <1>10, <2>1, <2>2, <2>6
<1> QED
  BY <1>5, <1>10, <1>12, <1>14, <1>15, <1>16 DEF n, m

LEMMA StepListsBusiest ==
    VcdAssumption /\ TypeOK /\ PathsKept /\ BusiestListed /\ [Next]_vars => BusiestListed'
<1> SUFFICES ASSUME VcdAssumption, TypeOK, PathsKept, BusiestListed, [Next]_vars PROVE BusiestListed'
  OBVIOUS
<1>1. CASE WriteOutputs
  <2>1. rows' = Busiest(Kept) /\ UNCHANGED <<signals, header, order>>
    BY <1>1 DEF WriteOutputs, reader, lines
  <2>2. Reported' = Reported
    BY <2>1 DEF Reported, Declared, PathOf, PathAt, OpenAt, Between, Declarations
  <2>3. /\ Kept \in Seq(Codes) /\ IsInjective(Kept) /\ Range(Kept) = Reported
        /\ Cardinality(Reported) = Len(Kept) /\ Reported \subseteq DOMAIN signals
    BY KeptParts
  <2> DEFINE codes == Kept
  <2> HIDE DEF codes
  <2>4. codes \in Seq(Codes) /\ IsInjective(codes) /\ Range(codes) \subseteq DOMAIN signals
    BY <2>3 DEF codes
  <2>5. /\ IsInjective(Busiest(codes)) /\ Range(Busiest(codes)) \subseteq Range(codes)
        /\ Len(Busiest(codes)) = IF TopSignals = 0 THEN Len(codes) ELSE Min({TopSignals, Len(codes)})
        /\ \A i \in DOMAIN Busiest(codes) : \A c \in Range(codes) :
             signals[c].toggles > signals[Busiest(codes)[i]].toggles
               => \E j \in 1..(i - 1) : Busiest(codes)[j] = c
    BY <2>4, BusiestParts
  <2>6. rows' = Busiest(codes) /\ Range(codes) = Reported /\ Cardinality(Reported) = Len(codes)
    BY <2>1, <2>3 DEF codes
  <2>7. /\ IsInjective(rows') /\ Range(rows') \subseteq Reported
        /\ Len(rows') = IF TopSignals = 0 THEN Cardinality(Reported)
                        ELSE Min({TopSignals, Cardinality(Reported)})
        /\ \A i \in DOMAIN rows' : \A c \in Reported :
             signals[c].toggles > signals[rows'[i]].toggles => \E j \in 1..(i - 1) : rows'[j] = c
    BY <2>5, <2>6
  <2> QED
    BY <2>1, <2>2, <2>7 DEF BusiestListed
<1>2. CASE ~written'
  BY <1>2 DEF BusiestListed
<1>3. CASE UNCHANGED vars
  <2>1. UNCHANGED <<written, rows, signals, header>>
    BY <1>3 DEF vars, reader, tables, lines
  <2>2. Reported' = Reported
    BY <2>1 DEF Reported, Declared, PathOf, PathAt, OpenAt, Between, Declarations
  <2> QED
    BY <2>1, <2>2 DEF BusiestListed
<1>4. \/ WriteOutputs \/ ~written' \/ UNCHANGED vars
  BY DEF Next, ReadScope, ReadUpscope, ReadVar, MoreHeader, EndDefinitions, ReadTime, ReadChange,
         CutChange, CutTime, MoreBody, tables
<1> QED
  BY <1>1, <1>2, <1>3, <1>4

\* The signal table lists the busiest reported nets, as many as top_signals
\* allows, none of them twice: the sort and the cut of write_outputs.
THEOREM BusiestAlwaysListed == Spec => []BusiestListed
<1>1. TypeOK /\ PathsKept /\ BusiestListed /\ [Next]_vars => BusiestListed'
  BY StepListsBusiest, VcdAssumption
<1>2. Init => BusiestListed
  BY DEF Init, BusiestListed
<1>3. Spec => []PathsKept
  <2>1. TypeOK /\ PathsKept /\ [Next]_vars => PathsKept'
    BY StepKeepsPaths, VcdAssumption
  <2> QED
    BY <2>1, InitKeepsPaths, ExtractorTypeCorrect, PTL DEF Spec
<1> QED
  BY <1>1, <1>2, <1>3, ExtractorTypeCorrect, PTL DEF Spec

-----------------------------------------------------------------------------
(* Sums.  SumFunction adds up a set in whatever order CHOOSE takes it; what *)
(* it gives follows from the smallest set on which it would not.            *)

Picks(s) == CHOOSE y \in s : TRUE

\* The sums of f over the subsets of S, and over those of at most k elements.
Sums(g, f, S) == g = [s \in SUBSET S |-> IF s = {} THEN 0 ELSE f[Picks(s)] + g[s \ {Picks(s)}]]

Small(S, k) == {s \in SUBSET S : Cardinality(s) <= k}

SmallSums(g, f, S, k) ==
    g = [s \in Small(S, k) |-> IF s = {} THEN 0 ELSE f[Picks(s)] + g[s \ {Picks(s)}]]

LEMMA SumUnfolds ==
    ASSUME NEW f
    PROVE  SumFunction(f) = (CHOOSE g : Sums(g, f, DOMAIN f))[DOMAIN f]
BY Zenon DEF SumFunction, SumFunctionOnSet, FoldFunctionOnSet, MapThenFoldSet, Sums, Picks

LEMMA SubsetsFinite ==
    ASSUME NEW S, IsFiniteSet(S), NEW s \in SUBSET S
    PROVE  /\ IsFiniteSet(s) /\ Cardinality(s) \in Nat /\ Cardinality(s) <= Cardinality(S)
           /\ s = {} <=> Cardinality(s) = 0
           /\ \A x \in s : IsFiniteSet(s \ {x}) /\ Cardinality(s \ {x}) = Cardinality(s) - 1
<1>1. IsFiniteSet(s) /\ Cardinality(s) <= Cardinality(S)
  BY FS_Subset
<1>2. Cardinality(s) \in Nat
  BY <1>1, FS_CardinalityType
<1>3. s = {} <=> Cardinality(s) = 0
  BY <1>1, FS_EmptySet
<1>4. ASSUME NEW x \in s PROVE IsFiniteSet(s \ {x}) /\ Cardinality(s \ {x}) = Cardinality(s) - 1
  BY <1>1, FS_RemoveElement
<1> QED
  BY <1>1, <1>2, <1>3, <1>4

LEMMA SmallSumsExist ==
    ASSUME NEW S, IsFiniteSet(S), NEW f, NEW k \in Nat
    PROVE  \E g : SmallSums(g, f, S, k)
<1> DEFINE Bad == {j \in Nat : ~\E g : SmallSums(g, f, S, j)}
<1>1. SUFFICES ASSUME Bad # {} PROVE FALSE
  OBVIOUS
<1> DEFINE m == Min(Bad)
<1>2. m \in Bad /\ \A j \in Bad : m <= j
  <2>1. Bad \in SUBSET Nat
    OBVIOUS
  <2> HIDE DEF Bad
  <2> QED
    BY <1>1, <2>1, MinIsLeast
<1> HIDE DEF m
<1>3. m \in Nat /\ ~\E g : SmallSums(g, f, S, m)
  BY <1>2
<1>4. CASE m = 0
  <2> DEFINE g == [s \in Small(S, 0) |-> 0]
  <2>1. ASSUME NEW s \in Small(S, 0) PROVE s = {}
    <3>1. s \in SUBSET S /\ Cardinality(s) <= 0
      BY DEF Small
    <3> QED
      BY <3>1, SubsetsFinite
  <2>2. g = [s \in Small(S, 0) |-> IF s = {} THEN 0 ELSE f[Picks(s)] + g[s \ {Picks(s)}]]
    BY <2>1
  <2>3. SmallSums(g, f, S, 0)
    <3> HIDE DEF g
    <3> QED
      BY <2>2 DEF SmallSums
  <2> QED
    BY <1>3, <1>4, <2>3
<1>5. CASE m # 0
  <2>1. m - 1 \in Nat /\ m - 1 \notin Bad
    BY <1>2, <1>3, <1>5
  <2>2. PICK g : SmallSums(g, f, S, m - 1)
    BY <2>1
  <2> DEFINE h == [s \in Small(S, m) |-> IF s = {} THEN 0 ELSE f[Picks(s)] + g[s \ {Picks(s)}]]
  <2>3. ASSUME NEW s \in Small(S, m - 1) PROVE h[s] = g[s]
    <3>1. g = [r \in Small(S, m - 1) |-> IF r = {} THEN 0 ELSE f[Picks(r)] + g[r \ {Picks(r)}]]
      BY <2>2 DEF SmallSums
    <3>2. g[s] = IF s = {} THEN 0 ELSE f[Picks(s)] + g[s \ {Picks(s)}]
      BY <3>1
    <3>3. s \in Small(S, m)
      <4>1. s \in SUBSET S /\ Cardinality(s) <= m - 1
        BY DEF Small
      <4>2. Cardinality(s) \in Nat
        BY <4>1, SubsetsFinite
      <4> QED
        BY <1>3, <4>1, <4>2 DEF Small
    <3> QED
      BY <3>2, <3>3
  <2>4. ASSUME NEW s \in Small(S, m), s # {} PROVE s \ {Picks(s)} \in Small(S, m - 1)
    <3>1. s \in SUBSET S /\ Cardinality(s) <= m
      BY DEF Small
    <3>2. Picks(s) \in s
      BY <2>4 DEF Picks
    <3>3. Cardinality(s) \in Nat /\ Cardinality(s \ {Picks(s)}) = Cardinality(s) - 1
      BY <3>1, <3>2, SubsetsFinite
    <3> QED
      BY <1>3, <3>1, <3>3 DEF Small
  <2>5. h = [s \in Small(S, m) |-> IF s = {} THEN 0 ELSE f[Picks(s)] + h[s \ {Picks(s)}]]
    <3> DEFINE e(s) == IF s = {} THEN 0 ELSE f[Picks(s)] + g[s \ {Picks(s)}]
               d(s) == IF s = {} THEN 0 ELSE f[Picks(s)] + h[s \ {Picks(s)}]
    <3>1. ASSUME NEW s \in Small(S, m) PROVE e(s) = d(s)
      BY <2>3, <2>4
    <3>2. h = [s \in Small(S, m) |-> e(s)]
      OBVIOUS
    <3> HIDE DEF e, h
    <3>3. h = [s \in Small(S, m) |-> d(s)]
      BY <3>1, <3>2, Zenon
    <3> QED
      BY <3>3 DEF d
  <2>6. SmallSums(h, f, S, m)
    <3> HIDE DEF h
    <3> QED
      BY <2>5 DEF SmallSums
  <2> QED
    BY <1>3, <2>6
<1> QED
  BY <1>4, <1>5

LEMMA SumsExist ==
    ASSUME NEW S, IsFiniteSet(S), NEW f
    PROVE  \E g : Sums(g, f, S)
<1> DEFINE k == Cardinality(S)
<1>1. k \in Nat
  BY FS_CardinalityType
<1>2. Small(S, k) = SUBSET S
  BY SubsetsFinite DEF Small
<1>3. PICK g : SmallSums(g, f, S, k)
  BY <1>1, SmallSumsExist
<1> HIDE DEF k
<1> QED
  BY <1>2, <1>3 DEF SmallSums, Sums

LEMMA SmallestSet ==
    ASSUME NEW S, IsFiniteSet(S), NEW B \in SUBSET (SUBSET S), B # {}
    PROVE  \E s \in B : \A r \in B : Cardinality(s) <= Cardinality(r)
<1> DEFINE sizes == {Cardinality(s) : s \in B}
<1>1. sizes \in SUBSET Nat /\ sizes # {}
  BY SubsetsFinite
<1>2. Min(sizes) \in sizes /\ \A i \in sizes : Min(sizes) <= i
  <2> HIDE DEF sizes
  <2> QED
    BY <1>1, MinIsLeast
<1> DEFINE least == Min(sizes)
<1> HIDE DEF least
<1>3. least \in sizes /\ \A i \in sizes : least <= i
  BY <1>2 DEF least
<1>4. PICK s \in B : Cardinality(s) = least
  BY <1>3
<1> QED
  BY <1>3, <1>4

\* Any element may be taken first.
AnyFirst(g, f, S) ==
    /\ g[{}] = 0
    /\ \A s \in SUBSET S : g[s] \in Nat /\ \A x \in s : g[s] = f[x] + g[s \ {x}]

LEMMA SumsTakeAny ==
    ASSUME NEW S, IsFiniteSet(S), NEW f \in [S -> Nat], NEW g, Sums(g, f, S)
    PROVE  AnyFirst(g, f, S)
<1>1. \A s \in SUBSET S : g[s] = IF s = {} THEN 0 ELSE f[Picks(s)] + g[s \ {Picks(s)}]
  <2>1. g = [s \in SUBSET S |-> IF s = {} THEN 0 ELSE f[Picks(s)] + g[s \ {Picks(s)}]]
    BY DEF Sums
  <2> QED
    BY <2>1
<1>2. \A x \in S : f[x] \in Nat
  OBVIOUS
<1>3. g[{}] = 0
  BY <1>1
<1>4. \A s \in SUBSET S : s # {} => Picks(s) \in s
  BY DEF Picks
<1> DEFINE Bad == {s \in SUBSET S : g[s] \notin Nat}
           Odd == {s \in SUBSET S : \E x \in s : g[s] # f[x] + g[s \ {x}]}
<1>5. Bad = {}
  <2>1. SUFFICES ASSUME Bad # {} PROVE FALSE
    OBVIOUS
  <2>2. PICK s \in Bad : \A r \in Bad : Cardinality(s) <= Cardinality(r)
    <3>1. Bad \in SUBSET (SUBSET S)
      OBVIOUS
    <3> HIDE DEF Bad
    <3> QED
      BY <2>1, <3>1, SmallestSet
  <2>3. s \in SUBSET S /\ s # {} /\ g[s] \notin Nat
    BY <1>3
  <2> DEFINE r == s \ {Picks(s)}
  <2>4. r \in SUBSET S /\ Cardinality(r) = Cardinality(s) - 1 /\ Cardinality(s) \in Nat /\ Picks(s) \in S
    BY <1>4, <2>3, SubsetsFinite
  <2>5. g[s] = f[Picks(s)] + g[r]
    BY <1>1, <2>3
  <2>6. r \notin Bad
    BY <2>2, <2>4
  <2> HIDE DEF r
  <2>7. g[r] \in Nat
    BY <2>4, <2>6
  <2> QED
    BY <1>2, <2>3, <2>4, <2>5, <2>7
<1>6. \A s \in SUBSET S : g[s] \in Nat
  BY <1>5
<1>7. Odd = {}
  <2>1. SUFFICES ASSUME Odd # {} PROVE FALSE
    OBVIOUS
  <2>2. PICK s \in Odd : \A r \in Odd : Cardinality(s) <= Cardinality(r)
    <3>1. Odd \in SUBSET (SUBSET S)
      OBVIOUS
    <3> HIDE DEF Odd
    <3> QED
      BY <2>1, <3>1, SmallestSet
  <2>3. PICK x \in s : g[s] # f[x] + g[s \ {x}]
    OBVIOUS
  <2> DEFINE y == Picks(s)
             sy == s \ {y}
             sx == s \ {x}
             sxy == sx \ {y}
  <2>4. s \in SUBSET S /\ s # {}
    OBVIOUS
  <2>5. y \in s /\ g[s] = f[y] + g[sy] /\ x # y
    <3>1. y \in s /\ g[s] = f[y] + g[sy]
      BY <1>1, <1>4, <2>4
    <3> HIDE DEF y
    <3> QED
      BY <2>3, <3>1
  <2> HIDE DEF y
  <2>6. /\ sy \in SUBSET S /\ sx \in SUBSET S /\ sxy \in SUBSET S
        /\ x \in sy /\ y \in sx /\ sy \ {x} = sxy /\ x \in S /\ y \in S
    BY <2>4, <2>5
  <2>7. sy \notin Odd /\ sx \notin Odd
    <3>1. /\ Cardinality(s) \in Nat /\ Cardinality(sy) = Cardinality(s) - 1
          /\ Cardinality(sx) = Cardinality(s) - 1
      BY <2>4, <2>5, SubsetsFinite
    <3> HIDE DEF Odd, sx, sy
    <3> QED
      BY <2>2, <3>1
  <2>8. g[sy] = f[x] + g[sy \ {x}]
    <3> HIDE DEF sy
    <3> QED
      BY <2>6, <2>7
  <2>9. g[sx] = f[y] + g[sx \ {y}]
    <3> HIDE DEF sx
    <3> QED
      BY <2>6, <2>7
  <2>10. g[sy] = f[x] + g[sxy] /\ g[sx] = f[y] + g[sxy] /\ g[sxy] \in Nat /\ f[x] \in Nat /\ f[y] \in Nat
    BY <1>2, <1>6, <2>6, <2>8, <2>9
  <2>11. g[s] = f[x] + g[sx]
    <3> HIDE DEF sx, sy, sxy
    <3> QED
      BY <2>5, <2>10
  <2> QED
    BY <2>3, <2>11
<1> HIDE DEF Bad
<1> QED
  BY <1>3, <1>6, <1>7 DEF AnyFirst

LEMMA SumsAgree ==
    ASSUME NEW S, IsFiniteSet(S), NEW f \in [S -> Nat], NEW g, Sums(g, f, S),
           NEW T, IsFiniteSet(T), NEW e \in [T -> Nat], NEW h, Sums(h, e, T),
           S \subseteq T, \A x \in S : f[x] = e[x]
    PROVE  \A s \in SUBSET S : g[s] = h[s]
<1> DEFINE Bad == {s \in SUBSET S : g[s] # h[s]}
<1>1. SUFFICES ASSUME Bad # {} PROVE FALSE
  OBVIOUS
<1>2. PICK s \in Bad : \A r \in Bad : Cardinality(s) <= Cardinality(r)
  <2>1. Bad \in SUBSET (SUBSET S)
    OBVIOUS
  <2> HIDE DEF Bad
  <2> QED
    BY <1>1, <2>1, SmallestSet
<1>3. s \in SUBSET S /\ s \in SUBSET T /\ g[s] # h[s]
  OBVIOUS
<1>4. AnyFirst(g, f, S) /\ AnyFirst(h, e, T)
  BY SumsTakeAny
<1>5. g[{}] = 0 /\ h[{}] = 0
  BY <1>4 DEF AnyFirst
<1>6. PICK x \in s : TRUE
  BY <1>3, <1>5
<1> DEFINE r == s \ {x}
<1>7. g[s] = f[x] + g[r] /\ h[s] = e[x] + h[r] /\ f[x] = e[x] /\ r \in SUBSET S
  <2>1. x \in S /\ r \in SUBSET S
    BY <1>3
  <2>2. g[s] = f[x] + g[r] /\ h[s] = e[x] + h[r]
    BY <1>3, <1>4 DEF AnyFirst
  <2> HIDE DEF r
  <2> QED
    BY <2>1, <2>2
<1>8. r \notin Bad
  <2>1. Cardinality(r) = Cardinality(s) - 1 /\ Cardinality(s) \in Nat
    BY <1>3, SubsetsFinite
  <2> HIDE DEF r, Bad
  <2> QED
    BY <1>2, <2>1
<1> QED
  BY <1>3, <1>7, <1>8

\* The sum of a sequence with one more number.
LEMMA SumGrows ==
    ASSUME NEW m \in Nat, NEW f \in [1..m -> Nat], NEW e \in [1..(m + 1) -> Nat],
           \A i \in 1..m : e[i] = f[i]
    PROVE  SumFunction(f) \in Nat /\ SumFunction(e) = SumFunction(f) + e[m + 1]
<1> DEFINE S == 1..m
           T == 1..(m + 1)
           g == CHOOSE x : Sums(x, f, S)
           h == CHOOSE x : Sums(x, e, T)
<1>1. IsFiniteSet(S) /\ IsFiniteSet(T)
  BY FS_Interval
<1>2. /\ S \subseteq T /\ m + 1 \in T /\ T \ {m + 1} = S
      /\ f \in [S -> Nat] /\ e \in [T -> Nat] /\ DOMAIN f = S /\ DOMAIN e = T
      /\ \A x \in S : f[x] = e[x] /\ e[m + 1] \in Nat
  OBVIOUS
<1>3. SumFunction(f) = g[S] /\ SumFunction(e) = h[T]
  <2>1. SumFunction(f) = (CHOOSE x : Sums(x, f, DOMAIN f))[DOMAIN f]
    BY SumUnfolds
  <2>2. SumFunction(e) = (CHOOSE x : Sums(x, e, DOMAIN e))[DOMAIN e]
    BY SumUnfolds
  <2> QED
    BY <1>2, <2>1, <2>2
<1> HIDE DEF S, T
<1>4. Sums(g, f, S) /\ Sums(h, e, T)
  <2>1. (\E x : Sums(x, f, S)) /\ \E x : Sums(x, e, T)
    BY <1>1, SumsExist
  <2> QED
    BY <2>1
<1> HIDE DEF g, h
<1>5. AnyFirst(g, f, S) /\ AnyFirst(h, e, T)
  <2>1. f \in [S -> Nat] /\ e \in [T -> Nat]
    BY <1>2
  <2> QED
    BY <1>1, <1>4, <2>1, SumsTakeAny
<1>6. g[S] \in Nat /\ h[T] = e[m + 1] + h[S]
  <2>1. h[T] = e[m + 1] + h[T \ {m + 1}]
    BY <1>2, <1>5 DEF AnyFirst
  <2>2. T \ {m + 1} = S
    BY <1>2
  <2>3. h[T] = e[m + 1] + h[S]
    BY <2>1, <2>2
  <2>4. g[S] \in Nat
    BY <1>5 DEF AnyFirst
  <2> QED
    BY <2>3, <2>4
<1>7. g[S] = h[S]
  <2>1. \A x \in S : f[x] = e[x]
    BY <1>2
  <2> QED
    BY <1>1, <1>2, <1>4, <2>1, SumsAgree, SMTT(30)
<1>8. e[m + 1] \in Nat
  OBVIOUS
<1> QED
  BY <1>3, <1>6, <1>7, <1>8

LEMMA SumOfNothing ==
    ASSUME NEW f, DOMAIN f = {}
    PROVE  SumFunction(f) = 0
<1> DEFINE g == CHOOSE x : Sums(x, f, {})
<1>1. SumFunction(f) = g[{}]
  BY SumUnfolds
<1>2. Sums(g, f, {})
  <2>1. \E x : Sums(x, f, {})
    BY FS_EmptySet, SumsExist
  <2> QED
    BY <2>1
<1> HIDE DEF g
<1>3. g = [s \in SUBSET {} |-> IF s = {} THEN 0 ELSE f[Picks(s)] + g[s \ {Picks(s)}]]
  BY <1>2 DEF Sums
<1> QED
  BY <1>1, <1>3

-----------------------------------------------------------------------------
(* The waveform of a signal.                                                *)

\* The lines of a dump b that change c, Waveform, Toggles and Changes.
Written(b, c) == {i \in DOMAIN b : b[i][1] = "change" /\ b[i][2] = c}

WaveOf(b, c) == LET changes == Picked(b, Written(b, c)) IN [i \in DOMAIN changes |-> changes[i][3]]

TogglesOf(c, w) == SumFunction([i \in 1..(Len(w) - 1) |-> Distance(c, w[i], w[i + 1])])

ChangesOf(c, w) == Cardinality({i \in 1..(Len(w) - 1) : Distance(c, w[i], w[i + 1]) > 0})

LEMMA WaveRead ==
    ASSUME NEW c
    PROVE  /\ Waveform(c) = WaveOf(body, c)
           /\ Toggles(c) = TogglesOf(c, WaveOf(body, c))
           /\ Changes(c) = ChangesOf(c, WaveOf(body, c))
<1>1. Waveform(c) = WaveOf(body, c)
  BY DEF Waveform, WaveOf, Written
<1>2. Toggles(c) = TogglesOf(c, Waveform(c))
  BY DEF Toggles, TogglesOf
<1>3. Changes(c) = ChangesOf(c, Waveform(c))
  BY DEF Changes, ChangesOf
<1> QED
  BY <1>1, <1>2, <1>3

\* What is written about a code, by a line more.
LEMMA WrittenGrows ==
    ASSUME NEW b \in Seq(BodyLine), NEW line \in BodyLine, NEW c
    PROVE  /\ Len(b) \in Nat /\ Written(b, c) \in SUBSET (1..Len(b))
           /\ \A i \in Written(b, c) : b[i][3] \in Value
           /\ Written(Append(b, line), c)
                = Written(b, c) \cup (IF line[1] = "change" /\ line[2] = c THEN {Len(b) + 1} ELSE {})
<1> DEFINE n == Len(b)
           T == BodyLine
           g == Append(b, line)
<1>1. /\ n \in Nat /\ DOMAIN b = 1..n /\ DOMAIN g = 1..(n + 1) /\ g[n + 1] = line
      /\ \A i \in 1..n : g[i] = b[i] /\ b[i] \in T
  <2>1. b \in Seq(T) /\ line \in T
    OBVIOUS
  <2> HIDE DEF T
  <2> QED
    BY <2>1
<1> HIDE DEF n, g, T
<1>2. \A k \in 1..(n + 1) : k = n + 1 \/ k \in 1..n
  BY <1>1
<1>3. n + 1 \in 1..(n + 1) /\ \A k \in 1..n : k \in 1..(n + 1)
  BY <1>1
<1>4. Written(g, c) = Written(b, c) \cup (IF line[1] = "change" /\ line[2] = c THEN {n + 1} ELSE {})
  BY <1>1, <1>2, <1>3 DEF Written
<1>5. Written(b, c) \in SUBSET (1..n)
  BY <1>1 DEF Written
<1>6. ASSUME NEW i \in Written(b, c) PROVE b[i][3] \in Value
  <2>1. b[i] \in BodyLine /\ b[i][1] = "change"
    BY <1>1 DEF Written, T
  <2>2. b[i] \in {"change"} \X Codes \X Value
    <3>1. b[i] # <<"time">>
      BY <2>1
    <3> QED
      BY <2>1, <3>1 DEF BodyLine
  <2> QED
    BY <2>2
<1> QED
  BY <1>1, <1>4, <1>5, <1>6 DEF n, g

LEMMA WaveTyped ==
    ASSUME NEW b \in Seq(BodyLine), NEW c
    PROVE  WaveOf(b, c) \in Seq(Value)
<1> DEFINE I == Written(b, c)
           T == BodyLine
           u == Picked(b, I)
           m == Cardinality(I)
<1>1. <<"time">> \in BodyLine
  BY DEF BodyLine
<1>2. I \in SUBSET (1..Len(b)) /\ \A i \in I : b[i][3] \in Value
  BY <1>1, WrittenGrows
<1>3. b \in Seq(T)
  OBVIOUS
<1> HIDE DEF I, T
<1>4. m \in Nat /\ DOMAIN u = 1..m /\ \A k \in 1..m : \E i \in I : u[k] = b[i]
  BY <1>2, <1>3, PickedTyped
<1> HIDE DEF u, m
<1>5. \A k \in 1..m : u[k][3] \in Value
  BY <1>2, <1>4
<1> DEFINE w == [k \in 1..m |-> u[k][3]]
<1>6. w \in [1..m -> Value]
  BY <1>5
<1>7. WaveOf(b, c) = w
  BY <1>4 DEF WaveOf, u, I
<1> HIDE DEF w
<1>8. w \in Seq(Value)
  BY <1>4, <1>6
<1> QED
  BY <1>7, <1>8

LEMMA WaveGrows ==
    ASSUME NEW b \in Seq(BodyLine), NEW line \in BodyLine, NEW c
    PROVE  WaveOf(Append(b, line), c) = IF line[1] = "change" /\ line[2] = c
                                        THEN Append(WaveOf(b, c), line[3]) ELSE WaveOf(b, c)
<1> DEFINE I == Written(b, c)
           J == Written(Append(b, line), c)
           T == BodyLine
           u == Picked(b, I)
           g == Append(b, line)
           v == Picked(g, J)
           m == Cardinality(I)
<1>1. /\ I \in SUBSET (1..Len(b))
      /\ J = I \cup (IF line[1] = "change" /\ line[2] = c THEN {Len(b) + 1} ELSE {})
  BY WrittenGrows
<1>2. b \in Seq(T) /\ line \in T
  OBVIOUS
<1>3. WaveOf(b, c) = [i \in DOMAIN u |-> u[i][3]] /\ WaveOf(g, c) = [i \in DOMAIN v |-> v[i][3]]
  BY DEF WaveOf
<1> HIDE DEF I, J, T
<1>4. CASE ~(line[1] = "change" /\ line[2] = c)
  <2>1. J = I
    BY <1>1, <1>4
  <2>2. Picked(Append(b, line), I) = Picked(b, I)
    BY <1>1, <1>2, PickedKept
  <2> QED
    BY <1>3, <1>4, <2>1, <2>2
<1>5. CASE line[1] = "change" /\ line[2] = c
  <2>1. J = I \cup {Len(b) + 1}
    BY <1>1, <1>5
  <2>2. Picked(Append(b, line), I \cup {Len(b) + 1}) = Append(Picked(b, I), line)
    BY <1>1, <1>2, PickedGrows
  <2>3. v = Append(u, line)
    BY <2>1, <2>2
  <2>4. m \in Nat /\ u \in Seq(T) /\ Len(u) = m /\ DOMAIN u = 1..m
    BY <1>1, <1>2, PickedTyped
  <2> HIDE DEF u, v, m
  <2>5. DOMAIN v = 1..(m + 1) /\ v[m + 1] = line /\ \A k \in 1..m : v[k] = u[k]
    BY <1>2, <2>3, <2>4
  <2> DEFINE x == [i \in 1..m |-> u[i][3]]
             y == [i \in 1..(m + 1) |-> v[i][3]]
             S == {u[i][3] : i \in 1..m} \cup {line[3]}
  <2>6. x \in [1..m -> S] /\ line[3] \in S
    OBVIOUS
  <2>7. \A k \in 1..(m + 1) : y[k] = IF k = m + 1 THEN line[3] ELSE x[k]
    BY <2>4, <2>5
  <2>8. DOMAIN y = 1..(m + 1)
    OBVIOUS
  <2>9. y \in [1..(m + 1) -> S]
    <3>1. \A k \in 1..(m + 1) : k = m + 1 \/ k \in 1..m
      BY <2>4
    <3>2. \A k \in 1..(m + 1) : v[k][3] \in S
      BY <2>5, <3>1
    <3> HIDE DEF S
    <3> QED
      BY <3>2
  <2> HIDE DEF x, y, S
  <2>10. x \in Seq(S) /\ Len(x) = m /\ y \in Seq(S) /\ Len(y) = m + 1
    BY <2>4, <2>6, <2>9
  <2>11. /\ Append(x, line[3]) \in Seq(S) /\ Len(Append(x, line[3])) = m + 1
         /\ \A k \in 1..(m + 1) : Append(x, line[3])[k] = IF k = m + 1 THEN line[3] ELSE x[k]
    BY <2>4, <2>6, <2>10
  <2>12. y = Append(x, line[3])
    BY <2>7, <2>10, <2>11, SeqEqual
  <2> QED
    BY <1>3, <1>5, <2>4, <2>5, <2>12 DEF x, y
<1> QED
  BY <1>4, <1>5

\* A padded value has its bits by weight.
LEMMA PadBits ==
    ASSUME NEW v \in Value, NEW w \in Nat, Len(v) <= w, NEW i \in 1..w
    PROVE  Pad(v, w)[i] = Bit(v, w + 1 - i)
<1> DEFINE z == [j \in 1..(w - Len(v)) |-> "0"]
           n == Len(v)
           B == {"0", "1", "x"}
<1>1. v \in Seq(B) /\ n \in Nat /\ DOMAIN v = 1..n /\ n <= w
  BY DEF Value
<1>2. z \in [1..(w - n) -> B] /\ \A j \in 1..(w - n) : z[j] = "0"
  OBVIOUS
<1> HIDE DEF z
<1>3. z \in Seq(B) /\ Len(z) = w - n /\ DOMAIN z = 1..(w - n)
  <2> HIDE DEF n, B
  <2>1. w - n \in Nat
    BY <1>1
  <2> QED
    BY <1>2, <2>1
<1>4. Pad(v, w) = z \o v
  BY DEF Pad, z
<1> HIDE DEF n
<1>5. CASE i <= w - n
  <2>1. i \in 1..(w - n)
    BY <1>1, <1>5
  <2>2. (z \o v)[i] = z[i]
    <3> HIDE DEF B
    <3> QED
      BY <1>1, <1>3, <2>1 DEF n
  <2>3. Bit(v, w + 1 - i) = "0"
    <3>1. ~(w + 1 - i <= n)
      BY <1>1, <1>5
    <3> QED
      BY <3>1 DEF Bit, n
  <2> QED
    BY <1>2, <1>4, <2>1, <2>2, <2>3
<1>6. CASE ~(i <= w - n)
  <2>1. i - (w - n) \in 1..n /\ (w - n) + (i - (w - n)) = i
    BY <1>1, <1>6
  <2>2. (z \o v)[i] = v[i - (w - n)]
    <3> HIDE DEF B
    <3> QED
      BY <1>1, <1>3, <1>6, <2>1 DEF n
  <2>3. Bit(v, w + 1 - i) = v[n + 1 - (w + 1 - i)]
    <3>1. w + 1 - i <= n
      BY <1>1, <1>6
    <3> QED
      BY <3>1 DEF Bit, n
  <2>4. n + 1 - (w + 1 - i) = i - (w - n)
    BY <1>1
  <2> QED
    BY <1>4, <2>2, <2>3, <2>4
<1> QED
  BY <1>5, <1>6

LEMMA DistanceTyped ==
    ASSUME VcdAssumption, NEW c \in Codes, NEW u, NEW v
    PROVE  Distance(c, u, v) \in Nat
<1> DEFINE D == {i \in 1..WidthOf[c] : Bit(u, i) # Bit(v, i)}
<1>1. WidthOf[c] \in Nat
  BY DEF VcdAssumption
<1>2. D \in SUBSET (1..WidthOf[c]) /\ IsFiniteSet(1..WidthOf[c])
  BY <1>1, FS_Interval
<1>3. Distance(c, u, v) \in {0, 1, Cardinality(D)}
  BY Zenon DEF Distance
<1> HIDE DEF D
<1>4. Cardinality(D) \in Nat
  BY <1>2, FS_Subset, FS_CardinalityType
<1> QED
  BY <1>3, <1>4

\* What value_toggle_delta counts is the number of bits that differ.
LEMMA DeltaIsDistance ==
    ASSUME VcdAssumption, NEW c \in Codes, NEW u \in Value, NEW v \in Value,
           Len(u) <= WidthOf[c], Len(v) <= WidthOf[c]
    PROVE  ToggleDelta(u, v, WidthOf[c]) = Distance(c, u, v)
<1> DEFINE w == WidthOf[c]
           n == Max({Len(u), Len(v), w})
           D == {i \in 1..w : Pad(u, w)[i] # Pad(v, w)[i]}
           E == {i \in 1..w : Bit(u, i) # Bit(v, i)}
<1>1. w \in Nat /\ Len(u) \in Nat /\ Len(v) \in Nat
  BY DEF VcdAssumption, Value
<1>2. n = w
  BY <1>1, LargestIsWidth
<1>3. \A i \in 1..w : Pad(u, w)[i] = Bit(u, w + 1 - i) /\ Pad(v, w)[i] = Bit(v, w + 1 - i)
  BY <1>1, PadBits
<1>4. Cardinality(D) = Cardinality(E)
  <2> HIDE DEF w
  <2> DEFINE f == [i \in D |-> w + 1 - i]
  <2>1. \A i \in 1..w : w + 1 - i \in 1..w /\ w + 1 - (w + 1 - i) = i
    BY <1>1
  <2>2. \A i \in 1..w : i \in D <=> Bit(u, w + 1 - i) # Bit(v, w + 1 - i)
    BY <1>3
  <2>3. \A i \in D : f[i] \in E
    BY <2>1, <2>2
  <2>4. \A i, j \in D : f[i] = f[j] => i = j
    <3>1. \A i \in D : i \in 1..w /\ f[i] = w + 1 - i
      OBVIOUS
    <3> HIDE DEF f, D
    <3> QED
      BY <1>1, <3>1
  <2>5. ASSUME NEW j \in E PROVE \E i \in D : f[i] = j
    <3>1. w + 1 - j \in 1..w /\ w + 1 - (w + 1 - j) = j
      BY <2>1
    <3>2. w + 1 - j \in D
      <4>1. Bit(u, w + 1 - (w + 1 - j)) # Bit(v, w + 1 - (w + 1 - j))
        BY <3>1
      <4> HIDE DEF D, E
      <4> QED
        BY <2>2, <3>1, <4>1
    <3> QED
      BY <3>1, <3>2
  <2>6. f \in [D -> E]
    <3> HIDE DEF D, E
    <3> QED
      BY <2>3
  <2>7. D \in SUBSET (1..w) /\ IsFiniteSet(1..w)
    <3>1. D \in SUBSET (1..w)
      OBVIOUS
    <3>2. IsFiniteSet(1..w)
      BY <1>1, FS_Interval
    <3> QED
      BY <3>1, <3>2
  <2> HIDE DEF f, D, E
  <2>8. f \in Bijection(D, E)
    BY <2>4, <2>5, <2>6 DEF Bijection, Injection, Surjection, IsInjective
  <2>9. ExistsBijection(D, E)
    BY <2>8 DEF ExistsBijection
  <2>10. IsFiniteSet(D)
    BY <2>7, FS_Subset
  <2> QED
    BY <2>9, <2>10, FS_Bijection
<1>5. CASE u = v
  <2>1. E = {}
    BY <1>5
  <2>2. Cardinality(E) = 0
    <3> HIDE DEF E
    <3> QED
      BY <2>1, FS_EmptySet
  <2>3. Distance(c, u, v) = 0
    BY <1>5, <2>2, Zenon DEF Distance
  <2>4. ToggleDelta(u, v, w) = 0
    BY <1>5 DEF ToggleDelta
  <2> QED
    BY <2>3, <2>4
<1>6. CASE u # v /\ Defined(u) /\ Defined(v)
  <2>1. Distance(c, u, v) = Cardinality(E)
    BY <1>6, Zenon DEF Distance
  <2>2. ToggleDelta(u, v, w) = Cardinality({i \in 1..n : Pad(u, n)[i] # Pad(v, n)[i]})
    BY <1>6, Zenon DEF ToggleDelta
  <2>3. {i \in 1..n : Pad(u, n)[i] # Pad(v, n)[i]} = D
    <3> HIDE DEF n, w
    <3> QED
      BY <1>2
  <2> QED
    BY <1>4, <2>1, <2>2, <2>3
<1>7. CASE u # v /\ ~(Defined(u) /\ Defined(v))
  <2>1. Distance(c, u, v) = 1
    BY <1>7, Zenon DEF Distance
  <2>2. ToggleDelta(u, v, w) = 1
    BY <1>7, Zenon DEF ToggleDelta
  <2> QED
    BY <2>1, <2>2
<1> QED
  BY <1>5, <1>6, <1>7

\* The counts of a waveform with one more value.
LEMMA FirstValueCounts ==
    ASSUME NEW c, NEW v
    PROVE  /\ TogglesOf(c, <<>>) = 0 /\ ChangesOf(c, <<>>) = 0
           /\ TogglesOf(c, <<v>>) = 0 /\ ChangesOf(c, <<v>>) = 0
<1>1. ASSUME NEW w, Len(w) \in {0, 1} PROVE TogglesOf(c, w) = 0 /\ ChangesOf(c, w) = 0
  <2> DEFINE f == [i \in 1..(Len(w) - 1) |-> Distance(c, w[i], w[i + 1])]
             D == {i \in 1..(Len(w) - 1) : Distance(c, w[i], w[i + 1]) > 0}
  <2>1. 1..(Len(w) - 1) = {}
    <3>1. \A k \in {0, 1} : 1..(k - 1) = {}
      OBVIOUS
    <3> QED
      BY <1>1, <3>1
  <2>2. DOMAIN f = {} /\ D = {}
    BY <2>1
  <2>3. TogglesOf(c, w) = SumFunction(f) /\ ChangesOf(c, w) = Cardinality(D)
    BY DEF TogglesOf, ChangesOf
  <2> HIDE DEF f, D
  <2> QED
    BY <2>2, <2>3, SumOfNothing, FS_EmptySet
<1>2. Len(<<>>) = 0 /\ Len(<<v>>) = 1
  OBVIOUS
<1> QED
  BY <1>1, <1>2

LEMMA NextValueCounts ==
    ASSUME VcdAssumption, NEW c \in Codes, NEW w \in Seq(Value), w # <<>>, NEW v \in Value
    PROVE  /\ TogglesOf(c, w) \in Nat /\ ChangesOf(c, w) \in Nat
           /\ TogglesOf(c, Append(w, v)) = TogglesOf(c, w) + Distance(c, w[Len(w)], v)
           /\ ChangesOf(c, Append(w, v))
                = ChangesOf(c, w) + (IF Distance(c, w[Len(w)], v) > 0 THEN 1 ELSE 0)
<1> DEFINE m == Len(w) - 1
           x == Append(w, v)
           f == [i \in 1..m |-> Distance(c, w[i], w[i + 1])]
           e == [i \in 1..(m + 1) |-> Distance(c, x[i], x[i + 1])]
<1>1. /\ m \in Nat /\ Len(w) = m + 1 /\ Len(x) = m + 2 /\ Len(x) - 1 = m + 1
      /\ \A i \in 1..(m + 1) : x[i] = w[i]
      /\ x[m + 2] = v
  <2>1. Len(w) \in Nat /\ Len(w) # 0
    OBVIOUS
  <2>2. Len(x) = Len(w) + 1 /\ x[Len(w) + 1] = v /\ \A i \in 1..Len(w) : x[i] = w[i]
    OBVIOUS
  <2> HIDE DEF x
  <2> QED
    BY <2>1, <2>2
<1> HIDE DEF m, x
<1>2. f \in [1..m -> Nat] /\ e \in [1..(m + 1) -> Nat]
  BY DistanceTyped
<1>3. ASSUME NEW i \in 1..m PROVE e[i] = f[i]
  <2>1. i \in 1..(m + 1) /\ i + 1 \in 1..(m + 1)
    BY <1>1
  <2>2. x[i] = w[i] /\ x[i + 1] = w[i + 1]
    BY <1>1, <2>1
  <2> QED
    BY <2>1, <2>2
<1>4. e[m + 1] = Distance(c, w[Len(w)], v)
  <2>1. m + 1 \in 1..(m + 1) /\ (m + 1) + 1 = m + 2
    BY <1>1
  <2>2. e[m + 1] = Distance(c, x[m + 1], x[(m + 1) + 1])
    BY <2>1
  <2> QED
    BY <1>1, <2>1, <2>2
<1>5. TogglesOf(c, w) = SumFunction(f)
  BY DEF TogglesOf, m
<1>6. TogglesOf(c, x) = SumFunction(e)
  BY <1>1 DEF TogglesOf
<1> DEFINE F == {i \in 1..m : f[i] > 0}
           E == {i \in 1..(m + 1) : e[i] > 0}
<1>7. ChangesOf(c, w) = Cardinality(F)
  <2>1. F = {i \in 1..m : Distance(c, w[i], w[i + 1]) > 0}
    OBVIOUS
  <2> QED
    BY <2>1 DEF ChangesOf, m
<1>8. ChangesOf(c, x) = Cardinality(E)
  <2>1. E = {i \in 1..(m + 1) : Distance(c, x[i], x[i + 1]) > 0}
    OBVIOUS
  <2> QED
    BY <1>1, <2>1 DEF ChangesOf
<1> HIDE DEF f, e
<1>9. SumFunction(f) \in Nat /\ SumFunction(e) = SumFunction(f) + e[m + 1]
  BY <1>1, <1>2, <1>3, SumGrows
<1>10. IsFiniteSet(F) /\ Cardinality(F) \in Nat /\ m + 1 \notin F
  <2>1. F \in SUBSET (1..m)
    OBVIOUS
  <2>2. IsFiniteSet(1..m) /\ m + 1 \notin 1..m
    BY <1>1, FS_Interval
  <2> HIDE DEF F
  <2> QED
    BY <2>1, <2>2, FS_Subset, FS_CardinalityType
<1>11. E = IF e[m + 1] > 0 THEN F \cup {m + 1} ELSE F
  <2>1. \A i \in 1..(m + 1) : i = m + 1 \/ i \in 1..m
    BY <1>1
  <2>2. m + 1 \in 1..(m + 1) /\ \A i \in 1..m : i \in 1..(m + 1)
    BY <1>1
  <2> QED
    BY <1>3, <2>1, <2>2
<1> HIDE DEF F, E
<1>12. Cardinality(F \cup {m + 1}) = Cardinality(F) + 1
  BY <1>10, FS_AddElement
<1>13. Cardinality(E) = Cardinality(F) + (IF e[m + 1] > 0 THEN 1 ELSE 0)
  BY <1>10, <1>11, <1>12
<1> QED
  BY <1>4, <1>5, <1>6, <1>7, <1>8, <1>9, <1>10, <1>13 DEF x

\* The record s of c has the last value and the counts of the values w.
Right(c, s, w) ==
    /\ s.last = IF w = <<>> THEN <<>> ELSE w[Len(w)]
    /\ \A i \in DOMAIN w : Len(w[i]) \in 1..WidthOf[c]
    /\ s.toggles = TogglesOf(c, w)
    /\ s.changes = ChangesOf(c, w)

\* All records are right, but for the one that a cut line has changed.
WaveKept ==
    /\ inHeader => body = <<>>
    /\ \E d : \A c \in DOMAIN signals : Right(c, signals[c], WaveOf(body, c)) \/ (cut /\ c = d)

LEMMA RightWithout ==
    ASSUME NEW c, NEW path
    PROVE  Right(c, Fresh(path), <<>>)
<1>1. /\ Fresh(path).last = <<>> /\ Fresh(path).toggles = 0 /\ Fresh(path).changes = 0
  BY DEF Fresh
<1>2. DOMAIN <<>> = {}
  OBVIOUS
<1> QED
  BY <1>1, <1>2, FirstValueCounts DEF Right

LEMMA CountedRight ==
    ASSUME VcdAssumption, TypeOK, NEW c \in Codes, c \in DOMAIN signals, NEW w \in Seq(Value),
           Right(c, signals[c], w), NEW v \in ValuesOf[c]
    PROVE  Right(c, Counted(c, v), Append(w, v))
<1> DEFINE s == signals[c]
           delta == IF s.last = <<>> THEN 0 ELSE ToggleDelta(s.last, v, WidthOf[c])
           x == Append(w, v)
<1>1. v \in Value /\ Len(v) \in 1..WidthOf[c] /\ WidthOf[c] \in Nat
  BY DEF VcdAssumption
<1>2. /\ Counted(c, v).last = v
      /\ Counted(c, v).toggles = s.toggles + delta
      /\ Counted(c, v).changes = s.changes + (IF delta > 0 THEN 1 ELSE 0)
  <2>1. s \in Signal
    BY DEF TypeOK
  <2> QED
    BY <2>1 DEF Counted, Signal
<1>3. /\ Len(w) \in Nat /\ Len(x) = Len(w) + 1 /\ x[Len(x)] = v /\ x # <<>>
      /\ DOMAIN x = 1..(Len(w) + 1) /\ \A i \in 1..Len(w) : x[i] = w[i]
      /\ DOMAIN w = 1..Len(w)
  BY <1>1, SMTT(30)
<1>4. \A i \in DOMAIN x : Len(x[i]) \in 1..WidthOf[c]
  <2>1. \A i \in DOMAIN x : i = Len(w) + 1 \/ i \in DOMAIN w
    BY <1>3
  <2> HIDE DEF x
  <2> QED
    BY <1>1, <1>3, <2>1 DEF Right
<1>5. s.toggles + delta = TogglesOf(c, x) /\ s.changes + (IF delta > 0 THEN 1 ELSE 0) = ChangesOf(c, x)
  <2>1. CASE w = <<>>
    <3>1. s.last = <<>> /\ s.toggles = TogglesOf(c, <<>>) /\ s.changes = ChangesOf(c, <<>>)
      BY <2>1 DEF Right
    <3>2. delta = 0
      BY <3>1
    <3>3. x = <<v>>
      BY <2>1
    <3> HIDE DEF delta, x, s
    <3>4. TogglesOf(c, x) = 0 /\ ChangesOf(c, x) = 0 /\ s.toggles = 0 /\ s.changes = 0
      BY <3>1, <3>3, FirstValueCounts
    <3> QED
      BY <3>2, <3>4
  <2>2. CASE w # <<>>
    <3> DEFINE u == w[Len(w)]
    <3>1. Len(w) \in DOMAIN w
      BY <1>3, <2>2
    <3>2. s.last = u /\ u \in Value /\ Len(u) \in 1..WidthOf[c]
      BY <2>2, <3>1 DEF Right
    <3>3. u # <<>>
      <4>1. Len(u) # 0
        BY <1>1, <3>2
      <4> QED
        BY <4>1
    <3>4. delta = ToggleDelta(u, v, WidthOf[c])
      BY <3>2, <3>3
    <3> HIDE DEF delta, u
    <3>5. Len(u) <= WidthOf[c] /\ Len(v) <= WidthOf[c]
      BY <1>1, <3>2
    <3>6. delta = Distance(c, u, v)
      BY <1>1, <3>2, <3>4, <3>5, DeltaIsDistance
    <3>7. /\ TogglesOf(c, x) = TogglesOf(c, w) + delta
          /\ ChangesOf(c, x) = ChangesOf(c, w) + (IF delta > 0 THEN 1 ELSE 0)
      BY <1>1, <2>2, <3>6, NextValueCounts DEF u
    <3>8. s.toggles = TogglesOf(c, w) /\ s.changes = ChangesOf(c, w)
      BY DEF Right
    <3> QED
      BY <3>7, <3>8
  <2> QED
    BY <2>1, <2>2
<1> HIDE DEF s, delta, x
<1>6. Right(c, Counted(c, v), x)
  BY <1>2, <1>3, <1>4, <1>5 DEF Right
<1> QED
  BY <1>6 DEF x

\* Without a cut every record is right.
LEMMA AllRight ==
    ASSUME WaveKept, ~cut
    PROVE  \A c \in DOMAIN signals : Right(c, signals[c], WaveOf(body, c))
BY DEF WaveKept

LEMMA StepKeepsWaves == VcdAssumption /\ TypeOK /\ WaveKept /\ [Next]_vars => WaveKept'
<1> SUFFICES ASSUME VcdAssumption, TypeOK, WaveKept, [Next]_vars PROVE WaveKept'
  OBVIOUS
<1>1. ASSUME UNCHANGED <<body, signals>>, inHeader' => inHeader, cut => cut' PROVE WaveKept'
  <2>1. PICK d : \A c \in DOMAIN signals : Right(c, signals[c], WaveOf(body, c)) \/ (cut /\ c = d)
    BY DEF WaveKept
  <2> QED
    BY <1>1, <2>1 DEF WaveKept
<1>2. ASSUME NEW n \in ScopeNames, ReadScope(n) PROVE WaveKept'
  BY <1>1, <1>2 DEF ReadScope, MoreHeader
<1>3. CASE ReadUpscope
  BY <1>1, <1>3 DEF ReadUpscope, MoreHeader
<1>4. ASSUME NEW c \in Codes, NEW n \in SignalNames, ReadVar(c, n) PROVE WaveKept'
  <2>1. CASE c \in DOMAIN signals
    BY <1>1, <1>4, <2>1 DEF ReadVar, MoreHeader
  <2>2. CASE c \notin DOMAIN signals
    <3>1. /\ body = <<>> /\ body' = body /\ ~cut
          /\ signals' = [d \in DOMAIN signals \cup {c} |->
                           IF d = c THEN Fresh(Append(scopes, n)) ELSE signals[d]]
      BY <1>4, <2>2 DEF ReadVar, MoreHeader, WaveKept
    <3>2. ASSUME NEW d PROVE WaveOf(body, d) = <<>>
      <4>1. <<"time">> \in BodyLine /\ body \in Seq(BodyLine)
        BY DEF BodyLine, TypeOK
      <4>2. WaveOf(body, d) \in Seq(Value)
        BY <4>1, WaveTyped
      <4>3. Written(body, d) = {}
        BY <3>1 DEF Written
      <4>4. Picked(body, {}) \in Seq(BodyLine) /\ DOMAIN Picked(body, {}) = 1..0
        <5> DEFINE T == BodyLine
        <5>1. body \in Seq(T) /\ {} \in SUBSET (1..Len(body)) /\ Cardinality({}) = 0
          BY <4>1, FS_EmptySet
        <5> HIDE DEF T
        <5>2. Picked(body, {}) \in Seq(T) /\ DOMAIN Picked(body, {}) = 1..0
          BY <5>1, PickedTyped
        <5> QED
          BY <5>2 DEF T
      <4>5. DOMAIN WaveOf(body, d) = {}
        BY <4>3, <4>4 DEF WaveOf
      <4> DEFINE w == WaveOf(body, d)
      <4> HIDE DEF w
      <4>6. w \in Seq(Value) /\ DOMAIN w = {}
        BY <4>2, <4>5 DEF w
      <4>7. w = <<>>
        BY <4>6
      <4> QED
        BY <4>7 DEF w
    <3>3. ASSUME NEW d \in DOMAIN signals' PROVE Right(d, signals'[d], WaveOf(body', d))
      <4>1. CASE d = c
        BY <3>1, <3>2, <4>1, RightWithout
      <4>2. CASE d # c
        <5>1. d \in DOMAIN signals /\ signals'[d] = signals[d]
          BY <3>1, <4>2
        <5> QED
          BY <3>1, <5>1, AllRight
      <4> QED
        BY <4>1, <4>2
    <3> QED
      BY <3>1, <3>3 DEF WaveKept
  <2> QED
    BY <2>1, <2>2
<1>5. CASE EndDefinitions
  BY <1>1, <1>5 DEF EndDefinitions, lines
<1>6. CASE ReadTime
  <2> DEFINE line == <<"time">>
  <2>1. /\ body' = Append(body, line) /\ UNCHANGED <<signals, cut, inHeader>> /\ ~cut /\ ~inHeader
    BY <1>6 DEF ReadTime, MoreBody
  <2>2. line \in BodyLine /\ body \in Seq(BodyLine) /\ line[1] # "change"
    BY DEF BodyLine, TypeOK
  <2> HIDE DEF line
  <2>3. ASSUME NEW c PROVE WaveOf(body', c) = WaveOf(body, c)
    BY <2>1, <2>2, WaveGrows
  <2> QED
    BY <2>1, <2>3, AllRight DEF WaveKept
<1>7. ASSUME NEW c \in Codes, NEW v \in ValuesOf[c], ReadChange(c, v) PROVE WaveKept'
  <2> DEFINE line == <<"change", c, v>>
  <2>1. /\ body' = Append(body, line) /\ UNCHANGED <<cut, inHeader>> /\ ~cut /\ ~inHeader
        /\ c \in DOMAIN signals /\ signals' = [signals EXCEPT ![c] = Counted(c, v)]
    BY <1>7 DEF ReadChange, MoreBody, Writable
  <2>2. line \in BodyLine /\ body \in Seq(BodyLine) /\ line[1] = "change" /\ line[2] = c /\ line[3] = v
    <3>1. v \in Value
      BY DEF VcdAssumption
    <3> QED
      BY <3>1 DEF BodyLine, TypeOK
  <2> HIDE DEF line
  <2>3. ASSUME NEW d, d # c PROVE WaveOf(body', d) = WaveOf(body, d)
    BY <2>1, <2>2, <2>3, WaveGrows
  <2>4. WaveOf(body', c) = Append(WaveOf(body, c), v)
    BY <2>1, <2>2, WaveGrows
  <2>5. ASSUME NEW d \in DOMAIN signals' PROVE Right(d, signals'[d], WaveOf(body', d))
    <3>1. d \in DOMAIN signals /\ Right(d, signals[d], WaveOf(body, d))
      BY <2>1, AllRight
    <3>2. CASE d = c
      <4>1. WaveOf(body, c) \in Seq(Value)
        BY <2>2, WaveTyped
      <4>2. Right(c, Counted(c, v), Append(WaveOf(body, c), v))
        BY <2>1, <3>1, <3>2, <4>1, CountedRight
      <4> QED
        BY <2>1, <2>4, <3>2, <4>2
    <3>3. CASE d # c
      BY <2>1, <2>3, <3>1, <3>3
    <3> QED
      BY <3>2, <3>3
  <2> QED
    BY <2>1, <2>5 DEF WaveKept
<1>8. ASSUME NEW c \in Codes, NEW v \in ValuesOf[c], CutChange(c, v) PROVE WaveKept'
  <2>1. UNCHANGED <<body, inHeader>> /\ ~cut /\ cut' /\ ~inHeader
    BY <1>8 DEF CutChange, MoreBody
  <2>2. CASE UNCHANGED signals
    BY <1>1, <2>1, <2>2
  <2>3. ASSUME NEW d \in CutTo[c] \cap DOMAIN signals, signals' = [signals EXCEPT ![d] = Counted(d, v)]
        PROVE  WaveKept'
    <3>1. \A b \in DOMAIN signals' : Right(b, signals'[b], WaveOf(body', b)) \/ (cut' /\ b = d)
      BY <2>1, <2>3, AllRight
    <3> QED
      BY <2>1, <3>1 DEF WaveKept
  <2> QED
    BY <1>8, <2>2, <2>3 DEF CutChange
<1>9. CASE CutTime
  BY <1>1, <1>9 DEF CutTime, MoreBody
<1>10. CASE WriteOutputs
  BY <1>1, <1>10 DEF WriteOutputs, reader, lines
<1>11. CASE UNCHANGED vars
  BY <1>1, <1>11 DEF vars, reader, lines
<1> QED
  BY <1>2, <1>3, <1>4, <1>5, <1>6, <1>7, <1>8, <1>9, <1>10, <1>11 DEF Next

LEMMA ReaderKept == Spec => []TypeOK /\ []PathsKept /\ []WaveKept
<1>1. TypeOK /\ PathsKept /\ [Next]_vars => PathsKept'
  BY StepKeepsPaths, VcdAssumption
<1>2. TypeOK /\ WaveKept /\ [Next]_vars => WaveKept'
  BY StepKeepsWaves, VcdAssumption
<1>3. Init => WaveKept
  <2> SUFFICES ASSUME Init PROVE WaveKept
    OBVIOUS
  <2>1. body = <<>> /\ DOMAIN signals = {}
    BY DEF Init
  <2> QED
    BY <2>1 DEF WaveKept
<1> QED
  BY <1>1, <1>2, <1>3, InitKeepsPaths, ExtractorTypeCorrect, PTL DEF Spec

\* The counts of every net are those of its waveform, leading zeros dropped or
\* not; a dump that ends inside a line is wrong about one net at most
\* (value_toggle_delta and the loop of iter_vcd).
THEOREM WaveformsAlwaysCounted == Spec => []WaveformCounted
<1>1. TypeOK /\ PathsKept /\ WaveKept => WaveformCounted
  <2> SUFFICES ASSUME TypeOK, PathsKept, WaveKept PROVE WaveformCounted
    OBVIOUS
  <2> DEFINE wrong == {c \in Declared : \/ signals[c].toggles # Toggles(c)
                                        \/ signals[c].changes # Changes(c)}
  <2>1. DOMAIN signals = Declared
    BY DEF PathsKept
  <2>2. PICK d : \A c \in DOMAIN signals : Right(c, signals[c], WaveOf(body, c)) \/ (cut /\ c = d)
    BY DEF WaveKept
  <2>3. ASSUME NEW c \in wrong PROVE cut /\ c = d
    <3>1. c \in Declared /\ (signals[c].toggles # Toggles(c) \/ signals[c].changes # Changes(c))
      OBVIOUS
    <3>2. Toggles(c) = TogglesOf(c, WaveOf(body, c)) /\ Changes(c) = ChangesOf(c, WaveOf(body, c))
      BY WaveRead
    <3>3. ~Right(c, signals[c], WaveOf(body, c))
      BY <3>1, <3>2 DEF Right
    <3> QED
      BY <2>1, <2>2, <3>1, <3>3
  <2>4. WaveformCounted <=> (written => Cardinality(wrong) <= IF cut THEN 1 ELSE 0)
    BY Zenon DEF WaveformCounted
  <2> HIDE DEF wrong
  <2>5. wrong = {} \/ (cut /\ wrong = {d})
    BY <2>3
  <2>6. Cardinality({}) = 0 /\ Cardinality({d}) = 1
    BY FS_EmptySet, FS_Singleton
  <2> QED
    BY <2>4, <2>5, <2>6
<1> QED
  BY <1>1, ReaderKept, PTL

\* The bucket table r under the map m accounts for the nets R once, by their
\* paths and toggles.
Accounts(r, m, R, path, toggles) ==
    \A b \in DOMAIN r :
        LET nets == {c \in R : Classify(path[c], m) = b}
        IN /\ r[b].signals = Cardinality(nets)
           /\ r[b].toggles = SumFunction([c \in nets |-> toggles[c]])
           /\ \A c \in R : Classify(path[c], m) \in DOMAIN r

DumpPaths   == [c \in Codes |-> PathOf(c)]
DumpToggles == [c \in Codes |-> Toggles(c)]

TotalsAccount == written /\ ~cut => Accounts(region, map, Reported, DumpPaths, DumpToggles)

LEMMA TotalsRead == TotalsAccount => TotalsMatchDump
<1> SUFFICES ASSUME TotalsAccount, written, ~cut, NEW b \in DOMAIN region
             PROVE  LET nets == {c \in Reported : Classify(PathOf(c), map) = b}
                    IN /\ region[b].signals = Cardinality(nets)
                       /\ region[b].toggles = SumFunction([c \in nets |-> Toggles(c)])
                       /\ \A c \in Reported : Classify(PathOf(c), map) \in DOMAIN region
  BY DEF TotalsMatchDump
<1> DEFINE nets == {c \in Reported : Classify(PathOf(c), map) = b}
           nets2 == {c \in Reported : Classify(DumpPaths[c], map) = b}
<1>1. \A c \in Reported : c \in Codes /\ DumpPaths[c] = PathOf(c) /\ DumpToggles[c] = Toggles(c)
  BY DEF Reported, Declared, DumpPaths, DumpToggles
<1>2. /\ region[b].signals = Cardinality(nets2)
      /\ region[b].toggles = SumFunction([c \in nets2 |-> DumpToggles[c]])
      /\ \A c \in Reported : Classify(DumpPaths[c], map) \in DOMAIN region
  BY DEF TotalsAccount, Accounts
<1>3. nets = nets2
  BY <1>1
<1>4. [c \in nets2 |-> DumpToggles[c]] = [c \in nets |-> Toggles(c)]
  <2>1. \A c \in nets : DumpToggles[c] = Toggles(c)
    BY <1>1
  <2> HIDE DEF nets, nets2
  <2> QED
    BY <1>3, <2>1
<1>5. \A c \in Reported : Classify(PathOf(c), map) \in DOMAIN region
  BY <1>1, <1>2
<1> HIDE DEF nets, nets2
<1>6. /\ region[b].signals = Cardinality(nets)
      /\ region[b].toggles = SumFunction([c \in nets |-> Toggles(c)])
  BY <1>2, <1>3, <1>4
<1> QED
  BY <1>5, <1>6 DEF nets

\* What write_outputs adds up.
LEMMA TotalsAreOfDump ==
    ASSUME TypeOK, PathsKept, WaveKept, ~cut
    PROVE  Accounts(Totals(Kept), map, Reported, DumpPaths, DumpToggles)
<1> DEFINE In(b) == {c \in Range(Kept) : BucketOf(c) = b}
           nets(b) == {c \in Reported : Classify(DumpPaths[c], map) = b}
           B == Buckets(map) \cup {BucketOf(c) : c \in Range(Kept)}
           r == Totals(Kept)
<1>1. Range(Kept) = Reported /\ Reported \subseteq DOMAIN signals /\ DOMAIN signals = Declared
  BY KeptParts DEF PathsKept
<1>2. ASSUME NEW c \in Reported
      PROVE  BucketOf(c) = Classify(DumpPaths[c], map) /\ signals[c].toggles = DumpToggles[c]
  <2>1. c \in Declared /\ c \in Codes /\ signals[c].path = PathOf(c)
    BY DEF Reported, Declared, PathsKept
  <2>2. Right(c, signals[c], WaveOf(body, c))
    BY <1>1, AllRight
  <2>3. signals[c].toggles = Toggles(c)
    BY <2>2, WaveRead DEF Right
  <2> QED
    BY <2>1, <2>3 DEF BucketOf, DumpPaths, DumpToggles
<1>3. \A b : In(b) = nets(b)
  BY <1>1, <1>2
<1>4. \A b : [c \in In(b) |-> signals[c].toggles] = [c \in nets(b) |-> DumpToggles[c]]
  <2> TAKE b
  <2>1. \A c \in nets(b) : signals[c].toggles = DumpToggles[c]
    BY <1>2
  <2>2. In(b) = nets(b)
    BY <1>3
  <2> HIDE DEF In, nets
  <2> QED
    BY <2>1, <2>2
<1>5. r = [b \in B |->
             [signals  |-> Cardinality(In(b)),
              toggles  |-> SumFunction([c \in In(b) |-> signals[c].toggles]),
              activity |-> SumFunction([c \in In(b) |-> Activity(c)])]]
  BY DEF Totals
<1>6. \A c \in Reported : Classify(DumpPaths[c], map) \in B
  BY <1>1, <1>2
<1> HIDE DEF In, nets, B, r
<1>7. ASSUME NEW b \in DOMAIN r
      PROVE  /\ r[b].signals = Cardinality(nets(b))
             /\ r[b].toggles = SumFunction([c \in nets(b) |-> DumpToggles[c]])
  <2>1. /\ r[b].signals = Cardinality(In(b))
        /\ r[b].toggles = SumFunction([c \in In(b) |-> signals[c].toggles])
    BY <1>5
  <2>2. SumFunction([c \in In(b) |-> signals[c].toggles]) = SumFunction([c \in nets(b) |-> DumpToggles[c]])
    BY <1>4
  <2> QED
    BY <1>3, <2>1, <2>2
<1>8. DOMAIN r = B
  BY <1>5
<1> QED
  BY <1>6, <1>7, <1>8 DEF Accounts, nets, r

LEMMA StepTotals ==
    TypeOK /\ PathsKept /\ WaveKept /\ TotalsAccount /\ [Next]_vars => TotalsAccount'
<1> SUFFICES ASSUME TypeOK, PathsKept, WaveKept, TotalsAccount, [Next]_vars PROVE TotalsAccount'
  OBVIOUS
<1>1. ASSUME UNCHANGED <<header, body, map, signals, order>>
      PROVE  Reported' = Reported /\ DumpPaths' = DumpPaths /\ DumpToggles' = DumpToggles
  <2>1. Reported' = Reported
    BY <1>1 DEF Reported, Declared, PathOf, PathAt, OpenAt, Between, Declarations
  <2>2. DumpPaths' = DumpPaths
    BY <1>1 DEF DumpPaths, PathOf, PathAt, OpenAt, Between, Declarations
  <2>3. DumpToggles' = DumpToggles
    BY <1>1 DEF DumpToggles, Toggles, Waveform
  <2> QED
    BY <2>1, <2>2, <2>3
<1>2. CASE WriteOutputs
  <2>1. region' = Totals(Kept) /\ UNCHANGED <<header, body, map, signals, order, cut>>
    BY <1>2 DEF WriteOutputs, reader, lines
  <2>2. ~cut => Accounts(Totals(Kept), map, Reported, DumpPaths, DumpToggles)
    BY TotalsAreOfDump
  <2> QED
    BY <1>1, <2>1, <2>2 DEF TotalsAccount
<1>3. CASE ~written'
  BY <1>3 DEF TotalsAccount
<1>4. CASE UNCHANGED vars
  <2>1. UNCHANGED <<header, body, map, signals, order, cut, written, region>>
    BY <1>4 DEF vars, reader, tables, lines
  <2> QED
    BY <1>1, <2>1 DEF TotalsAccount
<1>5. \/ WriteOutputs \/ ~written' \/ UNCHANGED vars
  BY DEF Next, ReadScope, ReadUpscope, ReadVar, MoreHeader, EndDefinitions, ReadTime, ReadChange,
         CutChange, CutTime, MoreBody, tables
<1> QED
  BY <1>2, <1>3, <1>4, <1>5

\* The bucket table accounts for every reported net once, in one bucket, with
\* all the toggles of its waveform, however few rows the signal table keeps
\* (write_outputs).
THEOREM TotalsAlwaysMatchDump == Spec => []TotalsMatchDump
<1>1. TypeOK /\ PathsKept /\ WaveKept /\ TotalsAccount /\ [Next]_vars => TotalsAccount'
  BY StepTotals
<1>2. Init => TotalsAccount
  BY DEF Init, TotalsAccount
<1> QED
  BY <1>1, <1>2, ReaderKept, TotalsRead, PTL DEF Spec
=============================================================================
