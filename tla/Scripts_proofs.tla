--------------------------- MODULE Scripts_proofs ---------------------------
(* The scripts: the job limits of the environment file hold for every cap,   *)
(* as long as the shell can compare, and the exporter's two files fit        *)
(* together and cover the chip, for any buckets.                             *)
EXTENDS JobLimits, HotspotExport, FiniteSetTheorems, SequenceTheorems, TLAPS

-----------------------------------------------------------------------------
(* The job limits.                                                          *)

\* What a variable can hold as long as the user keeps to the shell's integers.
Value == 0..MaxInt \cup {Unset, Word}

JobsInv ==
    /\ TP_MAX_JOBS \in Value
    /\ MAKE_JOBS \in Value
    /\ JobsLimited

LEMMA MaxJobsInRange ==
    ASSUME NEW v \in Value
    PROVE  MaxJobs(v) \in 1..Cap
BY JobAssumption DEF MaxJobs, Unusable, Numeral, Less, Greater, Value

LEMMA MaxJobsKeeps ==
    ASSUME NEW v \in 1..Cap
    PROVE  MaxJobs(v) = v
BY JobAssumption DEF MaxJobs, Unusable, Numeral, Less, Greater

LEMMA JobsInRange ==
    ASSUME NEW v \in Value, NEW nproc \in Value, NEW limit \in 1..Cap
    PROVE  Jobs(v, nproc, limit) \in 1..limit
<1>1. Wanted(v, nproc) \in 1..MaxInt
  BY JobAssumption DEF Wanted, Unusable, Numeral, Less, Value
<1> QED
  BY <1>1, JobAssumption DEF Jobs, Greater

LEMMA JobsKeeps ==
    ASSUME NEW limit \in 1..Cap, NEW v \in 1..limit, NEW nproc
    PROVE  Jobs(v, nproc, limit) = v
BY JobAssumption DEF Jobs, Wanted, Unusable, Numeral, Less, Greater

LEMMA RepresentableValues ==
    ASSUME Representable
    PROVE  /\ UserValues \subseteq Value
           /\ NprocValues \subseteq Value
BY JobAssumption DEF Representable, Numeral, Value

LEMMA JobInvariant ==
    ASSUME Representable
    PROVE  JobsSpec => []JobsInv
<1> USE RepresentableValues
<1>1. JobsInit => JobsInv
  BY DEF JobsInit, JobsInv, JobsLimited
<1>2. JobsInv /\ [JobsNext]_jobVars => JobsInv'
  <2> SUFFICES ASSUME JobsInv, [JobsNext]_jobVars PROVE JobsInv'
    OBVIOUS
  <2>1. CASE \E v \in UserValues : SetMaxJobs(v) \/ SetMakeJobs(v)
    BY <2>1 DEF JobsInv, JobsLimited, SetMaxJobs, SetMakeJobs
  <2>2. ASSUME NEW nproc \in NprocValues, Source(nproc) PROVE JobsInv'
    <3>1. TP_MAX_JOBS' \in 1..Cap
      BY <2>2, MaxJobsInRange DEF JobsInv, Source
    <3>2. MAKE_JOBS' \in 1..TP_MAX_JOBS'
      BY <2>2, <3>1, JobsInRange DEF JobsInv, Source
    <3> QED
      BY <3>1, <3>2, JobAssumption DEF JobsInv, JobsLimited, Value, Numeral
  <2>3. CASE UNCHANGED jobVars
    BY <2>3 DEF JobsInv, JobsLimited, jobVars
  <2> QED
    BY <2>1, <2>2, <2>3 DEF JobsNext
<1> QED
  BY <1>1, <1>2, PTL DEF JobsSpec

\* A script never runs more make jobs than TP_MAX_JOBS or 128, nor none at all, if
\* no value is beyond the shell's integers: the tests of the environment file are
\* decided before the limit is compared with.
THEOREM JobsAlwaysLimited ==
    ASSUME Representable
    PROVE  JobsSpec => []JobsLimited
<1>1. JobsInv => JobsLimited
  BY DEF JobsInv
<1> QED
  BY JobInvariant, <1>1, PTL

\* Sourcing the environment again in a child script keeps both limits, whatever
\* nproc says there.
THEOREM SourcingAlwaysSettles ==
    ASSUME Representable
    PROVE  JobsSpec => SourcingSettles
<1>1. JobsInv /\ [JobsNext]_jobVars => [sourced /\ sourced' => UNCHANGED <<TP_MAX_JOBS, MAKE_JOBS>>]_jobVars
  <2> SUFFICES ASSUME JobsInv, JobsNext, sourced, sourced'
               PROVE  UNCHANGED <<TP_MAX_JOBS, MAKE_JOBS>>
    BY DEF jobVars
  <2>1. PICK nproc \in NprocValues : Source(nproc)
    BY DEF JobsNext, SetMaxJobs, SetMakeJobs
  <2>2. TP_MAX_JOBS' = TP_MAX_JOBS
    BY <2>1, MaxJobsKeeps DEF JobsInv, JobsLimited, Source
  <2> QED
    BY <2>1, <2>2, JobsKeeps DEF JobsInv, JobsLimited, Source
<1> QED
  BY JobInvariant, <1>1, PTL DEF JobsSpec, SourcingSettles
-----------------------------------------------------------------------------
(* The elements of a set in order.                                          *)

IsOrder(less, S) ==
    /\ \A x, y \in S : x # y => <<x, y>> \in less \/ <<y, x>> \in less
    /\ \A x \in S : <<x, x>> \notin less
    /\ \A x, y, z \in S : <<x, y>> \in less /\ <<y, z>> \in less => <<x, z>> \in less

Place(S, less, x) == Cardinality({y \in S : <<y, x>> \in less})

LEMMA PlaceParts ==
    ASSUME NEW S, IsFiniteSet(S), NEW less, IsOrder(less, S)
    PROVE  /\ Cardinality(S) \in Nat
           /\ \A x \in S : Place(S, less, x) \in 0..(Cardinality(S) - 1)
           /\ \A x, y \in S : <<x, y>> \in less => Place(S, less, x) < Place(S, less, y)
<1> DEFINE n == Cardinality(S)
           before(x) == {y \in S : <<y, x>> \in less}
<1>1. n \in Nat
  BY FS_CardinalityType
<1>2. ASSUME NEW x \in S PROVE IsFiniteSet(before(x)) /\ Cardinality(before(x)) \in Nat
  <2>1. before(x) \in SUBSET S
    OBVIOUS
  <2> HIDE DEF before
  <2> QED
    BY <2>1, FS_Subset, FS_CardinalityType
<1>3. ASSUME NEW x \in S PROVE Cardinality(before(x)) \in 0..(n - 1)
  <2>1. before(x) \in SUBSET (S \ {x})
    BY DEF IsOrder
  <2>2. IsFiniteSet(S \ {x}) /\ Cardinality(S \ {x}) = n - 1
    BY FS_RemoveElement
  <2> HIDE DEF before, n
  <2>3. Cardinality(before(x)) <= n - 1
    BY <2>1, <2>2, FS_Subset
  <2> QED
    BY <1>1, <1>2, <2>3
<1>4. ASSUME NEW x \in S, NEW y \in S, <<x, y>> \in less
      PROVE  Cardinality(before(x)) < Cardinality(before(y))
  <2>1. before(x) \in SUBSET before(y) /\ x \in before(y) /\ x \notin before(x)
    BY <1>4 DEF IsOrder
  <2> HIDE DEF before
  <2>2. /\ Cardinality(before(x)) <= Cardinality(before(y))
        /\ Cardinality(before(y)) = Cardinality(before(x)) => before(y) = before(x)
    BY <1>2, <2>1, FS_Subset
  <2> QED
    BY <1>2, <2>1, <2>2
<1> QED
  BY <1>1, <1>3, <1>4 DEF Place

LEMMA PlaceTaken ==
    ASSUME NEW S, IsFiniteSet(S), NEW less, IsOrder(less, S)
    PROVE  /\ \A x, y \in S : Place(S, less, x) = Place(S, less, y) => x = y
           /\ \A k \in 1..Cardinality(S) : \E x \in S : Place(S, less, x) = k - 1
<1> DEFINE n == Cardinality(S)
           T == 0..(n - 1)
           f == [x \in S |-> Place(S, less, x)]
<1>1. /\ n \in Nat /\ \A x \in S : Place(S, less, x) \in T
      /\ \A x, y \in S : <<x, y>> \in less => Place(S, less, x) < Place(S, less, y)
  BY PlaceParts
<1>2. ASSUME NEW x \in S, NEW y \in S, Place(S, less, x) = Place(S, less, y) PROVE x = y
  <2>1. <<x, y>> \notin less /\ <<y, x>> \notin less
    BY <1>1, <1>2
  <2> QED
    BY <2>1 DEF IsOrder
<1>3. f \in Injection(S, T)
  BY <1>1, <1>2 DEF Injection, IsInjective
<1>4. IsFiniteSet(T) /\ Cardinality(T) = n
  <2> HIDE DEF n
  <2> QED
    BY <1>1, FS_Interval
<1>5. f \in Surjection(S, T)
  <2> HIDE DEF f, T
  <2> QED
    BY <1>3, <1>4, FS_Injection
<1>6. ASSUME NEW k \in 1..n PROVE \E x \in S : Place(S, less, x) = k - 1
  <2>1. k - 1 \in T
    BY <1>1
  <2>2. PICK x \in S : f[x] = k - 1
    BY <1>5, <2>1 DEF Surjection
  <2> QED
    BY <2>2
<1> QED
  BY <1>2, <1>6

\* Every element is there once, the lesser ones first.
LEMMA OrderedParts ==
    ASSUME NEW S, IsFiniteSet(S), NEW less, IsOrder(less, S)
    PROVE  /\ Cardinality(S) \in Nat
           /\ Ordered(S, less) \in [1..Cardinality(S) -> S]
           /\ \A i, j \in 1..Cardinality(S) : i < j => <<Ordered(S, less)[i], Ordered(S, less)[j]>> \in less
           /\ \A x \in S : \E k \in 1..Cardinality(S) : Ordered(S, less)[k] = x
<1> DEFINE n == Cardinality(S)
           o == Ordered(S, less)
<1>1. /\ n \in Nat /\ \A x \in S : Place(S, less, x) \in 0..(n - 1)
      /\ \A x, y \in S : <<x, y>> \in less => Place(S, less, x) < Place(S, less, y)
  BY PlaceParts
<1>2. /\ \A x, y \in S : Place(S, less, x) = Place(S, less, y) => x = y
      /\ \A k \in 1..n : \E x \in S : Place(S, less, x) = k - 1
  BY PlaceTaken
<1>3. o = [k \in 1..n |-> CHOOSE x \in S : Place(S, less, x) = k - 1]
  BY DEF Ordered, Place
<1> HIDE DEF o
<1>4. ASSUME NEW k \in 1..n PROVE o[k] \in S /\ Place(S, less, o[k]) = k - 1
  <2>1. o[k] = CHOOSE x \in S : Place(S, less, x) = k - 1
    BY <1>3
  <2> QED
    BY <1>2, <2>1
<1>5. o \in [1..n -> S]
  BY <1>3, <1>4
<1>6. ASSUME NEW i \in 1..n, NEW j \in 1..n, i < j PROVE <<o[i], o[j]>> \in less
  <2>1. Place(S, less, o[i]) < Place(S, less, o[j])
    BY <1>4, <1>6
  <2>2. o[i] # o[j] /\ <<o[j], o[i]>> \notin less
    BY <1>1, <1>4, <2>1
  <2> QED
    BY <1>4, <2>2 DEF IsOrder
<1>7. ASSUME NEW x \in S PROVE \E k \in 1..n : o[k] = x
  <2> DEFINE k == Place(S, less, x) + 1
  <2>1. k \in 1..n /\ k - 1 = Place(S, less, x)
    BY <1>1
  <2> HIDE DEF k
  <2>2. o[k] = x
    BY <1>2, <1>4, <2>1
  <2> QED
    BY <2>1, <2>2
<1> QED
  BY <1>1, <1>5, <1>6, <1>7 DEF o

-----------------------------------------------------------------------------
(* The exporter.                                                            *)

Row == [region : Range(Names), activity : 0..ActivityUnit \cup {Missing}]

LEMMA RankParts ==
    ASSUME NEW a \in Range(Names)
    PROVE  Rank(a) \in Nat /\ Names[Rank(a)] = a
<1>1. \E i \in DOMAIN Names : Names[i] = a
  BY DEF Range
<1>2. Rank(a) \in DOMAIN Names /\ Names[Rank(a)] = a
  BY <1>1 DEF Rank
<1>3. DOMAIN Names \subseteq Nat
  BY ExportAssumption
<1> QED
  BY <1>2, <1>3

\* The rows of a table, by the names of their buckets.
LEMMA SortedParts ==
    ASSUME NEW t \in Tables
    PROVE  /\ Sorted(t) \in Seq(Row)
           /\ Len(Sorted(t)) = Len(t)
           /\ \A i, j \in 1..Len(t) :
                i < j => Rank(Sorted(t)[i].region) < Rank(Sorted(t)[j].region)
<1> DEFINE n == Len(t)
           rank(i) == Rank(t[i].region)
           before == {p \in (1..n) \X (1..n) : rank(p[1]) < rank(p[2])}
           place == Ordered(1..n, before)
<1>1. t \in Seq(Row) /\ n \in Nat /\ DOMAIN t = 1..n
  <2>1. t \in Seq(Row)
    BY ExportAssumption DEF Row
  <2> QED
    BY <2>1
<1>2. \A i \in 1..n : t[i] \in Row /\ t[i].region \in Range(Names)
  <2>1. \A i \in 1..n : t[i] \in Row
    BY <1>1
  <2> QED
    BY <2>1 DEF Row
<1>3. \A i \in 1..n : rank(i) \in Nat /\ Names[rank(i)] = t[i].region
  BY <1>2, RankParts
<1>4. \A i, j \in 1..n : rank(i) = rank(j) => i = j
  <2> HIDE DEF rank, n
  <2>1. \A i, j \in 1..n : t[i].region = t[j].region => i = j
    BY <1>1, ExportAssumption
  <2> QED
    BY <1>3, <2>1
<1>5. \A i, j \in 1..n : <<i, j>> \in before <=> rank(i) < rank(j)
  <2> HIDE DEF rank
  <2> QED
    OBVIOUS
<1>6. IsOrder(before, 1..n)
  <2> HIDE DEF rank, before, n
  <2> QED
    BY <1>3, <1>4, <1>5 DEF IsOrder
<1>7. IsFiniteSet(1..n) /\ Cardinality(1..n) = n
  <2> HIDE DEF n
  <2> QED
    BY <1>1, FS_Interval
<1>8. /\ place \in [1..n -> 1..n]
      /\ \A i, j \in 1..n : i < j => <<place[i], place[j]>> \in before
  <2> HIDE DEF before, n
  <2> QED
    BY <1>6, <1>7, OrderedParts
<1>9. Sorted(t) = [k \in 1..n |-> t[place[k]]]
  BY <1>1 DEF Sorted
<1> HIDE DEF place, before, n
<1>10. Sorted(t) \in Seq(Row) /\ Len(Sorted(t)) = n
  <2>1. Sorted(t) \in [1..n -> Row]
    BY <1>2, <1>8, <1>9
  <2> QED
    BY <1>1, <2>1
<1>11. ASSUME NEW i \in 1..n, NEW j \in 1..n, i < j
       PROVE  Rank(Sorted(t)[i].region) < Rank(Sorted(t)[j].region)
  <2>1. rank(place[i]) < rank(place[j])
    BY <1>5, <1>8, <1>11
  <2> QED
    BY <1>9, <2>1
<1> QED
  BY <1>10, <1>11 DEF n

\* What rounding to the nearest whole number leaves.
LEMMA RoundedParts ==
    ASSUME NEW x \in Nat, NEW d \in Nat \ {0}
    PROVE  /\ Rounded(x, d) \in Nat
           /\ 2 * (d * Rounded(x, d)) <= 2 * x + d
           /\ 2 * x < 2 * (d * Rounded(x, d)) + d
<1> DEFINE q == Rounded(x, d)
           y == 2 * x + d
           e == 2 * d
<1>1. y \in Nat /\ e \in Nat \ {0}
  OBVIOUS
<1>2. q = y \div e
  BY DEF Rounded
<1> HIDE DEF q, y, e
<1>3. y \div e \in Nat /\ e * (y \div e) <= y /\ y < e * (y \div e) + e
  BY <1>1
<1>4. q \in Nat /\ e * q <= y /\ y < e * q + e
  BY <1>2, <1>3
<1>5. e * q = 2 * (d * q)
  BY <1>4 DEF e
<1>6. 2 * (d * q) <= 2 * x + d /\ 2 * x + d < 2 * (d * q) + 2 * d
  BY <1>4, <1>5 DEF y, e
<1>7. d * q \in Nat
  BY <1>4
<1> QED
  BY <1>4, <1>6, <1>7 DEF q

LEMMA RoundedOrder ==
    ASSUME NEW x \in Nat, NEW y \in Nat, NEW d \in Nat \ {0}, x <= y
    PROVE  Rounded(x, d) <= Rounded(y, d)
<1> DEFINE p == Rounded(x, d)
           q == Rounded(y, d)
<1>1. p \in Nat /\ q \in Nat /\ 2 * (d * p) <= 2 * x + d /\ 2 * y < 2 * (d * q) + d
  BY RoundedParts
<1> HIDE DEF p, q
<1>2. SUFFICES ASSUME q + 1 <= p PROVE FALSE
  BY <1>1 DEF p, q
<1>3. d * (q + 1) <= d * p
  BY <1>1, <1>2
<1>4. d * (q + 1) = d * q + d /\ d * q \in Nat /\ d * p \in Nat
  BY <1>1
<1> QED
  BY <1>1, <1>3, <1>4

\* Rounding the parts is off by one from rounding the sum.
LEMMA RoundedSum ==
    ASSUME NEW x \in Nat, NEW y \in Nat, NEW d \in Nat \ {0}
    PROVE  (Rounded(x, d) + Rounded(y, d)) - Rounded(x + y, d) \in -1..1
<1> DEFINE p == Rounded(x, d)
           q == Rounded(y, d)
           r == Rounded(x + y, d)
<1>1. /\ p \in Nat /\ 2 * (d * p) <= 2 * x + d /\ 2 * x < 2 * (d * p) + d
      /\ q \in Nat /\ 2 * (d * q) <= 2 * y + d /\ 2 * y < 2 * (d * q) + d
      /\ r \in Nat /\ 2 * (d * r) <= 2 * (x + y) + d /\ 2 * (x + y) < 2 * (d * r) + d
  <2> HIDE DEF p, q, r
  <2>1. x + y \in Nat
    OBVIOUS
  <2>2. p \in Nat /\ 2 * (d * p) <= 2 * x + d /\ 2 * x < 2 * (d * p) + d
    BY RoundedParts DEF p
  <2>3. q \in Nat /\ 2 * (d * q) <= 2 * y + d /\ 2 * y < 2 * (d * q) + d
    BY RoundedParts DEF q
  <2>4. r \in Nat /\ 2 * (d * r) <= 2 * (x + y) + d /\ 2 * (x + y) < 2 * (d * r) + d
    BY <2>1, RoundedParts DEF r
  <2> QED
    BY <2>2, <2>3, <2>4
<1> HIDE DEF p, q, r
<1> DEFINE e == (p + q) - r
<1>2. e \in Int /\ d * e = (d * p + d * q) - d * r
  BY <1>1
<1> HIDE DEF e
<1>3. d * p \in Nat /\ d * q \in Nat /\ d * r \in Nat /\ d * e \in Int
  BY <1>1, <1>2
<1>4. 2 * (d * e) < 3 * d + 1 /\ -(3 * d) - 1 < 2 * (d * e)
  BY <1>1, <1>2, <1>3
<1>5. e < 2
  <2> SUFFICES ASSUME 2 <= e PROVE FALSE
    BY <1>2
  <2>1. d * 2 <= d * e
    BY <1>2
  <2> QED
    BY <1>3, <1>4, <2>1
<1>6. -2 < e
  <2> SUFFICES ASSUME e <= -2 PROVE FALSE
    BY <1>2
  <2>1. d * e <= d * (-2)
    BY <1>2
  <2> QED
    BY <1>3, <1>4, <2>1
<1> QED
  BY <1>2, <1>5, <1>6 DEF e, p, q, r
-----------------------------------------------------------------------------
(* The files of an export.                                                  *)

\* The names and powers of the rows rs.
Powers(rs) == [names  |-> [i \in DOMAIN rs |-> rs[i].region],
               powers |-> [i \in DOMAIN rs |-> Power(rs[i].activity)]]

\* rows read from a table that is not empty.
Read(rs) ==
    /\ rs \in Seq(Row) /\ Len(rs) # 0
    /\ \A i, j \in 1..Len(rs) : i < j => Rank(rs[i].region) < Rank(rs[j].region)

\* What is written so far is of the rows that were read; a floorplan is left by
\* an export of its own rows.
ExportKept ==
    /\ pc \in {"idle", "start", "floorplan", "powers", "done", "failed"}
    /\ pc = "start" => table \in Tables
    /\ pc \in {"floorplan", "powers", "done"} => Read(rows)
    /\ floorplan = <<>> \/ \E rs \in Seq(Row) : Len(rs) # 0 /\ floorplan = Stripes(rs)
    /\ pc \in {"powers", "done"} => floorplan = Stripes(rows)
    /\ pc = "done" => /\ ptrace = Powers(rows)
                      /\ \A i \in DOMAIN rows : rows[i].activity # Missing

LEMMA ReadStep ==
    ASSUME ExportKept, ReadRegions
    PROVE  ExportKept'
<1>1. table \in Tables /\ rows' = Sorted(table) /\ UNCHANGED <<table, floorplan, ptrace>>
  BY DEF ExportKept, ReadRegions
<1>2. pc' = IF table = <<>> THEN "failed" ELSE "floorplan"
  BY DEF ReadRegions
<1>3. table # <<>> => Read(rows')
  <2> SUFFICES ASSUME table # <<>> PROVE Read(rows')
    OBVIOUS
  <2>1. table \in Seq(Row)
    BY <1>1, ExportAssumption DEF Row
  <2>2. Len(table) # 0
    BY <2>1, EmptySeq
  <2>3. /\ Sorted(table) \in Seq(Row) /\ Len(Sorted(table)) = Len(table)
        /\ \A i, j \in 1..Len(table) :
            i < j => Rank(Sorted(table)[i].region) < Rank(Sorted(table)[j].region)
    BY <1>1, SortedParts
  <2> QED
    BY <1>1, <2>2, <2>3 DEF Read
<1> QED
  BY <1>1, <1>2, <1>3 DEF ExportKept

LEMMA ExportInvariant == Spec => []ExportKept
<1>1. Init => ExportKept
  BY DEF Init, ExportKept
<1>2. ExportKept /\ [Next]_vars => ExportKept'
  <2> SUFFICES ASSUME ExportKept, [Next]_vars PROVE ExportKept'
    OBVIOUS
  <2>1. ASSUME NEW t \in Tables, NewTable(t) PROVE ExportKept'
    BY <2>1 DEF ExportKept, NewTable
  <2>2. CASE ReadRegions
    BY <2>2, ReadStep
  <2>3. CASE WriteFloorplan
    <3>1. Read(rows) /\ UNCHANGED <<table, rows, ptrace>> /\ floorplan' = Stripes(rows) /\ pc' = "powers"
      BY <2>3 DEF ExportKept, WriteFloorplan
    <3>2. rows \in Seq(Row) /\ Len(rows) # 0
      BY <3>1 DEF Read
    <3> QED
      BY <3>1, <3>2 DEF ExportKept
  <2>4. CASE WritePowers
    <3>1. /\ Read(rows) /\ UNCHANGED <<table, rows, floorplan>> /\ floorplan = Stripes(rows)
          /\ pc' \in {"failed", "done"}
          /\ pc' = "done" => ptrace' = Powers(rows) /\ \A i \in DOMAIN rows : rows[i].activity # Missing
      BY <2>4 DEF ExportKept, WritePowers, Powers
    <3> QED
      BY <3>1 DEF ExportKept
  <2>5. CASE UNCHANGED vars
    BY <2>5 DEF ExportKept, vars
  <2> QED
    BY <2>1, <2>2, <2>3, <2>4, <2>5 DEF Next
<1> QED
  BY <1>1, <1>2, PTL DEF Spec

\* What an export of the rows rs writes has one stripe and one column for a row.
LEMMA FilesOfRows ==
    ASSUME NEW rs, rs \in Seq(Row)
    PROVE  /\ Len(rs) \in Nat /\ DOMAIN rs = 1..Len(rs)
           /\ Len(Stripes(rs)) = Len(rs) /\ DOMAIN Stripes(rs) = 1..Len(rs)
           /\ Len(Powers(rs).names) = Len(rs) /\ DOMAIN Powers(rs).names = 1..Len(rs)
           /\ Len(Powers(rs).powers) = Len(rs)
           /\ \A i \in 1..Len(rs) :
                /\ Stripes(rs)[i].name = rs[i].region
                /\ Stripes(rs)[i].width = Rounded(ChipSize, Len(rs))
                /\ Stripes(rs)[i].left = Rounded((i - 1) * ChipSize, Len(rs))
                /\ Powers(rs).names[i] = rs[i].region
                /\ Powers(rs).powers[i] = Power(rs[i].activity)
<1> DEFINE n == Len(rs)
<1>1. n \in Nat /\ DOMAIN rs = 1..n
  OBVIOUS
<1> HIDE DEF n
<1>2. /\ Stripes(rs) = [i \in 1..n |-> [name  |-> rs[i].region,
                                        width |-> Rounded(ChipSize, n),
                                        left  |-> Rounded((i - 1) * ChipSize, n)]]
      /\ Powers(rs).names = [i \in 1..n |-> rs[i].region]
      /\ Powers(rs).powers = [i \in 1..n |-> Power(rs[i].activity)]
  BY <1>1 DEF Stripes, Powers, n
<1> QED
  BY <1>1, <1>2 DEF n

\* HotSpot's two inputs are of one table, column by block, after every successful
\* export, whatever an earlier one left in the files.
THEOREM ColumnsAlwaysMatchBlocks == Spec => []ColumnsMatchBlocks
<1>1. ExportKept => ColumnsMatchBlocks
  <2> SUFFICES ASSUME ExportKept, pc = "done" PROVE ColumnsMatchBlocks
    BY DEF ColumnsMatchBlocks
  <2>1. rows \in Seq(Row) /\ floorplan = Stripes(rows) /\ ptrace = Powers(rows)
    BY DEF ExportKept, Read
  <2>2. /\ Len(floorplan) = Len(rows) /\ DOMAIN floorplan = 1..Len(rows)
        /\ Len(ptrace.names) = Len(rows) /\ Len(ptrace.powers) = Len(rows)
        /\ \A i \in 1..Len(rows) : floorplan[i].name = rows[i].region /\ ptrace.names[i] = rows[i].region
    BY <2>1, FilesOfRows, Zenon
  <2> QED
    BY <2>2 DEF ColumnsMatchBlocks
<1> QED
  BY <1>1, ExportInvariant, PTL

\* The columns of the power trace are in the alphabetical order of the buckets,
\* whatever order the rows of the table came in.
THEOREM ColumnsAlwaysCanonical == Spec => []ColumnsAreCanonical
<1>1. ExportKept => ColumnsAreCanonical
  <2> SUFFICES ASSUME ExportKept, pc = "done" PROVE ColumnsAreCanonical
    BY DEF ColumnsAreCanonical
  <2>1. Read(rows) /\ ptrace = Powers(rows)
    BY DEF ExportKept
  <2>2. rows \in Seq(Row) /\ \A i, j \in 1..Len(rows) : i < j => Rank(rows[i].region) < Rank(rows[j].region)
    BY <2>1 DEF Read
  <2>3. /\ DOMAIN ptrace.names = 1..Len(rows)
        /\ \A i \in 1..Len(rows) : ptrace.names[i] = rows[i].region
    BY <2>1, <2>2, FilesOfRows, Zenon
  <2> QED
    BY <2>2, <2>3 DEF ColumnsAreCanonical
<1> QED
  BY <1>1, ExportInvariant, PTL

\* The stripes of every floorplan cover the chip from edge to edge, to within the
\* last printed digit, for any size of the chip and any number of buckets.
THEOREM StripesAlwaysMeet == Spec => []StripesMeet
<1>1. ASSUME NEW rs \in Seq(Row), Len(rs) # 0, floorplan = Stripes(rs) PROVE StripesMeet
  <2> DEFINE n == Len(rs)
  <2>1. n \in Nat \ {0} /\ ChipSize \in Nat
    BY <1>1, ExportAssumption
  <2>2. /\ DOMAIN floorplan = 1..n /\ Len(floorplan) = n
        /\ \A i \in 1..n : /\ floorplan[i].width = Rounded(ChipSize, n)
                           /\ floorplan[i].left = Rounded((i - 1) * ChipSize, n)
    BY <1>1, FilesOfRows, Zenon
  <2> HIDE DEF n
  <2>3. ASSUME NEW i \in 1..n
        PROVE  (Rounded((i - 1) * ChipSize, n) + Rounded(ChipSize, n)) - Rounded(i * ChipSize, n) \in -1..1
    <3> DEFINE x == (i - 1) * ChipSize
    <3>1. x \in Nat /\ x + ChipSize = i * ChipSize
      BY <2>1
    <3> HIDE DEF x
    <3>2. (Rounded(x, n) + Rounded(ChipSize, n)) - Rounded(x + ChipSize, n) \in -1..1
      BY <2>1, <3>1, RoundedSum
    <3> QED
      BY <3>1, <3>2 DEF x
  <2>4. Rounded(n * ChipSize, n) = ChipSize
    <3> DEFINE x == n * ChipSize
               q == Rounded(x, n)
    <3>1. x \in Nat
      BY <2>1
    <3>2. q \in Nat /\ 2 * (n * q) <= 2 * x + n /\ 2 * x < 2 * (n * q) + n
      BY <2>1, <3>1, RoundedParts
    <3> HIDE DEF q
    <3>3. ~(q < ChipSize)
      <4> SUFFICES ASSUME q + 1 <= ChipSize PROVE FALSE
        BY <2>1, <3>2
      <4>1. n * (q + 1) <= n * ChipSize
        BY <2>1, <3>2
      <4>2. n * (q + 1) = n * q + n /\ n * q \in Nat
        BY <2>1, <3>2
      <4> QED
        BY <2>1, <3>1, <3>2, <4>1, <4>2
    <3>4. ~(ChipSize < q)
      <4> SUFFICES ASSUME ChipSize + 1 <= q PROVE FALSE
        BY <2>1, <3>2
      <4>1. n * (ChipSize + 1) <= n * q
        BY <2>1, <3>2
      <4>2. n * (ChipSize + 1) = n * ChipSize + n /\ n * q \in Nat
        BY <2>1, <3>2
      <4> QED
        BY <2>1, <3>1, <3>2, <4>1, <4>2
    <3> QED
      BY <2>1, <3>2, <3>3, <3>4 DEF q
  <2>5. ASSUME NEW i \in 1..n
        PROVE  (floorplan[i].left + floorplan[i].width)
                 - (IF i = Len(floorplan) THEN ChipSize ELSE floorplan[i + 1].left) \in -1..1
    <3>1. CASE i = n
      BY <2>2, <2>3, <2>4, <3>1
    <3>2. CASE i # n
      <4>1. i + 1 \in 1..n /\ (i + 1) - 1 = i
        BY <2>1, <3>2
      <4>2. floorplan[i + 1].left = Rounded(i * ChipSize, n)
        BY <2>2, <4>1
      <4> QED
        BY <2>2, <2>3, <3>2, <4>2
    <3> QED
      BY <3>1, <3>2
  <2> DEFINE Right(i) == floorplan[i].left + floorplan[i].width
             Edge(i) == IF i = Len(floorplan) THEN ChipSize ELSE floorplan[i + 1].left
  <2>6. \A i \in DOMAIN floorplan : Right(i) - Edge(i) \in -1..1
    BY <2>2, <2>5, Zenon
  <2> HIDE DEF Right, Edge
  <2> QED
    BY <2>6, Zenon DEF StripesMeet, Right, Edge
<1>2. floorplan = <<>> => StripesMeet
  BY DEF StripesMeet
<1>3. ExportKept => StripesMeet
  BY <1>1, <1>2 DEF ExportKept
<1> QED
  BY <1>3, ExportInvariant, PTL

\* A row's power lies between the base power and the power of a bucket that
\* always toggles, and follows its activity, for any powers and activities.
THEOREM PowerAlwaysFollows == Spec => []PowerFollowsActivity
<1>1. ASSUME NEW a \in 0..ActivityUnit, NEW b \in 0..ActivityUnit, a <= b
      PROVE  Power(a) <= Power(b)
  <2> DEFINE base == BasePower * ActivityUnit
             x == base + DynamicScale * a
             y == base + DynamicScale * b
  <2>1. DynamicScale * a <= DynamicScale * b /\ DynamicScale * a \in Nat /\ DynamicScale * b \in Nat
    BY <1>1, ExportAssumption
  <2>2. base \in Nat
    BY ExportAssumption
  <2>3. x \in Nat /\ y \in Nat /\ x <= y
    <3> HIDE DEF base
    <3> QED
      BY <2>1, <2>2
  <2>4. Power(a) = Rounded(x, ActivityUnit) /\ Power(b) = Rounded(y, ActivityUnit)
    BY DEF Power
  <2> HIDE DEF x, y
  <2> QED
    BY <2>3, <2>4, RoundedOrder, ExportAssumption
<1>2. ASSUME NEW m \in Nat PROVE Rounded(m * ActivityUnit, ActivityUnit) = m
  <2> DEFINE u == ActivityUnit
             x == m * u
             q == Rounded(x, u)
  <2>1. u \in Nat \ {0} /\ x \in Nat
    BY ExportAssumption
  <2> HIDE DEF u
  <2>2. q \in Nat /\ 2 * (u * q) <= 2 * x + u /\ 2 * x < 2 * (u * q) + u
    <3> HIDE DEF x
    <3> QED
      BY <2>1, RoundedParts
  <2> HIDE DEF q
  <2>3. x = u * m /\ u * q \in Nat /\ u * m \in Nat
    BY <2>1, <2>2
  <2> HIDE DEF x
  <2>4. ~(q < m)
    <3> SUFFICES ASSUME q + 1 <= m PROVE FALSE
      BY <2>2
    <3>1. u * (q + 1) <= u * m /\ u * (q + 1) = u * q + u
      BY <2>1, <2>2
    <3> QED
      BY <2>1, <2>2, <2>3, <3>1
  <2>5. ~(m < q)
    <3> SUFFICES ASSUME m + 1 <= q PROVE FALSE
      BY <2>2
    <3>1. u * (m + 1) <= u * q /\ u * (m + 1) = u * m + u
      BY <2>1, <2>2
    <3> QED
      BY <2>1, <2>2, <2>3, <3>1
  <2> QED
    BY <2>2, <2>4, <2>5 DEF q, x, u
<1>3. Power(0) = BasePower /\ Power(ActivityUnit) = BasePower + DynamicScale
  <2>1. /\ BasePower \in Nat /\ BasePower + DynamicScale \in Nat
        /\ BasePower * ActivityUnit + DynamicScale * 0 = BasePower * ActivityUnit
        /\ BasePower * ActivityUnit + DynamicScale * ActivityUnit = (BasePower + DynamicScale) * ActivityUnit
    BY ExportAssumption
  <2> QED
    BY <1>2, <2>1 DEF Power
<1>4. ASSUME NEW a \in 0..ActivityUnit PROVE Power(a) \in BasePower..(BasePower + DynamicScale)
  <2>1. 0 \in 0..ActivityUnit /\ ActivityUnit \in 0..ActivityUnit /\ 0 <= a /\ a <= ActivityUnit
    BY ExportAssumption
  <2>2. BasePower <= Power(a) /\ Power(a) <= BasePower + DynamicScale
    BY <1>1, <1>3, <2>1
  <2>3. Power(a) \in Nat
    <3> DEFINE x == BasePower * ActivityUnit + DynamicScale * a
    <3>1. BasePower * ActivityUnit \in Nat /\ DynamicScale * a \in Nat
      BY ExportAssumption
    <3>2. x \in Nat
      BY <3>1
    <3>3. Power(a) = Rounded(x, ActivityUnit)
      BY DEF Power
    <3> HIDE DEF x
    <3> QED
      BY <3>2, <3>3, RoundedParts, ExportAssumption
  <2> QED
    BY <2>2, <2>3, ExportAssumption
<1>5. ExportKept => PowerFollowsActivity
  <2> SUFFICES ASSUME ExportKept, pc = "done" PROVE PowerFollowsActivity
    BY DEF PowerFollowsActivity
  <2>1. /\ rows \in Seq(Row) /\ ptrace = Powers(rows)
        /\ \A i \in DOMAIN rows : rows[i].activity # Missing
    BY DEF ExportKept, Read
  <2>2. /\ DOMAIN rows = 1..Len(rows)
        /\ \A i \in 1..Len(rows) : ptrace.powers[i] = Power(rows[i].activity)
    BY <2>1, FilesOfRows
  <2>3. ASSUME NEW i \in DOMAIN rows PROVE rows[i].activity \in 0..ActivityUnit
    <3>1. rows[i] \in Row
      BY <2>1
    <3> QED
      BY <2>1, <3>1 DEF Row
  <2>4. ASSUME NEW i \in DOMAIN rows, NEW j \in DOMAIN rows, rows[i].activity < rows[j].activity
        PROVE  ptrace.powers[i] <= ptrace.powers[j]
    <3>1. rows[i].activity \in 0..ActivityUnit /\ rows[j].activity \in 0..ActivityUnit
      BY <2>3
    <3>2. rows[i].activity <= rows[j].activity
      BY <2>4, <3>1, ExportAssumption
    <3> QED
      BY <1>1, <2>2, <3>1, <3>2
  <2>5. \A i \in DOMAIN rows : ptrace.powers[i] \in BasePower..(BasePower + DynamicScale)
    BY <1>4, <2>2, <2>3
  <2> QED
    BY <2>4, <2>5 DEF PowerFollowsActivity
<1> QED
  BY <1>5, ExportInvariant, PTL
=============================================================================
