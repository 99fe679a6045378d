----------------------------- MODULE VcdActivity -----------------------------
(***************************************************************************)
(* scripts/extract_vcd_activity.py: one pass over a VCD file, then the      *)
(* per-signal and per-bucket activity tables.                               *)
(*                                                                          *)
(* The file is produced line by line as it is read: a header of nested      *)
(* scopes and variable declarations, then time stamps and value changes.    *)
(* What Verilator's dumps have in common is in the guards: variables are    *)
(* declared inside scopes, the first line after the header is a time stamp, *)
(* and a code changes at most once per time step.  `timeout` ends the       *)
(* simulator anywhere, so the file may end after any line, or in the middle *)
(* of one (CutChange, CutTime).                                             *)
(*                                                                          *)
(* Left out: last_time, which is only copied to the tables; lines that are  *)
(* skipped ($dumpvars, comments, blanks); the wording of the CSV files.     *)
(***************************************************************************)
EXTENDS HierarchyTerms, SequencesExt, Orders

CONSTANTS
    Codes,         \* identifier codes of the file
    WidthOf,       \* width of each code's variables
    ValuesOf,      \* values a change may give a code: sequences over "0", "1", "x"
    CutTo,         \* for each code, the codes that are a proper prefix of it
    ScopeNames,    \* names of scopes
    SignalNames,   \* names of variables
    ClockWords,    \* names clock_re matches
    Maps,          \* hierarchy maps the extractor may be given
    TopSignals,    \* --top-signals, 0 for all (and for a negative number)
    ExcludeClocks, \* FALSE with --include-clocks
    Scale,         \* common multiple of the widths, so that activities are whole numbers
    MaxHeader,     \* bound on the lines of the header
    MaxBody        \* bound on the lines after it

\* The bits of a value as a line gives them.
Value == Seq({"0", "1", "x"})

ASSUME VcdAssumption ==
    /\ WidthOf \in [Codes -> Nat \ {0}]
    /\ \A c \in Codes : /\ Scale % WidthOf[c] = 0
                        /\ \A v \in ValuesOf[c] : v \in Value /\ Len(v) \in 1..WidthOf[c]
    /\ CutTo \in [Codes -> SUBSET Codes]
    /\ TopSignals \in Nat

VARIABLES
    map,        \* the hierarchy map of this invocation
    inHeader,   \* is the reader before $enddefinitions?
    scopes,     \* the open scopes
    signals,    \* per declared code: path, last value, toggles, changes
    order,      \* the declared codes, in the order of the signals dictionary
    timeSteps,  \* time stamps read
    cut,        \* did the file end inside a line?
    written,    \* have the tables been written?
    region,     \* the bucket table
    rows,       \* the signal table
    header,     \* the header's lines (history)
    body        \* the other lines (history)

Signal   == [path : Seq(ScopeNames \cup SignalNames), last : Value, toggles : Nat, changes : Nat]
BodyLine == {<<"time">>} \cup ({"change"} \X Codes \X Value)

reader == <<inHeader, scopes, signals, order, timeSteps>>
tables == <<written, region, rows>>
lines  == <<header, body>>
vars   == <<map, reader, cut, tables, lines>>

Init ==
    /\ map \in Maps
    /\ inHeader = TRUE
    /\ scopes = <<>>
    /\ signals = <<>>
    /\ order = <<>>
    /\ timeSteps = 0
    /\ cut = FALSE
    /\ written = FALSE
    /\ region = <<>>
    /\ rows = <<>>
    /\ header = <<>>
    /\ body = <<>>
-----------------------------------------------------------------------------
(* Reading the header.                                                      *)

MoreHeader(line) ==
    /\ inHeader /\ ~cut /\ ~written
    /\ Len(header) < MaxHeader
    /\ header' = Append(header, line)
    /\ UNCHANGED <<map, inHeader, timeSteps, cut, tables, body>>

ReadScope(n) ==
    /\ MoreHeader(<<"scope", n>>)
    /\ scopes' = Append(scopes, n)
    /\ UNCHANGED <<signals, order>>

ReadUpscope ==
    /\ MoreHeader(<<"upscope">>)
    /\ scopes' = IF scopes = <<>> THEN scopes ELSE Front(scopes)
    /\ UNCHANGED <<signals, order>>

Fresh(path) == [path |-> path, last |-> <<>>, toggles |-> 0, changes |-> 0]

\* Fault: a redeclared code takes the new path.
RedeclaresCode(c, n) ==
    /\ scopes # <<>>
    /\ MoreHeader(<<"var", c, n>>)
    /\ signals' = (c :> Fresh(Append(scopes, n))) @@ signals
    /\ order' = IF c \in DOMAIN signals THEN order ELSE Append(order, c)
    /\ UNCHANGED scopes

\* setdefault: a code declared again, an alias of the net, keeps its first path.
ReadVar(c, n) ==
    /\ scopes # <<>>
    /\ MoreHeader(<<"var", c, n>>)
    /\ IF c \in DOMAIN signals
       THEN UNCHANGED <<signals, order>>
       ELSE /\ signals' = [d \in DOMAIN signals \cup {c} |->
                            IF d = c THEN Fresh(Append(scopes, n)) ELSE signals[d]]
            /\ order' = Append(order, c)
    /\ UNCHANGED scopes

EndDefinitions ==
    /\ inHeader /\ ~cut /\ ~written
    /\ inHeader' = FALSE
    /\ UNCHANGED <<map, scopes, signals, order, timeSteps, cut, tables, lines>>
-----------------------------------------------------------------------------
(* Reading values.                                                          *)

Defined(v) == Range(v) \subseteq {"0", "1"}

\* str.zfill
Pad(v, n) == [i \in 1..(n - Len(v)) |-> "0"] \o v

ToggleDelta(old, new, width) ==
    IF old = new THEN 0
    ELSE IF Defined(old) /\ Defined(new)
         THEN LET n == Max({Len(old), Len(new), width})
                  a == Pad(old, n)
                  b == Pad(new, n)
              IN Cardinality({i \in 1..n : a[i] # b[i]})
         ELSE 1

\* Fault: a value with an unknown bit is not remembered.
CountedIfDefined(c, v) ==
    LET s == signals[c]
        delta == IF s.last = <<>> THEN 0 ELSE ToggleDelta(s.last, v, WidthOf[c])
    IN [s EXCEPT !.last = IF Defined(v) THEN v ELSE @, !.toggles = @ + delta,
                 !.changes = @ + (IF delta > 0 THEN 1 ELSE 0)]

Counted(c, v) ==
    LET s == signals[c]
        delta == IF s.last = <<>> THEN 0 ELSE ToggleDelta(s.last, v, WidthOf[c])
    IN [s EXCEPT !.last = v, !.toggles = @ + delta,
                 !.changes = @ + (IF delta > 0 THEN 1 ELSE 0)]

MoreBody ==
    /\ ~inHeader /\ ~cut /\ ~written
    /\ Len(body) < MaxBody
    /\ UNCHANGED <<map, inHeader, scopes, order, tables, header>>

\* The codes that changed since the last time stamp.
ThisStep ==
    {c \in Codes : \E i \in DOMAIN body :
        /\ body[i][1] = "change" /\ body[i][2] = c
        /\ \A j \in i..Len(body) : body[j][1] # "time"}

\* A change the simulator may write next.
Writable(c, v) ==
    /\ c \in DOMAIN signals \ ThisStep
    /\ v \in ValuesOf[c]
    /\ body # <<>>

\* Fault: the first time stamp opens the dump and is not counted as a step.
FirstTimeIgnored ==
    /\ MoreBody
    /\ body' = Append(body, <<"time">>)
    /\ timeSteps' = IF body = <<>> THEN 0 ELSE timeSteps + 1
    /\ UNCHANGED <<signals, cut>>

ReadTime ==
    /\ MoreBody
    /\ body' = Append(body, <<"time">>)
    /\ timeSteps' = timeSteps + 1
    /\ UNCHANGED <<signals, cut>>

ReadChange(c, v) ==
    /\ MoreBody
    /\ Writable(c, v)
    /\ body' = Append(body, <<"change", c, v>>)
    /\ signals' = [signals EXCEPT ![c] = Counted(c, v)]
    /\ UNCHANGED <<timeSteps, cut>>

\* The line of a change is cut inside its code: what is left may be the code of
\* another signal, or of none.
CutChange(c, v) ==
    /\ MoreBody
    /\ Writable(c, v)
    /\ \/ UNCHANGED signals
       \/ \E d \in CutTo[c] \cap DOMAIN signals : signals' = [signals EXCEPT ![d] = Counted(d, v)]
    /\ cut' = TRUE
    /\ UNCHANGED <<timeSteps, body>>

\* A cut time stamp is still one.
CutTime ==
    /\ MoreBody
    /\ timeSteps' = timeSteps + 1
    /\ cut' = TRUE
    /\ UNCHANGED <<signals, body>>
-----------------------------------------------------------------------------
(* The tables.                                                              *)

IsClock(path) == Range(path) \cap ClockWords # {}

\* The codes that are reported, in dictionary order.
Kept == Picked(order, {i \in DOMAIN order : ~(ExcludeClocks /\ IsClock(signals[order[i]].path))})

\* Fault: the rows are cut off before they are sorted.
FirstDeclared(codes) == IF TopSignals = 0 THEN codes ELSE SubSeq(codes, 1, Min({TopSignals, Len(codes)}))

\* rows.sort(reverse=True) keeps the order of equal rows; then the first top_signals.
Busiest(codes) ==
    LET count(i) == signals[codes[i]].toggles
        before == {p \in (DOMAIN codes) \X (DOMAIN codes) :
                     \/ count(p[1]) > count(p[2])
                     \/ count(p[1]) = count(p[2]) /\ p[1] < p[2]}
        rank == Ordered(DOMAIN codes, before)
        n == IF TopSignals = 0 THEN Len(codes) ELSE Min({TopSignals, Len(codes)})
    IN [k \in 1..n |-> codes[rank[k]]]

\* Activity in units of 1 / (Scale * max(1, time_steps)).
Activity(c) == signals[c].toggles * (Scale \div WidthOf[c])

BucketOf(c) == Classify(signals[c].path, map)

\* Fault: the buckets are summed over the rows that are reported.
TotalsOfRows(codes) ==
    LET In(b) == {c \in Range(Busiest(codes)) : BucketOf(c) = b} IN
    [b \in Buckets(map) \cup {BucketOf(c) : c \in Range(codes)} |->
        [signals  |-> Cardinality(In(b)),
         toggles  |-> SumFunction([c \in In(b) |-> signals[c].toggles]),
         activity |-> SumFunction([c \in In(b) |-> Activity(c)])]]

Totals(codes) ==
    LET In(b) == {c \in Range(codes) : BucketOf(c) = b} IN
    [b \in Buckets(map) \cup {BucketOf(c) : c \in Range(codes)} |->
        [signals  |-> Cardinality(In(b)),
         toggles  |-> SumFunction([c \in In(b) |-> signals[c].toggles]),
         activity |-> SumFunction([c \in In(b) |-> Activity(c)])]]

\* The end of the file, wherever it is.
WriteOutputs ==
    /\ ~written
    /\ written' = TRUE
    /\ region' = Totals(Kept)
    /\ rows' = Busiest(Kept)
    /\ UNCHANGED <<map, reader, cut, lines>>

Next ==
    \/ \E n \in ScopeNames : ReadScope(n)
    \/ ReadUpscope
    \/ \E c \in Codes, n \in SignalNames : ReadVar(c, n)
    \/ EndDefinitions
    \/ ReadTime
    \/ \E c \in Codes : \E v \in ValuesOf[c] : ReadChange(c, v) \/ CutChange(c, v)
    \/ CutTime
    \/ WriteOutputs

Spec == Init /\ [][Next]_vars
-----------------------------------------------------------------------------
(* What the file says, without the reader.                                  *)

Declarations(c) == {k \in DOMAIN header : header[k][1] = "var" /\ header[k][2] = c}

Declared == {c \in Codes : Declarations(c) # {}}

\* How many lines of a kind follow line i up to line j.
Between(i, j, kind) == Cardinality({l \in (i + 1)..j : header[l][1] = kind})

\* The scope lines that are open at line k: no upscope after them is theirs.
OpenAt(k) ==
    {i \in 1..(k - 1) : /\ header[i][1] = "scope"
                        /\ \A j \in i..(k - 1) : Between(i, j, "upscope") <= Between(i, j, "scope")}

PathAt(k) ==
    LET open == Picked(header, OpenAt(k)) IN [i \in DOMAIN open |-> open[i][2]] \o <<header[k][3]>>

PathOf(c) == PathAt(Min(Declarations(c)))

\* The values of a code, in time order.
Waveform(c) ==
    LET changes == Picked(body, {i \in DOMAIN body : body[i][1] = "change" /\ body[i][2] = c})
    IN [i \in DOMAIN changes |-> changes[i][3]]

\* Bits of a value by weight, those that were not written being 0.
Bit(v, i) == IF i <= Len(v) THEN v[Len(v) + 1 - i] ELSE "0"

Distance(c, u, v) ==
    IF Defined(u) /\ Defined(v) THEN Cardinality({i \in 1..WidthOf[c] : Bit(u, i) # Bit(v, i)})
    ELSE IF u = v THEN 0 ELSE 1

Toggles(c) ==
    LET w == Waveform(c) IN SumFunction([i \in 1..(Len(w) - 1) |-> Distance(c, w[i], w[i + 1])])

Changes(c) ==
    LET w == Waveform(c) IN Cardinality({i \in 1..(Len(w) - 1) : Distance(c, w[i], w[i + 1]) > 0})

Reported == {c \in Declared : ~(ExcludeClocks /\ IsClock(PathOf(c)))}
-----------------------------------------------------------------------------
(* Properties.                                                              *)

\* The types of the parser's state.
TypeOK ==
    /\ map \in Maps
    /\ inHeader \in BOOLEAN /\ cut \in BOOLEAN /\ written \in BOOLEAN
    /\ scopes \in Seq(ScopeNames)
    /\ order \in Seq(Codes)
    /\ DOMAIN signals \subseteq Codes /\ signals \in [DOMAIN signals -> Signal]
    /\ timeSteps \in Nat
    /\ body \in Seq(BodyLine)

\* Every net is known under the path of its first declaration, whatever scopes
\* were opened and closed around it and however often it is declared again: the
\* scope stack and setdefault of iter_vcd against the nesting of the header.
PathsMatchHeader ==
    /\ Range(order) = Declared
    /\ \A c \in Declared : signals[c].path = PathOf(c)

\* The counts of a signal are those of its waveform, values being numbers whose
\* leading zeros may be dropped; a dump that ends inside a line gives a wrong
\* count to one signal at most (value_toggle_delta and the loop of iter_vcd).
WaveformCounted ==
    LET wrong == {c \in Declared : \/ signals[c].toggles # Toggles(c)
                                   \/ signals[c].changes # Changes(c)}
    IN written => Cardinality(wrong) <= IF cut THEN 1 ELSE 0

\* No normalized activity exceeds 1, even by the step that only sets the first
\* values: toggles against width times time_steps, the denominator of
\* write_outputs, for dumps that are not cut.
ActivityBounded ==
    ~cut => \A c \in DOMAIN signals :
                signals[c].toggles <= WidthOf[c] * (IF timeSteps = 0 THEN 0 ELSE timeSteps - 1)

\* The bucket table accounts for every reported net of the dump once, in one
\* bucket, with all its toggles, however few rows the signal table keeps
\* (write_outputs aggregates before it truncates).
TotalsMatchDump ==
    written /\ ~cut =>
        \A b \in DOMAIN region :
            LET nets == {c \in Reported : Classify(PathOf(c), map) = b}
            IN /\ region[b].signals = Cardinality(nets)
               /\ region[b].toggles = SumFunction([c \in nets |-> Toggles(c)])
               /\ \A c \in Reported : Classify(PathOf(c), map) \in DOMAIN region

\* The signal table has the busiest reported nets: no net left out has more
\* toggles than one listed, and the table is as long as top_signals allows.
BusiestListed ==
    written =>
        /\ IsInjective(rows) /\ Range(rows) \subseteq Reported
        /\ Len(rows) = IF TopSignals = 0 THEN Cardinality(Reported)
                       ELSE Min({TopSignals, Cardinality(Reported)})
        /\ \A i \in DOMAIN rows : \A c \in Reported :
            signals[c].toggles > signals[rows[i]].toggles => \E j \in 1..(i - 1) : rows[j] = c

\* A hierarchy map can only move a signal forward in the order of the default
\* buckets: load_category_terms adds the map's modules to the default keywords
\* and takes none away, and classify stops at the first hit.
MapMovesForward ==
    written => \A c \in DOMAIN signals : \A i \in DOMAIN DefaultOrder :
        Classify(signals[c].path, NoMap) = DefaultOrder[i]
            => \E j \in 1..i : BucketOf(c) = DefaultOrder[j]
=============================================================================
